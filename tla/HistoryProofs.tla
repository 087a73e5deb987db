---------------------------- MODULE HistoryProofs ----------------------------
(***************************************************************************)
(* Theorems about what the loop owes to what users and guests did before:  *)
(* WatchdogHistory for every configuration, every set of guests and every  *)
(* length of its windows.                                                  *)
(***************************************************************************)
EXTENDS WatchdogHistory, WatchdogProofs

(* The history only watches: with it or without, the loop behaves as Spec. *)
LEMMA HistoryRefinesSpec == HistorySpec => Spec
<1>1. HistoryInit => Init
  BY DEF HistoryInit
<1>2. [Next /\ Record]_<<vars, history>> => [Next]_vars
  OBVIOUS
<1> QED
  BY <1>1, <1>2, PTL DEF HistorySpec, Spec

(* Ages that grow keep their order, and a live age was live before. *)
LEMMA OlderOrder ==
    ASSUME NEW a \in Ages, NEW b \in Ages
    PROVE  /\ a <= b => Older(a) <= Older(b)
           /\ Older(a) < Older(b) => a < b
           /\ Live(Older(a)) => Live(a)
           /\ Live(Older(a)) /\ Older(a) = Older(b) => a = b
           /\ a <= Older(a) /\ Older(a) # 0 /\ ~Live(Never)
           /\ Live(a) <=> a # Never
BY DurationsAssumption DEF Ages, Older, Live, Never

(* What the history variables are said to hold, beside Watchdog's own. *)
HistoryTypeOK == TypeOK /\ late \subseteq Asked /\ seenUp \subseteq Asked /\ lastSeen \in Ages

(* The history variables hold what they are said to. *)
LEMMA RecordType ==
    ASSUME HistoryTypeOK, TypeOK', [Next /\ Record]_<<vars, history>>
    PROVE  HistoryTypeOK'
<1>1. CASE Record
  <2>1. Pressed \subseteq Asked /\ 0 \in Ages
    BY Basics DEF Pressed
  <2>2. late' \subseteq Asked
    BY <1>1, <2>1 DEF Record, HistoryTypeOK
  <2>3. seenUp' \subseteq Asked
    BY <1>1, <2>1 DEF Record, HistoryTypeOK
  <2>4. lastSeen' \in Ages
    BY <1>1, <2>1, OlderType DEF Record, HistoryTypeOK
  <2> QED
    BY <2>2, <2>3, <2>4 DEF HistoryTypeOK
<1>2. CASE UNCHANGED <<vars, history>>
  BY <1>2 DEF history, HistoryTypeOK
<1> QED
  BY <1>1, <1>2

(* The history variables hold what they are said to, in every behaviour of *)
(* every instance.                                                         *)
LEMMA HistoryTypeCorrect == HistorySpec => []HistoryTypeOK
<1>1. HistoryInit /\ TypeOK => HistoryTypeOK
  BY Basics DEF HistoryInit, HistoryTypeOK
<1>2. HistoryTypeOK /\ TypeOK' /\ [Next /\ Record]_<<vars, history>> => HistoryTypeOK'
  BY RecordType
<1> QED
  BY <1>1, <1>2, TypeCorrect, HistoryRefinesSpec, PTL DEF HistorySpec

-----------------------------------------------------------------------------
(* A request of v made that long ago has had its tries. *)
GivenUp(v, age) == fails[v].of = age /\ fails[v].tries >= StartFailLimit

(* Time gives up on no request: one that is given up on after a time unit   *)
(* was before.                                                              *)
LEMMA GivenUpStays ==
    ASSUME TypeOK, Tick, NEW v \in Asked, NEW age \in Ages, Live(Older(age))
    PROVE  fails'[v].of = Older(age) /\ fails'[v].tries >= StartFailLimit <=> GivenUp(v, age)
<1> DEFINE f == fails[v]
<1>1. f \in [tries : 0 .. StartFailLimit, of : Ages, last : 0 .. Interval]
  BY DEF TypeOK
<1>2. fails'[v] = IF Older(f.of) = Never THEN NoFail
                  ELSE [f EXCEPT !.of = Older(f.of),
                                 !.last = IF f.last < Interval THEN f.last + 1 ELSE f.last]
  BY DEF Tick
<1>3. CASE Older(f.of) = Never
  <2>1. fails'[v].tries = 0
    BY <1>2, <1>3 DEF NoFail
  <2>2. f.of # age
    BY <1>1, <1>3, OlderOrder
  <2> QED
    BY <2>1, <2>2 DEF GivenUp, StartFailLimit
<1>4. CASE Older(f.of) # Never
  <2>1. fails'[v].of = Older(f.of) /\ fails'[v].tries = f.tries
    BY <1>1, <1>2, <1>4
  <2>2. Older(f.of) = Older(age) <=> f.of = age
    BY <1>1, OlderOrder
  <2> QED
    BY <2>1, <2>2 DEF GivenUp
<1> QED
  BY <1>3, <1>4

(* The same of the request v has now. *)
LEMMA RetiredStays ==
    ASSUME TypeOK, Tick, NEW v \in Asked, Live(wake'[v])
    PROVE  retired(v)' <=> retired(v)
<1>1. wake[v] \in Ages /\ wake'[v] = Older(wake[v])
  BY DEF TypeOK, Tick, OlderAges
<1>2. fails'[v].of = Older(wake[v]) /\ fails'[v].tries >= StartFailLimit <=> GivenUp(v, wake[v])
  BY <1>1, GivenUpStays
<1> QED
  BY <1>1, <1>2 DEF retired, GivenUp

(* No step of the loop touches the users' requests. *)
LEMMA LoopKeepsWake == ASSUME Loop PROVE wake' = wake
<1>1. CASE ObserveFails \/ ReadIntent \/ ReadUp \/ ReadDown \/ ReadUnconfirmed \/ Apply \/ ApplyFails
  BY <1>1 DEF ObserveFails, ReadIntent, ReadUp, ReadDown, ReadUnconfirmed, Apply, ApplyFails
<1>2. CASE Migrated \/ MigrateFails \/ StopAll \/ StopFinished \/ StopInterrupted \/ StopFails
  BY <1>2 DEF Migrated, MigrateFails, StopAll, StopFinished, StopInterrupted, StopFails
<1>3. CASE Wake \/ WakeFails \/ Awake \/ WakeTimesOut \/ StartRequested \/ StartUnlisted
  BY <1>3 DEF Wake, WakeFails, Awake, WakeTimesOut, StartRequested, StartUnlisted
<1>4. CASE RestoreStopped \/ RestoreFails \/ Recheck \/ PowerOff \/ ShutdownNode \/ Save
  BY <1>4 DEF RestoreStopped, RestoreFails, Recheck, PowerOff, ShutdownNode, Save
<1> QED
  BY <1>1, <1>2, <1>3, <1>4 DEF Loop

(* What others do to the users' requests: a press makes one anew, a stop in *)
(* the page takes one away, and time ages them all.                         *)
LEMMA OthersWake ==
    ASSUME TypeOK, World
    PROVE  \/ Tick
           \/ wake' = wake
           \/ \E v \in Asked :
                 /\ UNCHANGED <<persisted, memory, tick, remote, host, req>>
                 /\ \A w \in Asked \ {v} : wake'[w] = wake[w]
                 /\ wake'[v] \in {0, Never}
<1>1. ASSUME NEW v \in Asked, Press(v)
      PROVE  /\ UNCHANGED <<persisted, memory, tick, remote, host, req>>
             /\ \A w \in Asked \ {v} : wake'[w] = wake[w]
             /\ wake'[v] = 0
  BY <1>1 DEF Press, TypeOK, p1
<1>2. ASSUME NEW v \in Asked, PowerAction(v)
      PROVE  /\ UNCHANGED <<persisted, memory, tick, remote, host, req>>
             /\ \A w \in Asked \ {v} : wake'[w] = wake[w]
             /\ wake'[v] = Never
  BY <1>2 DEF PowerAction, TypeOK
<1>3. ASSUME NEW g \in Guests, GuestStops(g) \/ GuestStarts(g) \/ MovedBack(g) PROVE wake' = wake
  BY <1>3 DEF GuestStops, GuestStarts, MovedBack
<1>4. CASE \/ StopTaskStep \/ Booted \/ ShutDown \/ HostLost \/ HandOn
           \/ NutDogPoll \/ NutDogRestart \/ NutDogProbes \/ Crash
  BY <1>4 DEF StopTaskStep, Booted, ShutDown, HostLost, GoneDown, HandOn,
              NutDogPoll, NutDogRestart, NutDogProbes, Crash
<1> QED
  BY <1>1, <1>2, <1>3, <1>4 DEF World

-----------------------------------------------------------------------------
(* The order of execute() does not lead out of the tick. *)
LEMMA StepsGoOn ==
    ASSUME NEW p, NEW step \in {FirstStep(p), AfterMigrate(p), AfterStop(p),
                               AfterWake(p), AfterStart(p), AfterRestore(p)}
    PROVE  step \notin {"idle", "observe", "apply"}
<1>1. AfterStart(p) \notin {"idle", "observe", "apply"} /\ AfterRestore(p) \notin {"idle", "observe", "apply"}
  BY DEF AfterStart, AfterRestore
<1>2. AfterWake(p) \notin {"idle", "observe", "apply"} /\ AfterStop(p) \notin {"idle", "observe", "apply"}
  BY <1>1 DEF AfterStop, AfterWake
<1>3. AfterMigrate(p) \notin {"idle", "observe", "apply"} /\ FirstStep(p) \notin {"idle", "observe", "apply"}
  BY <1>2 DEF FirstStep, AfterMigrate
<1> QED
  BY <1>1, <1>2, <1>3

(* Only the last look at the intent leads to the power-off. *)
LEMMA IntoPowerOff ==
    ASSUME Loop, pc' = "poweroff"
    PROVE  Recheck \/ ObserveFails
<1>1. CASE ReadIntent \/ ReadUp \/ ReadDown \/ ReadUnconfirmed
  BY <1>1 DEF ReadIntent, ReadUp, ReadDown, ReadUnconfirmed, Decided, EndTick
<1>2. CASE Apply \/ ApplyFails
  BY <1>2 DEF Apply, ApplyFails, EndTick, Continue,
              FirstStep, AfterMigrate, AfterStop, AfterWake, AfterStart, AfterRestore
<1>3. CASE Migrated \/ MigrateFails \/ StopAll \/ StopFinished \/ StopInterrupted \/ StopFails
  BY <1>3 DEF Migrated, MigrateFails, StopAll, StopFinished, StopInterrupted, StopFails, EndTick, Continue,
              AfterMigrate, AfterStop, AfterWake, AfterStart, AfterRestore
<1>4. CASE Wake \/ WakeFails \/ Awake \/ WakeTimesOut \/ StartRequested \/ StartUnlisted
  BY <1>4 DEF Wake, WakeFails, Awake, WakeTimesOut, StartRequested, StartUnlisted, EndTick, Continue,
              AfterWake, AfterStart, AfterRestore
<1>5. CASE RestoreStopped \/ RestoreFails \/ PowerOff \/ ShutdownNode \/ Save
  BY <1>5 DEF RestoreStopped, RestoreFails, PowerOff, ShutdownNode, Save, EndTick, Continue, AfterRestore
<1> QED
  BY <1>1, <1>2, <1>3, <1>4, <1>5 DEF Loop

(* What the steps of the loop do to the markers, to the start budget and to *)
(* its own tick.                                                            *)
LEMMA LoopSteps ==
    ASSUME Loop
    PROVE  /\ done' = done \/ (Save /\ done' = plan.done)
           /\ fails' = fails \/ StartRequested
           /\ pc' = "observe" => ReadIntent
           /\ InTick' => ReadUp \/ ReadDown \/ (InTick /\ plan' = plan)
<1> USE DEF persisted, memory, tick
<1>1. CASE ObserveFails \/ ReadIntent \/ ReadUnconfirmed
  BY <1>1 DEF ObserveFails, ReadIntent, ReadUnconfirmed, EndTick, InTick
<1>2. CASE ReadUp \/ ReadDown
  BY <1>2 DEF ReadUp, ReadDown, Decided
<1>3. ASSUME UNCHANGED <<done, fails>>, InTick,
             EndTick \/ \E step : Continue(step) /\ step # "observe"
      PROVE  /\ done' = done /\ fails' = fails /\ pc' # "observe"
             /\ InTick' => InTick /\ plan' = plan
  BY <1>3 DEF EndTick, Continue, InTick
<1>4. CASE Apply
  <2>1. UNCHANGED <<done, fails>> /\ InTick
    BY <1>4 DEF Apply, InTick
  <2>2. EndTick \/ \E step : Continue(step) /\ step # "observe"
    <3>1. EndTick \/ Continue(IF Full THEN FirstStep(plan) ELSE "save")
      BY <1>4 DEF Apply
    <3> QED
      BY <3>1, StepsGoOn
  <2> QED
    BY <1>3, <2>1, <2>2
<1>5. CASE ApplyFails
  <2>1. UNCHANGED <<done, fails>> /\ InTick
    BY <1>5 DEF ApplyFails, InTick
  <2>2. EndTick \/ Continue("save")
    BY <1>5 DEF ApplyFails
  <2> QED
    BY <1>3, <2>1, <2>2
<1>6. CASE Migrated \/ MigrateFails \/ StopAll \/ StopFinished \/ StopInterrupted \/ StopFails
  <2>1. UNCHANGED <<done, fails>> /\ InTick
    BY <1>6 DEF Migrated, MigrateFails, StopAll, StopFinished, StopInterrupted, StopFails, InTick
  <2>2. EndTick \/ \E step \in {AfterMigrate(plan), "stopping", AfterStop(plan), "save"} : Continue(step)
    BY <1>6 DEF Migrated, MigrateFails, StopAll, StopFinished, StopInterrupted, StopFails
  <2> QED
    BY <1>3, <2>1, <2>2, StepsGoOn
<1>7. CASE Wake \/ WakeFails \/ Awake \/ WakeTimesOut \/ StartUnlisted
  <2>1. UNCHANGED <<done, fails>> /\ InTick
    BY <1>7 DEF Wake, WakeFails, Awake, WakeTimesOut, StartUnlisted, InTick
  <2>2. EndTick \/ \E step \in {"waking", AfterWake(plan), AfterStart(plan)} : Continue(step)
    BY <1>7 DEF Wake, WakeFails, Awake, WakeTimesOut, StartUnlisted
  <2> QED
    BY <1>3, <2>1, <2>2, StepsGoOn
<1>8. CASE StartRequested
  <2>1. done' = done /\ pc = "start" /\ plan' = plan /\ pc' = AfterStart(plan)
    BY <1>8 DEF StartRequested, Continue
  <2> QED
    BY <1>8, <2>1, StepsGoOn DEF InTick
<1>9. CASE RestoreStopped \/ RestoreFails \/ Recheck \/ PowerOff \/ ShutdownNode
  <2>1. UNCHANGED <<done, fails>> /\ InTick
    BY <1>9 DEF RestoreStopped, RestoreFails, Recheck, PowerOff, ShutdownNode, InTick
  <2>2. EndTick \/ \E step \in {AfterRestore(plan), "save", "poweroff"} : Continue(step)
    BY <1>9 DEF RestoreStopped, RestoreFails, Recheck, PowerOff, ShutdownNode
  <2> QED
    BY <1>3, <2>1, <2>2, StepsGoOn
<1>10. CASE Save
  BY <1>10 DEF Save, EndTick, InTick
<1> QED
  BY <1>1, <1>2, <1>4, <1>5, <1>6, <1>7, <1>8, <1>9, <1>10 DEF Loop

(* A VM is only to be started in a tick that remembers no off; a shed keeps *)
(* every marker; and a tick that remembers an off has read what its users   *)
(* asked for before they asked anew.                                        *)
StartsFree == InTick /\ plan.start # {} => ~askedOff
ShedKeepsMarkers == InTick /\ plan.poweroff => \A v \in Asked : done[v] <= plan.done[v]
ReadsAsked ==
    askedOff /\ pc = "observe" =>
        \A v \in GamingGuard \cap Asked :
            ~retired(v) /\ Live(wake[v]) => v \in late \/ snap.wake[v] = wake[v]

(* The inductive strengthening of RescueWindow: once an off is about to be  *)
(* sent or remembered, neither state.json nor the plan leaves a request to  *)
(* serve that was there at the last look.                                   *)
Heeded(v, marker) == v \in GamingGuard /\ ~retired(v) /\ Live(wake[v]) /\ wake[v] < marker => v \in late
Stands == askedOff \/ pc = "poweroff"
Rescued == Stands => \A v \in Asked : Heeded(v, done[v]) /\ (InTick => Heeded(v, plan.done[v]))
RescueInv == StartsFree /\ ShedKeepsMarkers /\ ReadsAsked /\ Rescued

(* An off comes to stand only by the last look at the intent. *)
LEMMA IntoStands ==
    ASSUME PlanInv, [Next]_vars, Stands'
    PROVE  Stands \/ (Recheck /\ pc' = "poweroff")
<1>1. CASE askedOff'
  BY <1>1, RememberedStep DEF Stands, PowerOff
<1>2. CASE pc' = "poweroff"
  <2>1. CASE Loop
    BY <1>2, <2>1, IntoPowerOff DEF ObserveFails, tick, Stands
  <2>2. CASE World
    BY <1>2, <2>2, OthersStep DEF Crash, EndTick, Tick, tick, Stands
  <2>3. CASE UNCHANGED vars
    BY <1>2, <2>3 DEF vars, tick, Stands
  <2> QED
    BY <2>1, <2>2, <2>3 DEF Next
<1> QED
  BY <1>1, <1>2 DEF Stands

(* Every step keeps the first two. *)
LEMMA ShedKeepsStep ==
    ASSUME TypeOK, PlanInv, StartsFree, ShedKeepsMarkers, [Next]_vars
    PROVE  StartsFree' /\ ShedKeepsMarkers'
<1>1. /\ done \in [Asked -> Ages] /\ plan \in Plans /\ Ages \subseteq Int
      /\ wake \in [Asked -> Ages]
  BY DurationsAssumption DEF TypeOK, Ages
<1>2. ASSUME InTick, InTick', UNCHANGED <<done, plan>> PROVE StartsFree' /\ ShedKeepsMarkers'
  <2>1. plan.start # {} => ~PowerOff
    BY <1>2 DEF PowerOff, PlanInv, PlanFits, Asks
  <2>2. plan.start # {} => ~askedOff'
    BY <1>2, <2>1, RememberedStep DEF StartsFree
  <2> QED
    BY <1>2, <2>2 DEF StartsFree, ShedKeepsMarkers
<1>3. ASSUME ReadUp \/ ReadDown PROVE StartsFree' /\ ShedKeepsMarkers'
  <2>1. PICK up \in BOOLEAN : Decided(up)
    BY <1>3 DEF ReadUp, ReadDown
  <2>1a. done' = done
    BY <1>3 DEF ReadUp, ReadDown, persisted
  <2>1b. askedOff' => askedOff
    BY <1>3, RememberedStep DEF ReadUp, ReadDown, PowerOff
  <2>2. PICK r \in Readings : plan' = Decide(Observed(r, up))
    BY <2>1 DEF Decided
  <2> DEFINE o == Observed(r, up)
  <2>3. plan' = Decide(o) /\ o \in Snapshots
    BY <2>2, ObservedType
  <2>4. /\ o.inFlight = askedOff /\ o.done = done /\ o.wake = snap.wake
        /\ o.running \subseteq running
    BY DEF Observed
  <2> HIDE DEF o
  <2>5. plan'.start # {} => ~askedOff
    BY <2>3, <2>4, StartShape
  <2>6. ASSUME plan'.poweroff, NEW v \in Asked PROVE done[v] <= plan'.done[v]
    <3>1. ~gamingActive(o) /\ o.up
      BY <2>3, <2>6, PowerOffCause
    <3>2. plan'.done[v] = WakeDone(o)[v]
      BY <2>3, PlanMarkers
    <3>3. Live(o.wake[v]) => v \notin o.running
      BY <2>4, <3>1 DEF gamingActive, PlanInv, ReadsGuard
    <3>4. plan'.done[v] \in {done[v], Never}
      BY <2>4, <3>2, <3>3 DEF WakeDone
    <3> QED
      BY <1>1, <3>4, DurationsAssumption DEF Ages, Never
  <2> QED
    BY <2>1a, <2>1b, <2>5, <2>6 DEF StartsFree, ShedKeepsMarkers
<1>4. ASSUME ~InTick' PROVE StartsFree' /\ ShedKeepsMarkers'
  BY <1>4 DEF StartsFree, ShedKeepsMarkers
<1>5. CASE Loop
  <2>1. CASE Save
    BY <1>4, <2>1 DEF Save, EndTick, InTick
  <2>2. CASE ~Save /\ ~ReadUp /\ ~ReadDown /\ InTick'
    <3>1. done' = done /\ plan' = plan /\ InTick
      BY <1>5, <2>2, LoopSteps
    <3> QED
      BY <1>2, <2>2, <3>1
  <2> QED
    BY <1>3, <1>4, <2>1, <2>2
<1>6. CASE Tick
  <2>1. \A v \in Asked : done'[v] = Older(done[v]) /\ plan'.done[v] = Older(plan.done[v])
    BY <1>1, <1>6 DEF Tick, OlderAges, Plans
  <2>2. \A v \in Asked : done[v] <= plan.done[v] => done'[v] <= plan'.done[v]
    <3>1. \A a, b \in Ages : a <= b => Older(a) <= Older(b)
      BY OlderOrder
    <3>2. \A v \in Asked : done[v] \in Ages /\ plan.done[v] \in Ages
      BY <1>1 DEF Plans
    <3> QED
      BY <2>1, <3>1, <3>2
  <2>3. /\ pc' = pc /\ askedOff' = askedOff
        /\ plan'.start = plan.start /\ plan'.poweroff = plan.poweroff
    BY <1>1, <1>6 DEF Tick, Plans
  <2> QED
    BY <2>2, <2>3 DEF StartsFree, ShedKeepsMarkers, InTick
<1>7. CASE Crash
  BY <1>4, <1>7 DEF Crash, EndTick, InTick
<1>8. CASE UNCHANGED <<persisted, memory, tick>>
  BY <1>2, <1>4, <1>8 DEF persisted, memory, tick, InTick
<1> QED
  BY <1>5, <1>6, <1>7, <1>8, OthersStep DEF Next, vars

(* While an off stands, everybody who asks is late. *)
LEMMA LateGrows ==
    ASSUME Record, Stands', ~(pc = "recheck" /\ pc' = "poweroff")
    PROVE  late' = late \cup Pressed
BY DEF Record, Stands

(* A step that neither is the last look nor lets time pass leaves v's       *)
(* request and its tries alone, or v has just asked, or is asked for no     *)
(* more.                                                                    *)
LEMMA AskedAnew ==
    ASSUME TypeOK, StartsFree, PlanInv, [Next]_vars, ~Tick, Stands', Stands, NEW v \in Asked
    PROVE  \/ wake'[v] = wake[v] /\ retired(v)' = retired(v)
           \/ v \in Pressed
           \/ ~Live(wake'[v])
<1>1. ~Live(Never)
  BY DurationsAssumption DEF Live, Never
<1>2. CASE Loop
  <2>1. ~StartRequested
    <3>1. ASSUME StartRequested PROVE FALSE
      <4>1. pc = "start" /\ plan.start # {}
        BY <3>1 DEF StartRequested, PlanInv, Asks
      <4>2. ~askedOff
        BY <4>1 DEF StartsFree, InTick
      <4> QED
        BY <4>1, <4>2 DEF Stands
    <3> QED
      BY <3>1
  <2> QED
    BY <1>2, <2>1, LoopSteps, LoopKeepsWake DEF retired
<1>3. CASE World
  <2>1. ~Crash
    BY DEF Crash, EndTick, Stands
  <2>2. fails' = fails
    BY <1>3, <2>1, OthersStep DEF memory
  <2> QED
    BY <1>1, <1>3, <2>2, OthersWake DEF Pressed, retired
<1>4. CASE UNCHANGED vars
  BY <1>4 DEF vars, memory, retired
<1> QED
  BY <1>2, <1>3, <1>4 DEF Next

(* Every step keeps ReadsAsked. *)
LEMMA ReadsAskedStep ==
    ASSUME HistoryTypeOK, PlanInv, RescueInv, Next, Record
    PROVE  ReadsAsked'
<1> SUFFICES ASSUME askedOff', pc' = "observe", NEW v \in GamingGuard \cap Asked,
                    ~retired(v)', Live(wake'[v])
             PROVE  v \in late' \/ snap'.wake[v] = wake'[v]
  BY DEF ReadsAsked
<1>1. CASE ReadIntent
  <2>1. snap'.wake = requestedWake /\ wake' = wake /\ fails' = fails
    BY <1>1 DEF ReadIntent, NoSnap, memory
  <2>2. ~retired(v)
    BY <2>1 DEF retired
  <2> QED
    BY <2>1, <2>2 DEF requestedWake
<1>2. CASE World
  <2>1. ~Crash
    BY DEF Crash
  <2>2. pc = "observe" /\ askedOff /\ Stands /\ Stands'
    BY <1>2, <2>1, OthersStep DEF memory, tick, Tick, Stands
  <2>3. late' = late \cup Pressed
    BY <2>2, LateGrows
  <2>4. CASE Tick
    <3>1. wake'[v] = Older(wake[v]) /\ snap'.wake[v] = Older(snap.wake[v]) /\ wake[v] \in Ages
      BY <2>4 DEF Tick, OlderAges, HistoryTypeOK, TypeOK
    <3>2. ~retired(v) /\ Live(wake[v])
      BY <2>4, <3>1, RetiredStays, OlderOrder DEF HistoryTypeOK
    <3> QED
      BY <2>2, <2>3, <3>1, <3>2 DEF RescueInv, ReadsAsked
  <2>5. CASE ~Tick
    <3>1. snap' = snap
      BY <1>2, <2>1, <2>5, OthersStep DEF tick
    <3>2. CASE wake'[v] = wake[v] /\ retired(v)' = retired(v)
      BY <2>2, <2>3, <3>1, <3>2 DEF RescueInv, ReadsAsked
    <3> QED
      BY <2>2, <2>3, <2>5, <3>2, AskedAnew DEF RescueInv, HistoryTypeOK
  <2> QED
    BY <2>4, <2>5
<1> QED
  BY <1>1, <1>2, LoopSteps DEF Next

(* A decision leaves no request to serve that state.json does not. *)
LEMMA DecidedHeeds ==
    ASSUME HistoryTypeOK, RescueInv, ReadUp, askedOff, NEW v \in Asked, Heeded(v, done[v])
    PROVE  v \in GamingGuard /\ ~retired(v) /\ Live(wake[v]) /\ wake[v] < plan'.done[v] => v \in late
<1> SUFFICES ASSUME v \in GamingGuard, ~retired(v), Live(wake[v]), wake[v] < plan'.done[v], v \notin late
             PROVE  FALSE
  OBVIOUS
<1>1. PICK r \in Readings : plan' = Decide(Observed(r, TRUE))
  BY DEF ReadUp, Decided
<1> DEFINE o == Observed(r, TRUE)
<1>2. plan' = Decide(o) /\ o \in Snapshots
  BY <1>1, ObservedType DEF HistoryTypeOK
<1>3. o.wake = snap.wake /\ o.done = done
  BY DEF Observed
<1> HIDE DEF o
<1>4. snap.wake[v] = wake[v]
  BY DEF ReadUp, RescueInv, ReadsAsked
<1>5. plan'.done[v] = WakeDone(o)[v]
  BY <1>2, PlanMarkers
<1>6. wake[v] \in Int /\ done[v] \in Int
  BY DurationsAssumption DEF HistoryTypeOK, TypeOK, Ages
<1>7. ~Spent(o, v)
  BY <1>3, <1>4, <1>5, <1>6 DEF WakeDone, Heeded
<1> QED
  BY <1>3, <1>4, <1>6, <1>7 DEF Spent, Heeded

(* Every step keeps Rescued. *)
LEMMA RescuedStep ==
    ASSUME "intent" \notin Faults, HistoryTypeOK, PlanInv, RescueInv, Next, Record
    PROVE  Rescued'
<1> SUFFICES ASSUME Stands', NEW v \in Asked, v \in GamingGuard, ~retired(v)', Live(wake'[v])
             PROVE  /\ wake'[v] < done'[v] => v \in late'
                    /\ InTick' /\ wake'[v] < plan'.done[v] => v \in late'
  BY DEF Rescued, Heeded
<1>1. /\ wake[v] \in Ages /\ done[v] \in Ages /\ plan \in Plans /\ plan.done[v] \in Ages /\ Ages \subseteq Int
  BY DurationsAssumption DEF HistoryTypeOK, TypeOK, Plans, Ages
<1>2. CASE Recheck /\ pc' = "poweroff"
  <2>1. ~wakeRequestedNow /\ UNCHANGED <<wake, fails, done>> /\ plan' = plan /\ InTick
    BY <1>2 DEF Recheck, Continue, memory, persisted, InTick
  <2>2. ~retired(v)
    BY <2>1 DEF retired
  <2>3. ~(wake[v] < plan.done[v])
    BY <2>1, <2>2 DEF wakeRequestedNow, requestedWake
  <2>4. done[v] <= plan.done[v]
    BY <1>2, <2>1 DEF RescueInv, ShedKeepsMarkers, Recheck, PlanInv, Asks
  <2>5. wake'[v] = wake[v] /\ done'[v] = done[v] /\ plan'.done[v] = plan.done[v]
    BY <2>1
  <2>6. ~(wake[v] < done[v])
    <3>1. \A a, b, c \in Int : ~(a < c) /\ b <= c => ~(a < b)
      OBVIOUS
    <3>2. wake[v] \in Int /\ done[v] \in Int /\ plan.done[v] \in Int
      BY <1>1
    <3> QED
      BY <2>3, <2>4, <3>1, <3>2
  <2> QED
    BY <2>3, <2>5, <2>6
<1>3. CASE ~(Recheck /\ pc' = "poweroff")
  <2>1. Stands
    BY <1>3, IntoStands
  <2>2. Heeded(v, done[v]) /\ (InTick => Heeded(v, plan.done[v]))
    BY <2>1 DEF RescueInv, Rescued
  <2>3. ~(pc = "recheck" /\ pc' = "poweroff")
    <3>1. ASSUME pc = "recheck", pc' = "poweroff" PROVE Recheck
      <4>1. CASE Loop
        BY <3>1, <4>1, IntoPowerOff DEF ObserveFails
      <4>2. CASE World
        BY <3>1, <4>2, OthersStep DEF Crash, EndTick, Tick, tick
      <4> QED
        BY <4>1, <4>2 DEF Next
    <3> QED
      BY <1>3, <3>1
  <2>4. late' = late \cup Pressed
    BY <2>3, LateGrows
  <2>5. CASE Tick
    <3>1. /\ wake'[v] = Older(wake[v]) /\ done'[v] = Older(done[v])
          /\ plan'.done[v] = Older(plan.done[v]) /\ (InTick' => InTick)
      BY <1>1, <2>5 DEF Tick, OlderAges, HistoryTypeOK, TypeOK, Plans, InTick
    <3>2. ~retired(v) /\ Live(wake[v])
      BY <1>1, <2>5, <3>1, RetiredStays, OlderOrder DEF HistoryTypeOK
    <3>3. /\ wake'[v] < done'[v] => wake[v] < done[v]
          /\ wake'[v] < plan'.done[v] => wake[v] < plan.done[v]
      <4>1. \A a, b \in Ages : Older(a) < Older(b) => a < b
        BY OlderOrder
      <4> QED
        BY <1>1, <3>1, <4>1
    <3> QED
      BY <2>2, <2>4, <3>1, <3>2, <3>3 DEF Heeded
  <2>6. CASE ~Tick /\ wake'[v] = wake[v] /\ retired(v)' = retired(v)
    <3>1. wake[v] < done[v] => v \in late'
      BY <2>2, <2>4, <2>6 DEF Heeded
    <3>2. InTick /\ wake[v] < plan.done[v] => v \in late'
      BY <2>2, <2>4, <2>6 DEF Heeded
    <3>3. CASE Loop
      <4>1. wake'[v] < done'[v] => v \in late'
        BY <2>6, <3>1, <3>2, <3>3, LoopSteps DEF Save, InTick
      <4>2. CASE ReadUp
        <5>1. askedOff
          BY <2>1, <4>2 DEF ReadUp, Stands
        <5> QED
          BY <2>2, <2>4, <2>6, <4>1, <4>2, <5>1, DecidedHeeds
      <4>3. ~ReadDown
        BY DEF ReadDown, Decided, Stands
      <4> QED
        BY <2>6, <3>2, <3>3, <4>1, <4>2, <4>3, LoopSteps
    <3>4. CASE World
      <4>1. ~Crash
        BY DEF Crash, EndTick, Stands
      <4> QED
        BY <2>6, <3>1, <3>2, <3>4, <4>1, OthersStep DEF persisted, tick, InTick
    <3> QED
      BY <3>3, <3>4 DEF Next
  <2> QED
    BY <2>1, <2>4, <2>5, <2>6, AskedAnew DEF RescueInv, HistoryTypeOK
<1> QED
  BY <1>2, <1>3

(* Until the power-off is sent, a shed is only a plan: a user who asks      *)
(* before the last look of the tick that orders it is not shut out by it,   *)
(* in that tick or in any later one that says the off again, for any number *)
(* of users and VMs, however long the stop before it took and whatever      *)
(* request was lost; only an intent store that cannot be read at that       *)
(* moment makes the loop go on without looking.  Who asks later is late,    *)
(* also when the off has not arrived yet.                                   *)
THEOREM RescueInTime ==
    ASSUME "intent" \notin Faults
    PROVE  HistorySpec => RescueWindow
<1>1. HistoryInit => RescueInv
  BY DEF HistoryInit, Init, RescueInv, StartsFree, ShedKeepsMarkers, ReadsAsked, Rescued, Stands, InTick
<1>2. HistoryTypeOK /\ PlanInv /\ RescueInv /\ [Next /\ Record]_<<vars, history>> => RescueInv'
  <2> SUFFICES ASSUME HistoryTypeOK, PlanInv, RescueInv, [Next /\ Record]_<<vars, history>>
               PROVE  RescueInv'
    OBVIOUS
  <2>1. CASE Next /\ Record
    BY <2>1, ShedKeepsStep, ReadsAskedStep, RescuedStep DEF RescueInv, HistoryTypeOK
  <2>2. CASE UNCHANGED <<vars, history>>
    BY <2>2 DEF vars, persisted, memory, tick, history, RescueInv, StartsFree, ShedKeepsMarkers,
                ReadsAsked, Rescued, Heeded, Stands, retired, InTick
  <2> QED
    BY <2>1, <2>2
<1>3. HistoryTypeOK /\ PlanInv /\ RescueInv /\ [Next]_vars =>
        [OffSaid => \A v \in Asked : Outstanding(v) => v \in late]_<<vars, history>>
  <2> SUFFICES ASSUME HistoryTypeOK, PlanInv, RescueInv, [Next]_vars, OffSaid,
                      NEW v \in Asked, Outstanding(v)
               PROVE  v \in late
    OBVIOUS
  <2>1. Stands
    BY OffIsSaid DEF OffSaid, OffOrdered, PowerOff, ShutdownNode, Stands, HistoryTypeOK
  <2> QED
    BY <2>1 DEF RescueInv, Rescued, Heeded, Outstanding, Marker, InTick
<1> QED
  BY <1>1, <1>2, <1>3, HistoryTypeCorrect, HistoryRefinesSpec, PlanAlwaysFits, PTL DEF HistorySpec, Spec, RescueWindow

-----------------------------------------------------------------------------
(* Only the two steps that decide read the cluster. *)
LEMMA NoOtherRead == ASSUME Next, ~ReadUp, ~ReadDown PROVE ~ReadsCluster
<1>1. ASSUME Loop, pc = "observe" PROVE ReadUnconfirmed
  BY <1>1 DEF Loop, ObserveFails, ReadIntent, Apply, ApplyFails,
              Migrated, MigrateFails, StopAll, StopFinished, StopInterrupted, StopFails,
              Wake, WakeFails, Awake, WakeTimesOut, StartRequested, StartUnlisted,
              RestoreStopped, RestoreFails, Recheck, PowerOff, ShutdownNode, Save
<1>2. CASE Loop
  BY <1>1, <1>2 DEF ReadsCluster, ReadUnconfirmed, EndTick
<1>3. CASE World
  BY <1>3, OthersStep DEF ReadsCluster, Crash, EndTick, Tick, tick
<1> QED
  BY <1>2, <1>3 DEF Next

(* The grace clock runs over no session a tick has seen. *)
Past(m, g, seen) == m = "gaming" /\ g # Stopped => seen >= g

(* A session seen longer ago leaves the clock behind all the more. *)
LEMMA PastGrows ==
    ASSUME NEW m, NEW g \in Clocks, NEW seen \in Nat, NEW later \in Nat,
           later >= seen, Past(m, g, seen)
    PROVE  Past(m, g, later)
BY DurationsAssumption DEF Past, Clocks, Ages, Stopped

(* The inductive strengthening of GraceHonoured: the clock in state.json,   *)
(* and the one a plan is about to put there, are no older than the last     *)
(* sight of a gaming guest; a tick that has just seen one means to reset    *)
(* the clock that state.json still has.                                     *)
GraceInv ==
    /\ ~InTick \/ plan.poweroff \/ ~snap.up => Past(mode, grace, lastSeen)
    /\ InTick => Past(plan.next, plan.grace, lastSeen)
    /\ InTick /\ plan.poweroff /\ mode = "gaming" => lastSeen >= GamingGrace

(* A decision hands on a clock that is not ahead of the last sight. *)
LEMMA DecidedClock ==
    ASSUME HistoryTypeOK, GraceInv, pc = "observe", NEW up \in BOOLEAN, Decided(up), Record,
           UNCHANGED <<persisted, running>>
    PROVE  GraceInv'
<1> USE DEF persisted
<1>1. PICK r \in Readings : plan' = Decide(Observed(r, up))
  BY DEF Decided
<1> DEFINE o == Observed(r, up)
<1>2. plan' = Decide(o) /\ o \in Snapshots
  BY <1>1, ObservedType DEF HistoryTypeOK
<1>3. o.up = up /\ o.mode = mode /\ o.grace = grace /\ o.running = IF up THEN running ELSE {}
  BY DEF Observed
<1>4. snap'.up = up /\ pc' = "apply" /\ ~InTick /\ InTick'
  BY DEF Decided, HistoryTypeOK, TypeOK, InTick
<1>5. mode' = mode /\ grace' = grace /\ Past(mode, grace, lastSeen)
  BY <1>4 DEF GraceInv
<1>6. gamingActive(o) <=> up /\ running \cap GamingGuard # {}
  BY <1>3 DEF gamingActive
<1> HIDE DEF o
<1>7. /\ plan'.next = "gaming" /\ plan'.grace # Stopped =>
            /\ ~gamingActive(o)
            /\ plan'.grace = 0 \/ (mode = "gaming" /\ plan'.grace = grace)
      /\ plan'.poweroff /\ mode = "gaming" => grace # Stopped /\ grace >= GamingGrace
  BY <1>2, <1>3, ClockShape
<1>8. plan'.poweroff => ~gamingActive(o)
  BY <1>2, PowerOffCause
<1>9. lastSeen \in Nat /\ grace \in Clocks /\ Clocks \subseteq Int /\ GamingGrace \in Nat
  BY DurationsAssumption DEF HistoryTypeOK, TypeOK, Clocks, Ages, Stopped
<1>10. CASE gamingActive(o)
  BY <1>4, <1>5, <1>6, <1>7, <1>8, <1>10 DEF GraceInv, Past
<1>11. CASE ~gamingActive(o)
  <2>1. ~(ReadsCluster /\ running \cap GamingGuard # {}) /\ ~Tick
    BY <1>4, <1>6, <1>11 DEF ReadsCluster, Tick, InTick
  <2>2. lastSeen' = lastSeen
    BY <2>1 DEF Record
  <2> QED
    BY <1>4, <1>5, <1>7, <1>9, <2>2 DEF GraceInv, Past
<1> QED
  BY <1>10, <1>11

(* Every step keeps the clock honest, in the gaming evening of an instance  *)
(* without sun whose ticks end with a save.                                 *)
LEMMA GraceStep ==
    ASSUME NoSun, "silence" \notin Faults, "save" \notin Faults, "crash" \notin Env,
           HistoryTypeOK, PlanInv, NightInv, GraceInv, [Next /\ Record]_<<vars, history>>
    PROVE  GraceInv'
<1> USE DEF persisted, tick
<1>1. /\ lastSeen \in Ages /\ Ages \subseteq Nat /\ grace \in Clocks /\ plan.grace \in Clocks
      /\ Clocks \subseteq Int /\ GamingGrace \in Nat /\ plan \in Plans
  BY DurationsAssumption DEF HistoryTypeOK, TypeOK, Plans, Clocks, Ages, Stopped
<1>2. CASE UNCHANGED <<vars, history>>
  BY <1>2 DEF vars, history, GraceInv, InTick
<1> SUFFICES ASSUME Next, Record PROVE GraceInv'
  BY <1>2
<1>3. CASE ReadUp
  BY <1>3, DecidedClock DEF ReadUp, p1
<1>4. CASE ReadDown
  BY <1>4, DecidedClock DEF ReadDown, p1
<1> SUFFICES ASSUME ~ReadUp, ~ReadDown PROVE GraceInv'
  BY <1>3, <1>4
<1>6. ~ReadsCluster
  BY NoOtherRead
<1>7. lastSeen' >= lastSeen /\ lastSeen' \in Nat
  <2>1. lastSeen' = lastSeen \/ lastSeen' = Older(lastSeen)
    BY <1>6 DEF Record
  <2>2. Older(lastSeen) >= lastSeen /\ Older(lastSeen) \in Nat
    BY <1>1, OlderType DEF Older
  <2> QED
    BY <1>1, <2>1, <2>2
<1>8. CASE Tick
  <2>1. lastSeen' = Older(lastSeen)
    BY <1>6, <1>8 DEF Record, Tick
  <2>2. /\ pc' = pc /\ mode' = mode /\ snap'.up = snap.up
        /\ plan'.poweroff = plan.poweroff /\ plan'.next = plan.next
        /\ grace' = OlderClock(grace) /\ plan'.grace = OlderClock(plan.grace)
    BY <1>1, <1>8 DEF Tick, HistoryTypeOK, TypeOK, Plans
  <2>3. ASSUME NEW m, NEW g \in Clocks, Past(m, g, lastSeen)
        PROVE  Past(m, OlderClock(g), Older(lastSeen))
    <3>1. CASE g = Stopped
      BY <3>1 DEF OlderClock, Past
    <3>2. CASE g # Stopped
      <4>1. g \in Ages /\ OlderClock(g) = Older(g)
        BY <3>2 DEF Clocks, OlderClock
      <4>2. g <= lastSeen => Older(g) <= Older(lastSeen)
        BY <1>1, <4>1, OlderOrder
      <4>3. Older(g) \in Nat /\ Older(lastSeen) \in Nat /\ g \in Nat /\ lastSeen \in Nat
        BY <1>1, <4>1, OlderType
      <4> QED
        BY <2>3, <3>2, <4>1, <4>2, <4>3 DEF Past
    <3> QED
      BY <3>1, <3>2
  <2>4. /\ Past(mode, grace, lastSeen) => Past(mode', grace', lastSeen')
        /\ Past(plan.next, plan.grace, lastSeen) => Past(plan'.next, plan'.grace, lastSeen')
    BY <1>1, <2>1, <2>2, <2>3
  <2>5. lastSeen >= GamingGrace => lastSeen' >= GamingGrace
    BY <1>1, <1>7
  <2> QED
    BY <2>2, <2>4, <2>5 DEF GraceInv, InTick
<1>9. /\ Past(mode, grace, lastSeen) => Past(mode, grace, lastSeen')
      /\ Past(plan.next, plan.grace, lastSeen) => Past(plan.next, plan.grace, lastSeen')
      /\ lastSeen >= GamingGrace => lastSeen' >= GamingGrace
  <2>1. lastSeen \in Nat /\ (lastSeen >= GamingGrace => lastSeen' >= GamingGrace)
    BY <1>1, <1>7
  <2> QED
    BY <1>1, <1>7, <2>1, PastGrows
<1>10. ASSUME EndTick, UNCHANGED <<mode, grace>>,
              ~InTick \/ plan.poweroff \/ ~snap.up \/ Past(mode, grace, lastSeen)
       PROVE  GraceInv'
  BY <1>9, <1>10 DEF EndTick, GraceInv, InTick
<1>11. ASSUME InTick, NEW step, Continue(step), step \notin {"idle", "observe"}, UNCHANGED <<mode, grace>>
       PROVE  GraceInv'
  BY <1>9, <1>11 DEF Continue, GraceInv, InTick
<1>12. ASSUME UNCHANGED <<mode, grace, pc, plan>>, snap'.up = snap.up PROVE GraceInv'
  BY <1>9, <1>12 DEF GraceInv, InTick
<1>13. CASE ObserveFails
  BY <1>12, <1>13 DEF ObserveFails
<1>14. CASE ReadIntent
  BY <1>9, <1>14 DEF ReadIntent, GraceInv, InTick
<1>15. CASE ReadUnconfirmed
  BY <1>10, <1>15 DEF ReadUnconfirmed, InTick
<1>16. CASE Apply
  <2>1. pc = "apply" /\ UNCHANGED <<mode, grace>>
    BY <1>16 DEF Apply
  <2>2. CASE isNoop /\ EndTick
    BY <1>10, <2>1, <2>2 DEF isNoop, GraceInv, InTick
  <2>3. CASE Continue(IF Full THEN FirstStep(plan) ELSE "save")
    BY <1>11, <2>1, <2>3, StepsGoOn DEF InTick
  <2> QED
    BY <1>16, <2>2, <2>3 DEF Apply
<1>17. CASE ApplyFails
  BY <1>17 DEF ApplyFails
<1>18. CASE Migrated \/ StopAll \/ StopFinished \/ StopInterrupted \/ Wake \/ Awake \/ StartUnlisted
  <2>1. /\ pc \in {"migrate", "stop", "stopping", "wake", "waking", "start"}
        /\ UNCHANGED <<mode, grace>>
        /\ \E step \in {AfterMigrate(plan), "stopping", AfterStop(plan), "save", "waking",
                       AfterWake(plan), AfterStart(plan)} : Continue(step)
    BY <1>18 DEF Migrated, StopAll, StopFinished, StopInterrupted, Wake, Awake, StartUnlisted
  <2> QED
    BY <1>11, <2>1, StepsGoOn DEF InTick
<1>19. CASE MigrateFails \/ StopFails
  <2>1. EndTick /\ UNCHANGED <<mode, grace>> /\ mode = "running"
    BY <1>19 DEF MigrateFails, StopFails, PlanInv, Asks, PlanFits, InTick
  <2> QED
    BY <1>10, <2>1 DEF Past
<1>20. CASE WakeFails \/ WakeTimesOut
  <2>1. EndTick /\ UNCHANGED <<mode, grace>> /\ mode = "shed"
    BY <1>20 DEF WakeFails, WakeTimesOut, PlanInv, Asks, PlanFits, InTick
  <2> QED
    BY <1>10, <2>1 DEF Past
<1>21. CASE StartRequested
  <2>1. pc = "start" /\ UNCHANGED <<mode, grace>> /\ Continue(AfterStart(plan))
    BY <1>21 DEF StartRequested
  <2> QED
    BY <1>11, <2>1, StepsGoOn DEF InTick
<1>22. CASE RestoreStopped \/ RestoreFails
  BY <1>22 DEF RestoreStopped, RestoreFails, PlanInv, Asks, NightInv, InTick
<1>23. CASE Recheck
  BY <1>11, <1>23 DEF Recheck, InTick
<1>24. CASE PowerOff \/ ShutdownNode
  <2>1. /\ pc = "poweroff" /\ UNCHANGED <<mode, grace>> /\ plan.poweroff
        /\ EndTick \/ Continue("save")
    BY <1>24 DEF PowerOff, ShutdownNode, PlanInv, Asks
  <2> QED
    BY <1>10, <1>11, <2>1 DEF InTick
<1>25. CASE Save
  <2>1. EndTick /\ mode' = plan.next /\ grace' = plan.grace /\ Past(plan.next, plan.grace, lastSeen)
    BY <1>25 DEF Save, GraceInv, InTick
  <2> QED
    BY <1>9, <2>1 DEF EndTick, GraceInv, InTick
<1>26. CASE World
  BY <1>8, <1>12, <1>26, OthersStep DEF Crash
<1> QED
  BY <1>13, <1>14, <1>15, <1>16, <1>17, <1>18, <1>19, <1>20, <1>21, <1>22, <1>23, <1>24, <1>25, <1>26
     DEF Next, Loop

-----------------------------------------------------------------------------
(* A p1 that nothing else takes down is up while the mode is running: from  *)
(* the mode running no off is remembered or wished for until a shed is      *)
(* ordered, so a tick that read p1 up finds it up when it moves and stops   *)
(* the guests.                                                              *)
RunningIsUp ==
    /\ mode = "running" /\ ~(pc = "save" /\ plan.poweroff) =>
          ~askedOff /\ req # "off" /\ host # "goingDown"
    /\ mode = "running" /\ InTick /\ snap.up /\ pc # "save" => host = "up"

(* Every step keeps it, where a tick's wishes and saves arrive.             *)
LEMMA RunningIsUpStep ==
    ASSUME "request" \notin Faults, "save" \notin Faults,
           "hostLoss" \notin Env, "crash" \notin Env,
           TypeOK, PlanInv, NightInv, RunningIsUp, [Next]_vars
    PROVE  RunningIsUp'
<1> USE DEF persisted, memory, p1
<1>1. plan \in Plans
  BY DEF TypeOK
<1>2. ASSUME UNCHANGED <<mode, host, askedOff>>,
             req' \in {req, IF askedOff THEN "off" ELSE "hold", powerWish},
             pc # "save" \/ mode # "running",
             EndTick \/ (InTick /\ UNCHANGED <<snap, plan>>)
      PROVE  RunningIsUp'
  BY <1>2 DEF RunningIsUp, EndTick, InTick, powerWish
<1>3. CASE ObserveFails
  BY <1>3 DEF ObserveFails, HoldPower, Wish, RunningIsUp, InTick, tick
<1>4. CASE ReadIntent
  BY <1>4 DEF ReadIntent, RunningIsUp, InTick
<1>5. CASE ReadUp
  <2>1. /\ pc = "observe" /\ pc' = "apply" /\ host \in {"up", "goingDown"}
        /\ UNCHANGED <<mode, host, askedOff, req>>
    BY <1>5 DEF ReadUp, ReadsOnline, Decided, Online
  <2> QED
    BY <2>1 DEF RunningIsUp
<1>6. CASE ReadDown
  <2>1. /\ pc = "observe" /\ pc' = "apply" /\ ~snap'.up /\ ~askedOff'
        /\ UNCHANGED <<mode, host, req>>
    BY <1>6 DEF ReadDown, Decided, TypeOK
  <2> QED
    BY <2>1 DEF RunningIsUp
<1>7. CASE ReadUnconfirmed
  BY <1>2, <1>7 DEF ReadUnconfirmed, HoldPower, Wish
<1>8. CASE Apply \/ ApplyFails
  <2>1. /\ pc = "apply" /\ UNCHANGED <<mode, host, askedOff>> /\ req' \in {req, powerWish}
        /\ EndTick \/ (UNCHANGED <<snap, plan>>)
    BY <1>8 DEF Apply, ApplyFails, Restate, Wish, Continue
  <2> QED
    BY <1>2, <2>1 DEF InTick
<1>9. CASE Migrated \/ MigrateFails \/ StopAll \/ StopFinished \/ StopInterrupted \/ StopFails
  <2>1. /\ pc \in {"migrate", "stop", "stopping"} /\ UNCHANGED <<mode, host, askedOff, req>>
        /\ EndTick \/ (UNCHANGED <<snap, plan>>)
    BY <1>9 DEF Migrated, MigrateFails, StopAll, StopFinished, StopInterrupted, StopFails, Continue
  <2> QED
    BY <1>2, <2>1 DEF InTick
<1>10. CASE Wake \/ WakeFails
  <2>1. mode = "shed" /\ mode' = mode
    BY <1>10 DEF Wake, WakeFails, PlanInv, Asks, PlanFits, InTick
  <2> QED
    BY <2>1 DEF RunningIsUp
<1>11. CASE Awake \/ WakeTimesOut \/ StartUnlisted \/ RestoreFails
  <2>1. /\ pc \in {"waking", "start", "restore"} /\ UNCHANGED <<mode, host, askedOff, req>>
        /\ EndTick \/ (UNCHANGED <<snap, plan>>)
    BY <1>11 DEF Awake, WakeTimesOut, StartUnlisted, RestoreFails, Continue
  <2> QED
    BY <1>2, <2>1 DEF InTick
<1>12. CASE StartRequested \/ RestoreStopped
  <2>1. /\ pc \in {"start", "restore"} /\ UNCHANGED <<mode, host, askedOff, req>>
        /\ UNCHANGED <<snap, plan>>
    BY <1>12 DEF StartRequested, RestoreStopped, Continue
  <2> QED
    BY <1>2, <2>1 DEF InTick
<1>13. CASE Recheck
  BY <1>2, <1>13 DEF Recheck, InTick, Continue
<1>14. CASE PowerOff
  <2>1. plan.poweroff /\ pc' = "save" /\ plan' = plan
    BY <1>14 DEF PowerOff, PlanInv, Asks, Continue
  <2> QED
    BY <2>1 DEF RunningIsUp
<1>15. CASE ShutdownNode
  <2>1. plan.poweroff /\ pc = "poweroff"
    BY <1>15 DEF ShutdownNode, PlanInv, Asks
  <2>2. CASE pc' = "save" /\ plan' = plan
    BY <2>1, <2>2 DEF RunningIsUp
  <2>3. CASE EndTick /\ host' = host
    BY <1>2, <1>15, <2>1, <2>3 DEF ShutdownNode
  <2> QED
    BY <1>15, <2>2, <2>3 DEF ShutdownNode, Continue
<1>16. CASE Save
  <2>1. /\ pc = "save" /\ pc' = "idle" /\ mode' = plan.next
        /\ UNCHANGED <<host, askedOff, req>>
    BY <1>16 DEF Save, EndTick
  <2>2. plan.next = "running" => mode = "running" /\ ~plan.poweroff
    BY <2>1 DEF PlanInv, PlanFits, NightInv, InTick
  <2> QED
    BY <2>1, <2>2 DEF RunningIsUp, InTick
<1>17. ASSUME UNCHANGED <<mode, host, askedOff, req, tick>> PROVE RunningIsUp'
  BY <1>17 DEF RunningIsUp, InTick, tick
<1>18. ASSUME NEW v \in Asked, Press(v) \/ PowerAction(v) PROVE RunningIsUp'
  BY <1>17, <1>18 DEF Press, PowerAction
<1>19. ASSUME NEW g \in Guests, GuestStops(g) \/ GuestStarts(g) \/ MovedBack(g) PROVE RunningIsUp'
  BY <1>17, <1>19 DEF GuestStops, GuestStarts, MovedBack
<1>20. CASE StopTaskStep
  BY <1>17, <1>20 DEF StopTaskStep
<1>21. CASE Booted
  BY <1>21 DEF Booted, RunningIsUp, InTick, tick
<1>22. CASE ShutDown
  BY <1>22 DEF ShutDown, GoneDown, RunningIsUp, InTick, tick
<1>23. CASE HostLost \/ Crash
  BY <1>23 DEF HostLost, Crash
<1>24. CASE HandOn
  BY <1>24 DEF HandOn, RunningIsUp, InTick, tick
<1>25. CASE NutDogPoll
  BY <1>25 DEF NutDogPoll, RunningIsUp, InTick, tick
<1>26. CASE NutDogRestart \/ NutDogProbes
  BY <1>26 DEF NutDogRestart, NutDogProbes, RunningIsUp, InTick, tick
<1>27. CASE Tick
  <2>1. /\ UNCHANGED <<mode, pc, host, req, askedOff>>
        /\ plan'.poweroff = plan.poweroff /\ snap'.up = snap.up
    BY <1>1, <1>27 DEF Tick, Plans, TypeOK
  <2> QED
    BY <2>1 DEF RunningIsUp, InTick
<1>28. CASE UNCHANGED vars
  BY <1>17, <1>28 DEF vars
<1> QED
  BY <1>3, <1>4, <1>5, <1>6, <1>7, <1>8, <1>9, <1>10, <1>11, <1>12, <1>13, <1>14, <1>15, <1>16, <1>18, <1>19, <1>20, <1>21, <1>22, <1>23, <1>24, <1>25, <1>26, <1>27, <1>28
     DEF Next, Loop, World

(* From the mode running, p1 is up. *)
LEMMA RunningAlwaysUp ==
    ASSUME NoSun, "request" \notin Faults, "save" \notin Faults,
           "hostLoss" \notin Env, "crash" \notin Env
    PROVE  Spec => []RunningIsUp
<1>1. Init => RunningIsUp
  BY DEF Init, RunningIsUp, InTick
<1>2. TypeOK /\ PlanInv /\ NightInv /\ RunningIsUp /\ [Next]_vars => RunningIsUp'
  BY RunningIsUpStep
<1>3. Spec => []NightInv
  BY NightAlways
<1> QED
  BY <1>1, <1>2, <1>3, TypeCorrect, PlanAlwaysFits, PTL DEF Spec

-----------------------------------------------------------------------------
(* The request for v is served: state.json holds its marker. *)
Met(v) == Live(wake[v]) => done[v] <= wake[v]

(* The inductive strengthening of SeenStaysServed.  Between ticks a VM that *)
(* was seen up has its marker; a tick that reads the requests reads the     *)
(* marked one; and a plan keeps the marker, or is the tick that sets it,    *)
(* and does not start the VM again.                                         *)
SeenReads ==
    /\ seenUp \subseteq GamingGuard
    /\ \A v \in seenUp : Live(wake[v]) => ~retired(v)
    /\ pc = "observe" =>
          \A v \in Asked : Live(snap.wake[v]) => ~GivenUp(v, snap.wake[v])
    /\ pc = "observe" =>
          \A v \in seenUp : /\ Live(wake[v]) => snap.wake[v] = wake[v]
                            /\ Live(snap.wake[v]) => done[v] <= snap.wake[v]
SeenMarks ==
    /\ ~InTick \/ plan.poweroff \/ ~snap.up => \A v \in seenUp : Met(v)
    /\ InTick => \A v \in seenUp : Live(wake[v]) => plan.done[v] <= wake[v]
    /\ InTick => plan.start \cap seenUp = {}
SeenInv == SeenReads /\ SeenMarks

(* A decision keeps the markers of the VMs seen up, sets those of the VMs   *)
(* it sees up itself, and starts none of either.                            *)
LEMMA DecidedSeen ==
    ASSUME HistoryTypeOK, PlanInv, SeenInv, pc = "observe", NEW up \in BOOLEAN, Decided(up), Record,
           UNCHANGED <<persisted, wake, fails, running>>
    PROVE  SeenInv'
<1> USE DEF persisted
<1>1. PICK r \in Readings : plan' = Decide(Observed(r, up))
  BY DEF Decided
<1> DEFINE o == Observed(r, up)
           new == IF up THEN {v \in running \cap Asked : Live(wake[v]) /\ snap.wake[v] = wake[v]} ELSE {}
<1>2. plan' = Decide(o) /\ o \in Snapshots
  BY <1>1, ObservedType DEF HistoryTypeOK
<1>3. /\ o.up = up /\ o.running = (IF up THEN running ELSE {})
      /\ o.wake = snap.wake /\ o.done = done
  BY DEF Observed
<1>4. snap'.up = up /\ pc' = "apply" /\ ~InTick /\ InTick'
  BY DEF Decided, HistoryTypeOK, TypeOK, InTick
<1>5. seenUp' = seenUp \cup new
  <2>1. Pressed = {}
    BY DEF Pressed
  <2> QED
    BY <1>4, <2>1 DEF Record, ReadsCluster
<1>6. seenUp \subseteq Asked /\ new \subseteq Asked /\ running \subseteq Guests
  BY DEF HistoryTypeOK, TypeOK
<1>7. plan'.done = WakeDone(o) /\ plan'.start \subseteq Pending(o)
  BY <1>2, PlanMarkers
<1>8. ASSUME NEW v \in seenUp, Live(snap.wake[v])
      PROVE  Spent(o, v) /\ (Live(wake[v]) => snap.wake[v] = wake[v])
  <2>1. done[v] <= snap.wake[v] /\ (Live(wake[v]) => snap.wake[v] = wake[v])
    BY <1>8 DEF SeenInv, SeenReads
  <2>2. done[v] \in Int /\ snap.wake[v] \in Int
    BY <1>6, DurationsAssumption DEF HistoryTypeOK, TypeOK, Ages
  <2> QED
    BY <1>3, <2>1, <2>2 DEF Spent
<1>9. ASSUME NEW v \in new
      PROVE  v \in GamingGuard /\ ~retired(v) /\ v \in o.running /\ up
             /\ snap.wake[v] = wake[v] /\ Live(wake[v])
  BY <1>3, <1>6, <1>9 DEF SeenInv, SeenReads, PlanInv, ReadsGuard, GivenUp, retired
<1> HIDE DEF o, new
<1>10. SeenReads'
  BY <1>4, <1>5, <1>9 DEF SeenInv, SeenReads, retired
<1>11. ASSUME NEW v \in seenUp', Live(wake'[v]) PROVE plan'.done[v] <= wake'[v]
  <2>1. v \in Asked /\ wake'[v] = wake[v] /\ wake[v] \in Int /\ done[v] \in Int
    BY <1>5, <1>6, DurationsAssumption DEF HistoryTypeOK, TypeOK, Ages
  <2>2. snap.wake[v] = wake[v]
    BY <1>5, <1>9, <1>11 DEF SeenInv, SeenReads
  <2>3. plan'.done[v] = IF Spent(o, v) THEN done[v] ELSE IF v \in o.running THEN wake[v] ELSE Never
    BY <1>3, <1>7, <1>11, <2>1, <2>2 DEF WakeDone
  <2>4. Spent(o, v) \/ v \in o.running
    BY <1>5, <1>8, <1>9, <1>11, <2>1, <2>2
  <2> QED
    BY <1>3, <2>1, <2>2, <2>3, <2>4 DEF Spent
<1>12. plan'.start \cap seenUp' = {}
  BY <1>3, <1>5, <1>7, <1>8, <1>9 DEF Pending
<1>13. ASSUME plan'.poweroff \/ ~snap'.up, NEW v \in seenUp' PROVE Met(v)'
  <2>1. new = {}
    <3>1. CASE plan'.poweroff
      <4>1. ~gamingActive(o)
        BY <1>2, <3>1, PowerOffCause
      <4> QED
        BY <1>3, <1>9, <4>1 DEF gamingActive
    <3>2. CASE ~snap'.up
      BY <1>4, <1>9, <3>2
    <3> QED
      BY <1>13, <3>1, <3>2
  <2>2. v \in seenUp /\ Met(v)
    BY <1>4, <1>5, <1>13, <2>1 DEF SeenInv, SeenMarks
  <2> QED
    BY <2>2 DEF Met
<1> QED
  BY <1>4, <1>10, <1>11, <1>12, <1>13 DEF SeenInv, SeenMarks

(* A step that ends or carries on a tick, on which nobody asks. *)
LEMMA SeenOn ==
    ASSUME SeenInv, seenUp' \subseteq seenUp, UNCHANGED <<persisted, wake>>,
           \A v \in seenUp : retired(v)' = retired(v),
           \/ EndTick /\ \A v \in seenUp : Met(v)
           \/ InTick /\ InTick' /\ (UNCHANGED <<snap, plan>>)
    PROVE  SeenInv'
<1>1. pc' # "observe"
  BY DEF EndTick, InTick
<1>2. CASE EndTick /\ \A v \in seenUp : Met(v)
  BY <1>1, <1>2 DEF EndTick, SeenInv, SeenReads, SeenMarks, Met, InTick, persisted
<1>3. CASE InTick /\ InTick' /\ (UNCHANGED <<snap, plan>>)
  BY <1>1, <1>3 DEF SeenInv, SeenReads, SeenMarks, Met, persisted
<1> QED
  BY <1>2, <1>3

(* A step of others that leaves the loop's own state alone: at most the     *)
(* request of one VM is made anew, and then that VM is not seen up under    *)
(* it, or taken away.                                                       *)
LEMMA SeenAside ==
    ASSUME HistoryTypeOK, SeenInv, UNCHANGED <<persisted, memory, tick>>, seenUp' \subseteq seenUp,
           \A v \in Asked : \/ wake'[v] = wake[v]
                            \/ v \notin seenUp'
                            \/ wake'[v] = Never
    PROVE  SeenInv'
<1> USE DEF persisted, memory, tick
<1>1. ~Live(Never) /\ seenUp \subseteq Asked
  BY DurationsAssumption DEF Live, Never, HistoryTypeOK
<1>2. \A v \in seenUp' : v \in seenUp /\ (Live(wake'[v]) => wake'[v] = wake[v])
  BY <1>1
<1>3. \A v \in Asked : wake'[v] = wake[v] => retired(v)' = retired(v)
  BY DEF retired
<1>4. ASSUME pc' = "observe", NEW v \in Asked, Live(snap'.wake[v])
      PROVE  ~GivenUp(v, snap.wake[v])'
  BY <1>4 DEF SeenInv, SeenReads, GivenUp
<1>5. SeenReads'
  BY <1>1, <1>2, <1>3, <1>4 DEF SeenInv, SeenReads
<1>6. SeenMarks'
  BY <1>2 DEF SeenInv, SeenMarks, Met, InTick
<1> QED
  BY <1>5, <1>6 DEF SeenInv

(* Time ages the requests and their markers alike. *)
LEMMA SeenAges ==
    ASSUME HistoryTypeOK, SeenInv, Tick, seenUp' \subseteq seenUp
    PROVE  SeenInv'
<1>1. /\ seenUp \subseteq Asked /\ wake \in [Asked -> Ages] /\ done \in [Asked -> Ages]
      /\ snap.wake \in [Asked -> Ages] /\ plan.done \in [Asked -> Ages]
  BY DEF HistoryTypeOK, TypeOK, Plans
<1>2. \A v \in Asked : /\ wake'[v] = Older(wake[v]) /\ done'[v] = Older(done[v])
                       /\ snap'.wake[v] = Older(snap.wake[v]) /\ plan'.done[v] = Older(plan.done[v])
  BY DEF Tick, OlderAges, HistoryTypeOK, TypeOK, Plans
<1>3. /\ pc' = pc /\ snap'.up = snap.up /\ plan'.start = plan.start /\ plan'.poweroff = plan.poweroff
  BY DEF Tick, HistoryTypeOK, TypeOK, Plans
<1>4. \A v \in Asked : Live(wake'[v]) => (retired(v)' <=> retired(v))
  BY RetiredStays DEF HistoryTypeOK
<1>5. \A a, b \in Ages : /\ a <= b => Older(a) <= Older(b)
                         /\ Live(Older(a)) => Live(a)
                         /\ Live(Older(a)) /\ Older(a) = Older(b) => a = b
  BY OlderOrder
<1>6. SeenReads'
  <2>1. \A v \in seenUp' : Live(wake'[v]) => ~retired(v)'
    BY <1>1, <1>2, <1>4, <1>5 DEF SeenInv, SeenReads
  <2>2. ASSUME pc = "observe", NEW v \in Asked, Live(snap'.wake[v])
        PROVE  ~GivenUp(v, snap.wake[v])'
    <3>1. Live(snap.wake[v]) /\ ~GivenUp(v, snap.wake[v])
      BY <1>1, <1>2, <1>5, <2>2 DEF SeenInv, SeenReads
    <3>2. fails'[v].of = Older(snap.wake[v]) /\ fails'[v].tries >= StartFailLimit
            <=> GivenUp(v, snap.wake[v])
      BY <1>1, <1>2, <2>2, GivenUpStays DEF HistoryTypeOK
    <3> QED
      BY <1>2, <3>1, <3>2 DEF GivenUp
  <2>3. ASSUME pc = "observe", NEW v \in seenUp'
        PROVE  /\ Live(wake'[v]) => snap'.wake[v] = wake'[v]
               /\ Live(snap'.wake[v]) => done'[v] <= snap'.wake[v]
    BY <1>1, <1>2, <1>5, <2>3 DEF SeenInv, SeenReads
  <2> QED
    BY <1>3, <2>1, <2>2, <2>3 DEF SeenInv, SeenReads
<1>7. SeenMarks'
  <2>1. ASSUME NEW v \in seenUp', Met(v) PROVE Met(v)'
    BY <1>1, <1>2, <1>5, <2>1 DEF Met
  <2>2. ASSUME InTick, NEW v \in seenUp', Live(wake'[v]) PROVE plan'.done[v] <= wake'[v]
    BY <1>1, <1>2, <1>5, <2>2 DEF SeenInv, SeenMarks
  <2> QED
    BY <1>3, <2>1, <2>2 DEF SeenInv, SeenMarks, InTick
<1> QED
  BY <1>6, <1>7 DEF SeenInv

(* Every step keeps SeenInv, in an instance without sun in which a tick     *)
(* that clears p1 ends without its save only when there is nothing to save. *)
LEMMA SeenStep ==
    ASSUME "silence" \notin Faults, "save" \notin Faults, "crash" \notin Env,
           HistoryTypeOK, PlanInv, NightInv, SeenInv, [Next /\ Record]_<<vars, history>>,
           MigrateFails \/ StopFails => \A v \in seenUp : Met(v)
    PROVE  SeenInv'
<1> USE DEF persisted, tick
<1>1. CASE UNCHANGED <<vars, history>>
  BY <1>1, SeenAside DEF vars, history
<1> SUFFICES ASSUME Next, Record PROVE SeenInv'
  BY <1>1
<1>2. CASE ReadUp
  BY <1>2, DecidedSeen DEF ReadUp, p1
<1>3. CASE ReadDown
  BY <1>3, DecidedSeen DEF ReadDown, p1
<1> SUFFICES ASSUME ~ReadUp, ~ReadDown PROVE SeenInv'
  BY <1>2, <1>3
<1>4. seenUp' \subseteq seenUp /\ (seenUp' = seenUp \ Pressed)
  BY NoOtherRead DEF Record
<1>5. ASSUME UNCHANGED <<mode, grace, done, wake, fails>>,
             EndTick /\ \A v \in seenUp : Met(v)
      PROVE  SeenInv'
  BY <1>4, <1>5, SeenOn DEF retired
<1>6. ASSUME UNCHANGED <<mode, grace, done, wake, fails>>, InTick,
             NEW step, Continue(step), step \notin {"idle", "observe"}
      PROVE  SeenInv'
  BY <1>4, <1>6, SeenOn DEF retired, Continue, InTick
<1>7. CASE ObserveFails
  BY <1>4, <1>7, SeenAside DEF ObserveFails
<1>8. CASE ReadIntent
  <2>1. /\ pc' = "observe" /\ pc = "idle" /\ snap'.wake = requestedWake
        /\ UNCHANGED <<wake, done, fails>>
    BY <1>8 DEF ReadIntent, NoSnap, memory
  <2>2. seenUp \subseteq Asked /\ ~Live(Never)
    BY DurationsAssumption DEF HistoryTypeOK, Live, Never
  <2>3. ASSUME NEW v \in Asked
        PROVE  requestedWake[v] = IF v \in GamingGuard /\ ~retired(v) THEN wake[v] ELSE Never
    BY DEF requestedWake
  <2>4. \A v \in Asked : retired(v)' = retired(v)
    BY <2>1 DEF retired
  <2>5. \A v \in seenUp : Met(v)
    BY <2>1 DEF SeenInv, SeenMarks, InTick
  <2>6. ASSUME NEW v \in Asked, Live(snap'.wake[v]) PROVE ~GivenUp(v, snap.wake[v])'
    BY <2>1, <2>2, <2>3, <2>6 DEF GivenUp, retired
  <2>7. SeenReads'
    BY <1>4, <2>1, <2>2, <2>3, <2>4, <2>5, <2>6 DEF SeenInv, SeenReads, Met
  <2>8. SeenMarks'
    BY <1>4, <2>1, <2>5 DEF SeenMarks, Met, InTick
  <2> QED
    BY <2>7, <2>8 DEF SeenInv
<1>9. CASE ReadUnconfirmed
  BY <1>5, <1>9 DEF ReadUnconfirmed, SeenInv, SeenMarks, InTick
<1>10. CASE Apply
  <2>1. pc = "apply" /\ UNCHANGED <<mode, grace, done, wake, fails>>
    BY <1>10 DEF Apply, memory
  <2>2. CASE isNoop /\ EndTick
    BY <1>5, <2>1, <2>2 DEF isNoop, SeenInv, SeenMarks, Met, InTick
  <2>3. CASE Continue(IF Full THEN FirstStep(plan) ELSE "save")
    BY <1>6, <2>1, <2>3, StepsGoOn DEF InTick
  <2> QED
    BY <1>10, <2>2, <2>3 DEF Apply
<1>11. CASE ApplyFails
  BY <1>11 DEF ApplyFails
<1>12. CASE MigrateFails \/ StopFails
  <2>1. UNCHANGED <<mode, grace, done, wake, fails>> /\ EndTick
    BY <1>12 DEF MigrateFails, StopFails, memory
  <2> QED
    BY <1>5, <1>12, <2>1
<1>13. CASE Migrated \/ StopAll \/ StopFinished \/ StopInterrupted \/ Wake \/ Awake \/ StartUnlisted
  <2>1. /\ pc \in {"migrate", "stop", "stopping", "wake", "waking", "start"}
        /\ UNCHANGED <<mode, grace, done, wake, fails>>
        /\ \E step \in {AfterMigrate(plan), "stopping", AfterStop(plan), "save", "waking",
                       AfterWake(plan), AfterStart(plan)} : Continue(step)
    BY <1>13 DEF Migrated, StopAll, StopFinished, StopInterrupted, Wake, Awake, StartUnlisted, memory
  <2> QED
    BY <1>6, <2>1, StepsGoOn DEF InTick
<1>14. CASE WakeFails \/ WakeTimesOut
  <2>1. /\ pc \in {"wake", "waking"} /\ UNCHANGED <<mode, grace, done, wake, fails>> /\ EndTick
    BY <1>14 DEF WakeFails, WakeTimesOut, memory
  <2>2. ~snap.up
    BY <2>1 DEF PlanInv, Asks, NightInv, InTick
  <2> QED
    BY <1>5, <2>1, <2>2 DEF SeenInv, SeenMarks
<1>15. CASE StartRequested
  <2>1. /\ pc = "start" /\ UNCHANGED <<mode, grace, done, wake>> /\ Continue(AfterStart(plan))
        /\ \A v \in Asked \ plan.start : fails'[v] = fails[v]
    BY <1>15 DEF StartRequested
  <2>2. \A v \in seenUp : retired(v)' = retired(v)
    BY <2>1 DEF SeenInv, SeenMarks, InTick, HistoryTypeOK, retired
  <2>3. InTick /\ InTick'
    BY <2>1, StepsGoOn DEF InTick, Continue
  <2> QED
    BY <1>4, <2>1, <2>2, <2>3, SeenOn DEF Continue
<1>16. CASE RestoreStopped \/ RestoreFails
  BY <1>16 DEF RestoreStopped, RestoreFails, PlanInv, Asks, NightInv, InTick
<1>17. CASE Recheck
  BY <1>6, <1>17 DEF Recheck, InTick, memory
<1>18. CASE PowerOff \/ ShutdownNode
  <2>1. /\ pc = "poweroff" /\ UNCHANGED <<mode, grace, done, wake, fails>> /\ plan.poweroff
        /\ EndTick \/ Continue("save")
    BY <1>18 DEF PowerOff, ShutdownNode, PlanInv, Asks, memory
  <2> QED
    BY <1>5, <1>6, <2>1 DEF InTick, SeenInv, SeenMarks
<1>19. CASE Save
  <2>1. EndTick /\ done' = plan.done /\ UNCHANGED <<wake, fails>> /\ pc = "save" /\ pc' = "idle"
    BY <1>19 DEF Save, EndTick, memory
  <2>2. \A v \in seenUp : retired(v)' = retired(v)
    BY <2>1 DEF retired
  <2>3. \A v \in seenUp : Live(wake[v]) => plan.done[v] <= wake[v]
    BY <2>1 DEF SeenInv, SeenMarks, InTick
  <2> QED
    BY <1>4, <2>1, <2>2, <2>3 DEF SeenInv, SeenReads, SeenMarks, Met, InTick
<1>20. CASE World
  <2>1. CASE Tick
    BY <1>4, <2>1, SeenAges
  <2>2. CASE wake' = wake /\ (UNCHANGED <<persisted, memory, tick>>)
    BY <1>4, <2>2, SeenAside
  <2>3. ASSUME NEW v \in Asked, UNCHANGED <<persisted, memory, tick, remote, host, req>>,
               \A w \in Asked \ {v} : wake'[w] = wake[w],
               wake'[v] \in {0, Never}
        PROVE  SeenInv'
    <3>1. wake'[v] = 0 => wake'[v] = wake[v] \/ v \notin seenUp'
      BY <1>4 DEF Pressed
    <3> QED
      BY <1>4, <2>3, <3>1, SeenAside
  <2> QED
    BY <1>20, <2>1, <2>2, <2>3, OthersStep, OthersWake DEF Crash, HistoryTypeOK
<1> QED
  BY <1>7, <1>8, <1>9, <1>10, <1>11, <1>12, <1>13, <1>14, <1>15, <1>16, <1>17, <1>18, <1>19, <1>20
     DEF Next, Loop

(* A p1 that is up while the mode is running can be cleared.                *)
LEMMA ClearingGoesOn ==
    ASSUME "migrate" \notin Faults, "stop" \notin Faults, TypeOK, PlanInv, RunningIsUp
    PROVE  ~MigrateFails /\ ~StopFails
BY DEF MigrateFails, StopFails, RunningIsUp, PlanInv, Asks, PlanFits, InTick, Online

-----------------------------------------------------------------------------
(* In an unbroken deficit mode running is left by the first tick that gets  *)
(* through, and until it does nobody plays where only the loop starts       *)
(* desktop VMs.                                                             *)
NobodyPlays ==
    /\ InTick => plan.next # "running"
    /\ mode = "running" => seenUp = {} /\ (pc # "save" => running \cap GamingGuard = {})

(* What a tick decides when there is only night.                            *)
LEMMA DecidedInDeficit ==
    ASSUME AlwaysDeficit, TypeOK, NightInv, NEW up \in BOOLEAN, Decided(up)
    PROVE  plan'.next # "running"
<1>1. PICK r \in Readings : plan' = Decide(Observed(r, up))
  BY DEF Decided
<1> DEFINE o == Observed(r, up)
<1>2. o \in Snapshots
  BY ObservedType
<1>3. Signal(o) = "deficit"
  BY DEF Observed, Signal, minRuntimeHold, AlwaysDeficit, NightInv
<1> HIDE DEF o
<1> QED
  BY <1>1, <1>2, <1>3, DeficitLeaves DEF o

(* Every step keeps it.                                                     *)
LEMMA NobodyPlaysStep ==
    ASSUME AlwaysDeficit, "save" \notin Faults,
           "crash" \notin Env, "guestStart" \notin Env, "autostart" \notin Env,
           HistoryTypeOK, PlanInv, NightInv, NobodyPlays, [Next /\ Record]_<<vars, history>>
    PROVE  NobodyPlays'
<1> USE DEF NobodyPlays, persisted, p1, tick
<1>1. CASE UNCHANGED <<vars, history>>
  BY <1>1 DEF vars, history, InTick
<1> SUFFICES ASSUME Next, Record PROVE NobodyPlays'
  BY <1>1
<1>t. TypeOK
  BY DEF HistoryTypeOK
<1>2. CASE ReadUp \/ ReadDown
  <2>1. /\ plan'.next # "running" /\ pc' = "apply" /\ pc = "observe"
        /\ UNCHANGED <<mode, running, wake>>
    BY <1>2, <1>t, DecidedInDeficit DEF ReadUp, ReadDown, Decided
  <2>2. Pressed = {}
    BY <2>1 DEF Pressed
  <2>3. seenUp' \subseteq seenUp \cup {v \in running \cap Asked : Live(wake[v]) /\ snap.wake[v] = wake[v]}
    BY <2>2 DEF Record
  <2>4. \A v \in Asked : Live(wake[v]) /\ snap.wake[v] = wake[v] => v \in GamingGuard
    BY DEF PlanInv, ReadsGuard
  <2> QED
    BY <2>1, <2>3, <2>4
<1> SUFFICES ASSUME ~ReadUp, ~ReadDown PROVE NobodyPlays'
  BY <1>2
<1>3. seenUp' \subseteq seenUp
  BY NoOtherRead DEF Record
<1>4. ASSUME mode' = mode, pc # "save", running' \cap GamingGuard \subseteq running,
             EndTick \/ (InTick /\ plan' = plan) \/ ~InTick'
      PROVE  NobodyPlays'
  BY <1>3, <1>4 DEF EndTick, InTick
<1>5. CASE ObserveFails \/ ReadIntent \/ ReadUnconfirmed
  BY <1>4, <1>5 DEF ObserveFails, ReadIntent, ReadUnconfirmed, InTick, EndTick
<1>6. CASE Apply \/ ApplyFails
  BY <1>4, <1>6 DEF Apply, ApplyFails, Continue, InTick
<1>7. CASE Migrated \/ MigrateFails
  BY <1>4, <1>7 DEF Migrated, MigrateFails, Continue, InTick
<1>8. CASE StopAll \/ StopFinished \/ StopInterrupted \/ StopFails
  BY <1>4, <1>8 DEF StopAll, StopFinished, StopInterrupted, StopFails, Continue, InTick
<1>9. CASE Wake \/ WakeFails \/ Awake \/ WakeTimesOut \/ StartUnlisted
  BY <1>4, <1>9 DEF Wake, WakeFails, Awake, WakeTimesOut, StartUnlisted, Continue, InTick
<1>10. CASE StartRequested
  <2>1. pc = "start" /\ mode' = mode /\ plan' = plan /\ pc' = AfterStart(plan)
    BY <1>10 DEF StartRequested, Continue
  <2>2. ~plan.restore /\ plan.start # {}
    BY <2>1 DEF PlanInv, Asks, NightInv, InTick
  <2>3. ~plan.poweroff
    BY <2>1, <2>2 DEF PlanInv, PlanFits, InTick
  <2>4. pc' = "save"
    BY <2>1, <2>2, <2>3 DEF AfterStart, AfterRestore
  <2> QED
    BY <1>3, <2>1, <2>4 DEF InTick
<1>11. CASE RestoreStopped \/ RestoreFails
  BY <1>11 DEF RestoreStopped, RestoreFails, PlanInv, Asks, NightInv, InTick
<1>12. CASE Recheck \/ PowerOff \/ ShutdownNode
  BY <1>4, <1>12 DEF Recheck, PowerOff, ShutdownNode, Continue, InTick
<1>13. CASE Save
  BY <1>13 DEF Save, EndTick, InTick
<1>14. CASE World
  <2>1. CASE Tick
    <3>1. plan'.next = plan.next /\ UNCHANGED <<mode, pc, running>>
      BY <2>1, <1>t DEF Tick, TypeOK, Plans
    <3> QED
      BY <1>3, <3>1 DEF InTick
  <2>2. CASE ~Tick
    <3>1. UNCHANGED <<mode, pc, plan>>
      BY <1>14, <2>2, OthersStep DEF Crash
    <3>2. running' \cap GamingGuard \subseteq running
      BY <1>14, <2>2, ClassesAssumption
         DEF World, Press, PowerAction, GuestStops, GuestStarts, MovedBack, StopTaskStep, Booted,
             ShutDown, HostLost, GoneDown, HandOn, NutDogPoll, NutDogRestart, NutDogProbes, Crash
    <3> QED
      BY <1>3, <3>1, <3>2 DEF InTick
  <2> QED
    BY <2>1, <2>2
<1> QED
  BY <1>5, <1>6, <1>7, <1>8, <1>9, <1>10, <1>11, <1>12, <1>13, <1>14 DEF Next, Loop

(* Only in mode running is p1 cleared, and then there is nothing to save.   *)
LEMMA ClearingUnseen ==
    ASSUME PlanInv, NobodyPlays, MigrateFails \/ StopFails
    PROVE  seenUp = {}
BY DEF MigrateFails, StopFails, PlanInv, Asks, PlanFits, InTick, NobodyPlays

(* Where a plan starts VMs, only the two steps that do so are next. *)
LEMMA AtStart == ASSUME Loop, pc = "start" PROVE StartRequested \/ StartUnlisted
BY DEF Loop, ObserveFails, ReadIntent, ReadUp, ReadDown, ReadUnconfirmed, Apply, ApplyFails,
       Migrated, MigrateFails, StopAll, StopFinished, StopInterrupted, StopFails,
       Wake, WakeFails, Awake, WakeTimesOut,
       RestoreStopped, RestoreFails, Recheck, PowerOff, ShutdownNode, Save

(* A request that was seen through starts its VM no second time, for any    *)
(* number of VMs and users, any timing, and requests made, withdrawn and    *)
(* made again at any moment.  The marker is only as good as the save that   *)
(* ends its tick, and a failed migration or stop ends a tick before it:     *)
(* either those calls get through, or there is only night and only the loop *)
(* starts desktop VMs, so that no VM is up when p1 is cleared.              *)
THEOREM SeenIsServed ==
    ASSUME NoSun, "silence" \notin Faults, "save" \notin Faults, "crash" \notin Env,
           \/ /\ {"migrate", "stop", "request"} \cap Faults = {}
              /\ "hostLoss" \notin Env
           \/ AlwaysDeficit /\ {"guestStart", "autostart"} \cap Env = {}
    PROVE  HistorySpec => SeenStaysServed
<1> DEFINE Through == {"migrate", "stop", "request"} \cap Faults = {} /\ "hostLoss" \notin Env
           Quiet == AlwaysDeficit /\ {"guestStart", "autostart"} \cap Env = {}
<1>1. HistoryInit => SeenInv /\ (Quiet => NobodyPlays)
  BY ClassesAssumption DEF HistoryInit, Init, SeenInv, SeenReads, SeenMarks, NobodyPlays, InTick
<1>2. HistoryTypeOK /\ PlanInv /\ NightInv /\ (Quiet => NobodyPlays) /\ [Next /\ Record]_<<vars, history>>
        => (Quiet => NobodyPlays)'
  BY NobodyPlaysStep
<1>3. ASSUME HistoryTypeOK, PlanInv, NightInv, Through => RunningIsUp, Quiet => NobodyPlays, SeenInv,
             [Next /\ Record]_<<vars, history>>
      PROVE  SeenInv'
  <2>1. MigrateFails \/ StopFails => \A v \in seenUp : Met(v)
    <3>1. CASE Through
      BY <1>3, <3>1, ClearingGoesOn DEF HistoryTypeOK
    <3>2. CASE Quiet
      BY <1>3, <3>2, ClearingUnseen
    <3> QED
      BY <3>1, <3>2
  <2> QED
    BY <1>3, <2>1, SeenStep
<1>4. ASSUME SeenInv, Next /\ Record, pc = "start", pc' # pc
      PROVE  \A v \in running' \ running : v \notin seenUp
  <2>1. CASE StartRequested
    <3>1. running' \ running \subseteq plan.start
      BY <2>1 DEF StartRequested
    <3> QED
      BY <1>4, <3>1 DEF SeenInv, SeenMarks, InTick
  <2>2. CASE StartUnlisted
    BY <2>2 DEF StartUnlisted, p1
  <2>3. CASE World
    <3>1. CASE Crash
      BY <3>1 DEF Crash, p1
    <3> QED
      BY <1>4, <2>3, <3>1, OthersStep DEF Tick, tick
  <2> QED
    BY <1>4, <2>1, <2>2, <2>3, AtStart DEF Next
<1>5. HistoryTypeOK /\ SeenInv /\ [Next /\ Record]_<<vars, history>> =>
        [pc = "start" /\ pc' # pc =>
          \A v \in running' \ running : v \notin seenUp]_<<vars, history>>
  BY <1>4
<1>6. Spec => []NightInv
  BY NightAlways
<1>7. CASE Through
  <2>1. Spec => []RunningIsUp
    BY <1>7, RunningAlwaysUp
  <2>2. HistoryTypeOK /\ PlanInv /\ NightInv /\ RunningIsUp /\ (Quiet => NobodyPlays) /\ SeenInv
          /\ [Next /\ Record]_<<vars, history>> => SeenInv'
    BY <1>3, <1>7
  <2> HIDE DEF Through, Quiet
  <2> QED
    BY <1>1, <1>2, <2>2, <1>5, <1>6, <2>1, HistoryTypeCorrect, HistoryRefinesSpec, PlanAlwaysFits, PTL
       DEF HistorySpec, SeenStaysServed
<1>8. CASE ~Through
  <2>2. HistoryTypeOK /\ PlanInv /\ NightInv /\ (Quiet => NobodyPlays) /\ SeenInv
          /\ [Next /\ Record]_<<vars, history>> => SeenInv'
    BY <1>3, <1>8
  <2> HIDE DEF Through, Quiet
  <2> QED
    BY <1>1, <1>2, <2>2, <1>5, <1>6, HistoryTypeCorrect, HistoryRefinesSpec, PlanAlwaysFits, PTL
       DEF HistorySpec, SeenStaysServed
<1> QED
  BY <1>7, <1>8

-----------------------------------------------------------------------------
(* In an unbroken deficit nobody plays before the loop has left the mode    *)
(* running, and nobody plays again before a shed it has decided is over:    *)
(* whatever off is remembered, its session is longer ago than the window.   *)
LongAgo ==
    /\ mode = "running" => lastSeen >= GamingGrace
    /\ askedOff \/ (InTick /\ plan.poweroff) =>
          running \cap GamingGuard = {} /\ lastSeen >= GamingGrace

(* Where only the loop starts desktop VMs, this is the step that does.      *)
LEMMA PlayersCome ==
    ASSUME "guestStart" \notin Env, "autostart" \notin Env, [Next]_vars, TypeOK
    PROVE  running' \cap GamingGuard \subseteq running \/ StartRequested
<1> USE DEF p1
<1>1. CASE ObserveFails \/ ReadIntent \/ ReadUp \/ ReadDown \/ ReadUnconfirmed \/ Apply \/ ApplyFails
  BY <1>1 DEF ObserveFails, ReadIntent, ReadUp, ReadDown, ReadUnconfirmed, Apply, ApplyFails
<1>2. CASE Migrated \/ MigrateFails \/ StopAll \/ StopFinished \/ StopInterrupted \/ StopFails
  BY <1>2 DEF Migrated, MigrateFails, StopAll, StopFinished, StopInterrupted, StopFails
<1>3. CASE Wake \/ WakeFails \/ Awake \/ WakeTimesOut \/ StartUnlisted
  BY <1>3 DEF Wake, WakeFails, Awake, WakeTimesOut, StartUnlisted
<1>4. CASE RestoreStopped
  <2>1. running' \subseteq running \cup Stop
    BY <1>4 DEF RestoreStopped
  <2> QED
    BY <2>1, ClassesAssumption
<1>5. CASE RestoreFails \/ Recheck \/ PowerOff \/ ShutdownNode \/ Save
  BY <1>5 DEF RestoreFails, Recheck, PowerOff, ShutdownNode, Save
<1>6. CASE World
  BY <1>6, ClassesAssumption
     DEF World, Press, PowerAction, GuestStops, GuestStarts, MovedBack, StopTaskStep, Booted,
         ShutDown, HostLost, GoneDown, HandOn, NutDogPoll, NutDogRestart, NutDogProbes, Crash, Tick
<1>7. CASE UNCHANGED vars
  BY <1>7 DEF vars
<1> QED
  BY <1>1, <1>2, <1>3, <1>4, <1>5, <1>6, <1>7 DEF Next, Loop

(* Every step keeps LongAgo. *)
LEMMA LongAgoStep ==
    ASSUME AlwaysDeficit, "guestStart" \notin Env, "autostart" \notin Env,
           HistoryTypeOK, HistoryTypeOK', PlanInv, PlanInv', StartsFree, NobodyPlays, GraceInv', LongAgo,
           Next, Record
    PROVE  LongAgo'
<1>1. lastSeen \in Nat /\ GamingGrace \in Nat
  BY DurationsAssumption DEF HistoryTypeOK, Ages
<1>2. mode' = "running" => mode = "running"
  <2>1. mode' = mode \/ (InTick /\ mode' = plan.next)
    BY ModeIsSaved DEF Save, InTick
  <2> QED
    BY <2>1 DEF NobodyPlays
<1>3. lastSeen >= GamingGrace =>
        lastSeen' >= GamingGrace \/ (ReadsCluster /\ running \cap GamingGuard # {})
  <2>1. Older(lastSeen) >= lastSeen /\ Older(lastSeen) \in Nat
    BY <1>1 DEF Older
  <2> QED
    BY <1>1, <2>1 DEF Record
<1>4. mode = "running" /\ ReadsCluster => running \cap GamingGuard = {}
  BY DEF NobodyPlays, ReadsCluster
<1>5. mode' = "running" => lastSeen' >= GamingGrace
  BY <1>2, <1>3, <1>4 DEF LongAgo
<1>6. askedOff' => askedOff \/ (InTick /\ plan.poweroff)
  BY RememberedStep DEF PowerOff, PlanInv, Asks, InTick
<1>7. CASE ReadUp \/ ReadDown
  <2>1. PICK up \in BOOLEAN : Decided(up) /\ UNCHANGED <<mode, running>>
    BY <1>7 DEF ReadUp, ReadDown, persisted, p1
  <2>2. PICK r \in Readings : plan' = Decide(Observed(r, up))
    BY <2>1 DEF Decided
  <2>3. InTick' /\ ~InTick
    BY <1>7, <2>1 DEF Decided, ReadUp, ReadDown, InTick
  <2>4. plan'.poweroff => running \cap GamingGuard = {}
    <3> DEFINE o == Observed(r, up)
    <3>1. o \in Snapshots /\ o.up = up /\ o.running = IF up THEN running ELSE {}
      BY ObservedType DEF Observed, HistoryTypeOK
    <3> HIDE DEF o
    <3>2. plan' = Decide(o)
      BY <2>2 DEF o
    <3>3. plan'.poweroff => o.up /\ ~gamingActive(o)
      BY <3>1, <3>2, PowerOffCause
    <3> QED
      BY <3>1, <3>3 DEF gamingActive
  <2>5. plan'.poweroff => lastSeen' >= GamingGrace
    <3>1. plan'.poweroff => mode' # "shed" /\ mode' \in Modes
      BY <2>3 DEF PlanInv, PlanFits, HistoryTypeOK, TypeOK
    <3> QED
      BY <1>5, <2>3, <3>1 DEF GraceInv, Modes
  <2>6. askedOff' => running \cap GamingGuard = {} /\ lastSeen' >= GamingGrace
    BY <1>3, <1>6, <2>3 DEF LongAgo
  <2> QED
    BY <1>5, <2>1, <2>4, <2>5, <2>6 DEF LongAgo
<1>8. CASE ~ReadUp /\ ~ReadDown
  <2>1. ~ReadsCluster
    BY <1>8, NoOtherRead
  <2>2. InTick' /\ plan'.poweroff => InTick /\ plan.poweroff
    <3>1. CASE Loop
      BY <1>8, <3>1, LoopSteps
    <3>2. CASE Tick
      BY <3>2 DEF Tick, HistoryTypeOK, TypeOK, Plans, InTick
    <3> QED
      BY <3>1, <3>2, OthersStep DEF Next, Crash, EndTick, InTick, tick
  <2>3. askedOff \/ (InTick /\ plan.poweroff) => ~StartRequested
    <3>1. StartRequested => InTick /\ plan.start # {}
      BY DEF StartRequested, PlanInv, Asks, InTick
    <3> QED
      BY <3>1 DEF StartsFree, PlanInv, PlanFits
  <2>4. askedOff \/ (InTick /\ plan.poweroff) =>
          running' \cap GamingGuard = {} /\ lastSeen' >= GamingGrace
    BY <1>3, <2>1, <2>3, PlayersCome DEF LongAgo, HistoryTypeOK
  <2> QED
    BY <1>5, <1>6, <2>2, <2>4 DEF LongAgo
<1> QED
  BY <1>7, <1>8

(* With what it rests on. *)
DeficitInv == NobodyPlays /\ StartsFree /\ ShedKeepsMarkers /\ LongAgo

(* Every step keeps it. *)
LEMMA DeficitStep ==
    ASSUME AlwaysDeficit, "save" \notin Faults, "crash" \notin Env,
           "guestStart" \notin Env, "autostart" \notin Env,
           HistoryTypeOK, HistoryTypeOK', PlanInv, PlanInv', NightInv, GraceInv', DeficitInv,
           [Next /\ Record]_<<vars, history>>
    PROVE  DeficitInv'
<1> USE DEF DeficitInv
<1>1. CASE Next /\ Record
  <2>1. NobodyPlays'
    BY <1>1, NobodyPlaysStep
  <2>2. StartsFree' /\ ShedKeepsMarkers'
    BY <1>1, ShedKeepsStep DEF HistoryTypeOK
  <2>3. LongAgo'
    BY <1>1, LongAgoStep
  <2> QED
    BY <2>1, <2>2, <2>3
<1>2. CASE UNCHANGED <<vars, history>>
  BY <1>2 DEF vars, persisted, memory, tick, p1, history, NobodyPlays, StartsFree, ShedKeepsMarkers,
              LongAgo, InTick
<1> QED
  BY <1>1, <1>2

(* A session has its whole grace window after a tick last saw it, for every *)
(* length of the window and every interleaving of ticks, players and time,  *)
(* as long as the ticks that see a session end with their save: one that is *)
(* lost keeps the older clock.  Either nut-dog keeps every off it is told,  *)
(* or it is an unbroken deficit in which only the loop starts desktop VMs:  *)
(* an off that was lost is said again, and a session that somebody starts   *)
(* by hand in between has nothing to say to it.                             *)
THEOREM GraceIsHonoured ==
    ASSUME NoSun, "silence" \notin Faults, "save" \notin Faults, "crash" \notin Env,
           \/ "request" \notin Faults /\ "dogRestart" \notin Env
           \/ AlwaysDeficit /\ {"guestStart", "autostart"} \cap Env = {}
    PROVE  HistorySpec => GraceHonoured
<1>1. HistoryInit => GraceInv
  BY DEF HistoryInit, Init, GraceInv, Past, InTick
<1>2. HistoryTypeOK /\ PlanInv /\ NightInv /\ GraceInv /\ [Next /\ Record]_<<vars, history>> => GraceInv'
  BY GraceStep
<1>3. PlanInv /\ GraceInv /\ OffOrdered /\ mode = "gaming" => lastSeen >= GamingGrace
  BY DEF PlanInv, Asks, GraceInv, OffOrdered, PowerOff, ShutdownNode, InTick
<1>4. Spec => []NightInv
  BY NightAlways
<1>5. CASE "request" \notin Faults /\ "dogRestart" \notin Env
  <2>1. HistoryInit => OffKept
    BY DEF HistoryInit, Init, OffKept
  <2>2. HistoryTypeOK /\ OffKept /\ [Next /\ Record]_<<vars, history>> => OffKept'
    <3>1. ASSUME HistoryTypeOK, OffKept, Next PROVE OffKept'
      BY <1>5, <3>1, OffKeptStep DEF HistoryTypeOK
    <3>2. OffKept /\ UNCHANGED <<vars, history>> => OffKept'
      BY DEF vars, memory, OffKept
    <3> QED
      BY <3>1, <3>2
  <2>3. HistoryTypeOK /\ PlanInv /\ OffKept /\ GraceInv /\ [Next /\ Record]_<<vars, history>> =>
          [OffSaid /\ mode = "gaming" => lastSeen >= GamingGrace]_<<vars, history>>
    <3>1. ASSUME HistoryTypeOK, OffKept, Next, OffSaid PROVE OffOrdered
      BY <3>1, OffIsSaid DEF OffSaid, OffOrdered, OffKept, HistoryTypeOK
    <3> QED
      BY <1>3, <3>1
  <2> QED
    BY <1>1, <1>2, <1>4, <2>1, <2>2, <2>3, HistoryTypeCorrect, HistoryRefinesSpec, PlanAlwaysFits, PTL
       DEF HistorySpec, GraceHonoured
<1>6. CASE AlwaysDeficit /\ {"guestStart", "autostart"} \cap Env = {}
  <2>1. HistoryInit => DeficitInv
    BY ClassesAssumption, DurationsAssumption
       DEF HistoryInit, Init, DeficitInv, NobodyPlays, StartsFree, ShedKeepsMarkers, LongAgo, InTick, Never
  <2>2. HistoryTypeOK /\ HistoryTypeOK' /\ PlanInv /\ PlanInv' /\ NightInv /\ GraceInv' /\ DeficitInv
          /\ [Next /\ Record]_<<vars, history>> => DeficitInv'
    BY <1>6, DeficitStep
  <2>3. HistoryTypeOK /\ PlanInv /\ GraceInv /\ DeficitInv /\ [Next /\ Record]_<<vars, history>> =>
          [OffSaid /\ mode = "gaming" => lastSeen >= GamingGrace]_<<vars, history>>
    <3>1. ASSUME HistoryTypeOK, Next, OffSaid PROVE OffOrdered \/ askedOff
      BY <3>1, OffIsSaid DEF OffSaid, OffOrdered, HistoryTypeOK
    <3> QED
      BY <1>3, <3>1 DEF LongAgo, DeficitInv
  <2> QED
    BY <1>1, <1>2, <1>4, <2>1, <2>2, <2>3, HistoryTypeCorrect, HistoryRefinesSpec, PlanAlwaysFits, PTL
       DEF HistorySpec, GraceHonoured
<1> QED
  BY <1>5, <1>6
=============================================================================

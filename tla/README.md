# energy-watchdog, verified

A TLA+ development kept beside the Go code of energy-watchdog. The program
powers a Proxmox host (`p1`) off when there is no solar surplus and back on when
there is, without switching off somebody who plays on a desktop VM, without
losing guests, and without ever ending up with a host that is half shed. Line
numbers are those of `src/internal/...`.

Contents: 1 the system; 2 the modules; 3 how the model relates to the code;
4 what the runs check; 5 fairness; 6 what is proved; 7 disagreements found;
8 what is not modelled; 9 the plan.

## 1. The system

One process, one goroutine that reconciles (`Controller.Run`), the HTTP handlers
of the self-service UI beside it, and four remote parties.

| Part | State it keeps | Operations |
|---|---|---|
| **Decision** `controller/decide.go` | none: `Decide(snapshot, config, now)` is pure | classify the sun, pin it by holds, defer by minRuntime, resolve wake requests, plan for the mode running, shed or gaming |
| **Reconcile loop** `controller/controller.go` | in memory only: `askedOff`, `nodeDownStreak`, `pendingStop`, start failures; saved: mode, grace clock, spent requests | observe, confirmDown, apply, execute (migrate, stop, wake, start, restore, re-check, power-off), restate or hold the power wish, silences, replication, save |
| **State store** `state/state.go` | `State` (owned by the loop) and `Intent` (owned by the UI: wake requests and holds), as two files or two ConfigMap keys | Load, Save, LoadIntent, SaveIntent, each a whole read or a whole write |
| **Self-service API** `selfservice/server.go` | a cluster view cached for 3 s, GPU assignments | handleStart, handlePower, handleHold, handleStatus; each wakes the loop by a nudge |
| **Proxmox client** `proxmox/proxmox.go` | none | node state and guests, bulk migrate, stop, start, task polling, shutdown of the node |
| **nut-dog client** `powerapi/powerapi.go` | none; nut-dog keeps one request *in memory* | Request on, off or hold; State: its probe of p1 |
| **Alertmanager, Prometheus, metrics clients** | silences live in Alertmanager | create, extend and expire silences; query; gauges |
| **Configuration** `config/config.go` | the configuration | defaults, validate, id sets |

How they interact. The loop *reads* Prometheus, Proxmox and both halves of the
store, *decides*, and then spends minutes carrying the plan out. Meanwhile users
add and remove requests (shared through the intent), guests start and stop, a
stop task runs on in Proxmox, nut-dog polls the wish it was given, p1 boots or
goes down, and the watchdog, nut-dog or p1 may restart. Nothing locks anything:
every rule about order rests on a re-read (`wakeInterrupt`, `wakeRequestedNow`),
on a fact remembered (`askedOff`, `pendingStop`, the spent markers), or on
corroboration (`confirmDown`).

What makes each part correct:

- *Decision*: nobody is switched off, every request is answered once, holds and
  minRuntime do only what they say, and two decisions in a row do not undo each
  other.
- *Loop*: an off that was sent is remembered and restated until it lands, and
  none is inferred; the power-off comes last; a request is honoured until the
  moment of no return; a session gets its grace; what was stopped is restored;
  a partition is not an outage; and the loop always reaches the posture that the
  sun asks for. (Some of this holds only up to a point: section 7.)
- *Store and API*: no update lost, no request served twice, no two VMs on a GPU.
- *Silences, replication, migration*: each failed call is retried or undone, and
  a user's own setting is not overwritten.

The hard behaviours are listed one by one, at their lines, under `hazards` in
`PROJECT.json`, each with the properties that catch it or the reason why none
does.

## 2. The modules

| Module | What it is |
|---|---|
| `Decide` | decide.go, as operators over one `Snapshot` |
| `Decision` | one decision, and the decision after it: the properties of `Decide` |
| `MCDecision` | every snapshot of a small host |
| `Watchdog` | the loop, the host, Proxmox, nut-dog, the users; extends `Decide` |
| `WatchdogHistory` | `Watchdog` with three history variables, for properties about what users did before |
| `Landings` | `Watchdog` with a history variable for a shed that landed unseen, for properties about the off that outlives it |
| `Sightings` | `Watchdog` with history variables for how long p1 has been up and how often it was doubted, for properties about partitions |
| `PowerOwner` | abstract: what the loop promises of p1's power switch; `Watchdog` implements it |
| `MCWatchdog`, `MCHistory`, `MCFaults` | a small host: one or two desktop VMs, one critical guest, one of the stop class |
| `SelfService` | the handlers of the UI, read by read and write by write, their cached view and GPU check, and the loop that reads the intent; extends `Decide` |
| `MCSelfService` | two users who share a VM, one of them an admin; two VMs, one GPU |
| `Migration` | migrateAll: its rounds, its goroutines, Proxmox' bulk tasks |
| `Evacuation` | abstract: what execute relies on of a migration; `Migration` implements it |
| `MCMigration` | three guests, three targets |
| `Replication` | reconcileReplication over the jobs, and people's hands on them |
| `Silences` | reconcileSilences over the Alertmanagers, with their client |
| `Upkeep` | the part of `apply` that runs these two, in the code's order, at both dry-run levels |
| `MCUpkeep` | two jobs, two Alertmanagers |
| `IdSets` | the id sets of config.go, with what is proved about them |
| `DecideProofs` | lemmas on `Decide` |
| `DecisionProofs` | the properties of `Decision`, for every snapshot and configuration |
| `WatchdogProofs` | type correctness, the in-flight shed, the refinement of `PowerOwner`, the start budget, what holds at each `pc`: the plan, the posture of a shed, the end of a restore; and the properties of `Landings` and `Sightings` |
| `HistoryProofs` | the properties of `WatchdogHistory` |
| `MigrationProofs` | type correctness, the refinement of `Evacuation`, which targets are tried |
| `SelfServiceProofs` | type correctness, lost clicks, the GPU check, withdrawn requests, one request per GPU |
| `UpkeepProofs` | type correctness of `Upkeep`, jobs and comments, coverage |

`Watchdog` composes the components: its loop calls `Decide` on what it read, as
the code does, so nothing of the decision is abstracted in the runs of the loop.
`SelfService` uses the same `Pending` and `Live` for the loop's side of the intent.
What is one step or one flag in `Watchdog` and has a module of its own is stated
there in a form `Watchdog` can be read against: the migration is `Evacuation`'s
`Leaves` until a `Succeeds` or a `Fails`; `silenced` stands for what
`CoverageLasts` and `NoGap` say of the silences; `Press` and `PowerAction` are the
handlers when no two of them overlap (`LostOnlyByOverlap`).

Definitions whose comment begins with "Mutant" are used by no specification. Each
is a copy of the definition above it with one plausible bug. `PROJECT.json` pairs
every checked property with such a bug and TLC finds the property violated when
the copy replaces the original: this shows the property depends on the code.

## 3. The model and the code

**Decide.** A `Snapshot` is the Go struct with *ages* for timestamps: `wake[v]`
is how long ago v was asked for (`Never` when not, or expired), `done[v]` the age
of the request its spent marker names, `grace` the age of the grace clock or
`Stopped`. Ages saturate at `GamingGrace`, the only bound they are compared
with: it is both the grace window and the life of a request (`Live`). `w <= done`
on timestamps is `>=` on ages. The
power figures stay integers, compared with the real band (`HeadroomWatts`,
`ShedBelowWatts`, `MinBatteryPercent`). `Guests`, `Modes` and the class sets carry
what `config.validate` guarantees: an ordered band, disjoint classes, positive
durations. Reason strings are left out.

**Watchdog.** One tick of the code is a sequence of actions, cut where the code
waits for a remote answer; `pc` names the next call.

| `pc` | Action | Code |
|---|---|---|
| `idle` | `ReadIntent`, `ObserveFails` | observe: the store first (351-399), and the blind tick (226-254) |
| `observe` | `ReadUp`, `ReadDown`, `ReadUnconfirmed` | node state, `confirmDown`, `Decide` (255-290, 560-614) |
| `apply` | `Apply`, `ApplyFails` | replication, silences, the no-op branch with restate and save (291-349) |
| `migrate` | `Migrated`, `MigrateFails` | migrateAll (693-766) |
| `stop`, `stopping` | `StopAll`, `StopFinished`, `StopInterrupted`, `StopFails` | the bulk stop, its deadline, the poll of the intent (616-673, 768-813) |
| `wake`, `waking` | `Wake`, `WakeFails`, `Awake`, `WakeTimesOut` | wake, WaitNodeUp (935-954) |
| `start` | `StartRequested`, `StartUnlisted` | startRequested with its budget of three tries (859-933) |
| `restore` | `RestoreStopped`, `RestoreFails` | settlePendingStop, restoreStopped (675-691, 815-857) |
| `recheck`, `poweroff` | `Recheck`, `PowerOff`, `ShutdownNode` | the last look, then the off (500-524) |
| `save` | `Save` | saveMode (526-530) |

The rest are the world's: `Press` (handleStart), `PowerAction` (handlePower),
guests that stop or are started, a guest moved back, the stop task's progress
(`StopTaskStep`), `Booted`, `ShutDown`, `HostLost`, `HandOn`, `NutDogPoll`,
`NutDogProbes`, `NutDogRestart`, `Crash` (the watchdog restarts with only the saved
state) and `Tick` (a unit of time: every age grows).

`host` is `off`, `booting`, `up` or `goingDown`: a p1 going down still reads
online, which is what most of the rules about a shed in flight are about.
`inFlight` is a history variable that no guard reads: the loop ordered an off,
p1 has not been off since, and neither a planned wake nor a restart of the
watchdog (controller.go:40-44) has ended the shed. (`snap.inFlight` of a `Snapshot` is the code's
`ShedInFlight`, that is `askedOff`.) `silenced` and `replOff` are one flag each for the silences and
the replication jobs. A request to nut-dog is two things that may fail apart: it may
not arrive, or arrive without an answer. Either way the loop sees an error, so
`PowerOff` has three outcomes (sent and saved; taken, tick over; lost, tick over), and
so have `ShutdownNode` and `WakeFails`. `OffOrdered` is the step that orders an off,
`OffSaid` any step that puts one into nut-dog's hands: a restate or a blind tick after
a failed request, too.

`probe` is what nut-dog last found of p1 and how long ago. With `stale` among the
faults nut-dog's probing is a step of its own (`NutDogProbes`), and the loop believes
what it found as long as it is no older than `ProbeMaxAge` (`Probe`; the code's bound
is two minutes, 556-558). Without it every probe is current.

Two constants make one module serve all instances. `Faults` names the calls that
may fail (`observe`, `offline` for a partition, `probe` for no answer, `stale` for a
nut-dog whose probing is held up, `silence`, `replication`, `request`, `on`, `migrate`, `stop`, `wedge`, `intent`, `start`,
`readback`, `save`); `Env` the moves that others may make. A fault not in the set
does not happen in that run; the theorems of section 6 quantify over the sets.

**SelfService.** `click[u]` is one request under way; `at` names the read or write
that comes next, `intent` the copy the handler works on, and `stale` says that
somebody has saved since it was read. A view may be good and the GPUs unread
(`refreshGPUs` keeps the last ones when one cannot be read). The actions are `StartLoad`, `StartCheck`,
`StartSave` (handleStart, 370-405), `PowerView`, `DropLoad`, `DropSave`, `Power`
(handlePower, 407-478), `HoldLoad`, `HoldSave` (handleHold, 488-530), `Status`,
`SaveFails`, and `TickRead`, `TickObserve`, `TickStart`, `TickSave` for the loop.
`cached` is the view and `gpu` the readings, both lost by `Restart`. `wanted` is a
history variable: the clicks applied to each other as they are saved. `served` is one,
too: the request that a withdrawal drops was spent when it was read, and nobody has
asked for the VM since. It decides which VMs enter `shutDown`. `rushed` holds the VMs
that were asked for, withdrawn and asked for again within one second, while a record
of the first request is still about; `unchecked` those whose start was let through
while the GPUs were not known, or whose request a restart has revived.

**Migration.** `StartRound` deals the guests out as `byTarget` does; each target's
goroutine is in `posting` until it has posted (`Post`, `PostFails`) and in `open`
until it returns (`Return`, `StopWaiting`); `Join` is `wg.Wait()` with the
read-back. A task goes on after nobody waits for it, so a guest may leave p1 in a
later round, or after the call.

**Upkeep.** `at` walks `apply`: the listing and the setting of the jobs one by one
(`List`, `Set`), the Alertmanagers one by one (`ListSilences`, `Ensure`,
`DeleteExtra`, `Retire`, `Converged`, or `GiveUp`), and once more the jobs before a
power-off, unless a silence has failed (`failed`, the code's `firstErr`), which ends
`apply` in full mode. What p1, people and time do is interleaved with all of it.

Abstractions, and what they cost:

- The ticker and the nudge are one thing: a tick may follow a tick at once. The
  start budget's "one try per interval" is kept (`fails[v].last`).
- What happens within one time unit bears one timestamp, as `RequestedAt` does within
  one second (server.go:397). A request made again within the unit is one the markers
  and the given-up requests of the first already name, in the model as in the code.
- Every tick reads a sun and a hold of its own from `Readings` and `Holds`.
- In `Watchdog`, bulk migration and the starts of one tick are one step each.
  Their partial failures are not: `MigrateFails`, `StopFails`, `RestoreFails` and
  the failing starts leave any subset done.
- The loop's side of `SelfService` is its use of the intent, the markers and the
  starts; the mode does not matter there, and p1 goes off and on as it likes.
- Silences and Alertmanagers are taken in any order, and a failed call may or may
  not have arrived. `Ids` bounds how many silences one Alertmanager holds.
- An interrupted stop leaves the Proxmox task running, as in the code.

## 4. The runs

Bounds. `GamingGrace = 2` units is the smallest window that has an inside, a last
unit and an end, so `<` and `<=` differ. `night` has 3: only then does a request live
through two intervals and still count (`BudgetLasts`). `FreshBootWindow = 2` likewise
(1 in `decide` and `live`). `MinRuntime` is 2 in `decide` and 0 in the runs of the loop, where it
would only delay sheds. `StartFailLimit = 3` and `NodeDownConfirm = 2` are the
code's. There is one guest per class because the classes are what the rules tell
apart, and a second desktop VM where two users matter (`decide`, `night`). In `night`
the two are interchangeable: no definition picks one of a set, every property of the
run treats them alike and none is a liveness property, so symmetry is sound. The
readings lie on both sides of every threshold. State spaces are finite without
any further bound: ages and the uptime saturate where no rule looks.

`ProbeMaxAge` is 2 in `faults`, so that a probe can be current, old and just too
old while p1 boots and drops out. In `live` it is 0, the smallest at which a probe can be
out of date; elsewhere no probe is stale and its value does not matter. `selfservice` has the two users whose clicks can
overlap, a VM both may control, and three clicks (`MaxClicks`): two that overlap and
one that finds the result, or a start, a shutdown and a start between its two steps.
There `GamingGrace` is 1: the races are between steps of one unit, and a request that
outlives several is the business of `night`. `migration` has three guests, so that a guest can have two before it in
the list, and a target that is full, one that fills up under the call and one with
room. `upkeep` has `TTL = 3` and `Refresh = Grace = 2` units, so a silence can be
fresh, fading and gone, and a grace window half over; one of each pair fails.

| Run | Instance | Distinct states | Properties |
|---|---|---|---|
| `decide` | all snapshots a tick can see | 188 thousand | `TypeOK` `PowerOffSparesUsers` `RequestAnswered` `ServedOnce` `HoldsPinTheSignal` `MinRuntimeOnlyDefers` `NoThrash` |
| `night` | no sun; two users; failing reads, requests, stops, starts; nut-dog restarts; symmetry | 1.64 million | `ShedRemembered` `BudgetLasts` `NoStartOnDyingHost` `OffStands` `OffComesLast` `RescueWindow` `SeenStaysServed` `GraceHonoured` `OwnsPower` |
| `faults` | sun and night, holds, partitions, probes missing or up to `ProbeMaxAge` old, failing silences, wakes, migrations, starts and saves, restarts of watchdog and nut-dog, host losses, hands on the button | 920 thousand | `TypeOK` `OffNeverInferred` `PartitionTolerated` |
| `direct` | no nut-dog, sun, fairness; holds, rescues, withdrawn requests, hands on the guests, failing reads, silences and wakes, host losses | 122 thousand | `RestoreComplete` `MorningComes` |
| `live` | no sun, fairness; failing reads, starts and silences, probes out of date, restarts of watchdog and nut-dog, hands on the button | 195 thousand | `ShedLands` `EveningShed` |
| `selfservice` | two users, three clicks, one GPU; stale views, a Proxmox or GPUs that cannot be read, failing saves and starts, restarts, host losses, hands | 1.96 million | `TypeOK` `LostOnlyByOverlap` `OneRequestPerGPU` `ShutDownStaysDown` `GpuRespected` |
| `upkeep` | a broken job, a flaky Alertmanager, hands on the jobs; full and alert-only; fairness | 226 thousand | `TypeOK` `HandDisableStands` `CommentKept` `CoverageLasts` `NoGap` `AlertsReturn` `OthersCovered` `JobsFollow` |
| `migration` | three targets; refusals, lost posts, timeouts, failed listings, guests moved back; fairness | 161 thousand | `TypeOK` `TriedEverywhere` `Evacuates` `EventuallyGone` |
| `surplus_in_flight` | sun comes and goes | violation | `NoStartOnDyingHost` |
| `called_off` | no sun, fairness | violation | `EveryEveningShed` |
| `half_shed` | no nut-dog, sun, holds, a failing stop | violation | `MorningComes` |
| `rescue_undone` | no sun; a power request without an answer, a press | violation | `RescueLeavesNoOff` |

What they show:

- **decide.** A power-off is never decided over a running desktop VM or an
  unserved request; every request is acted on in the tick that reads it, unless
  p1 is going down or the mode must be corrected first; a request whose VM was
  seen is not served again; a hold pins the signal completely; minRuntime defers
  a shed and changes nothing else; an off is not followed by a wake, nor a wake by
  an off, under the same sun. `Decision` is one step long, so it stops: deadlock
  is not checked in this run only.
- **night.** The off is remembered although requests time out, taken by nut-dog or
  not, and reads fail (`ShedRemembered`), and the loop never replaces it
  (`OffStands`). Whenever it is ordered, and whenever a later tick says it again,
  alerts are silenced, critical guests are away, and the stop class is down or in a
  stop task's hands (`OffComesLast`). No off is ordered or said again against a
  request made before the last look that ordered it (`RescueWindow`; `late` holds
  those who pressed after that look, for as long as the off stands). What the property
  does not say is that a press found by the look of a *retry* saves p1: after an off
  without an answer it does not (`rescue_undone`). A VM that was seen up is not
  started again although its user shut it down, across modes and skipped saves
  (`SeenStaysServed`). No nudge and no earlier request, of this user or the other,
  costs a request its three tries, an interval apart (`BudgetLasts`). A session has its whole grace window against the order and
  against a restate (`GraceHonoured`). And all the loop, nut-dog and the host do
  to the power is what `PowerOwner` allows (`OwnsPower`).
- **faults.** `off` is new to nut-dog only for a shed that is being decided, or was
  and has not landed, or has landed where no tick could see it (`OffNeverInferred`),
  whoever restarts in between, nut-dog included: a crash can make the loop forget an
  off, never invent one. The third case is not a licence: `unread` ends with the first
  tick that looks at a p1 that is off, and section 7 says what it costs. A p1 that is
  up is believed down only if the loop means it to be, or nut-dog's probe is older
  than p1's boot, or two readings in a row were left without an answer
  (`PartitionTolerated`). The history variables `upFor` and `doubts` say what is true
  of p1; `streak` and `probe` are what the loop has. The first tick after a wake is
  excepted, for the streak of the outage before it is still there (section 7).
- **direct.** With the mode back to `running`, every stop-class guest runs and no
  stop task of an interrupted shed is left to take one down again
  (`RestoreComplete`). With sun enough, p1 comes back from anything in this run
  (`MorningComes`; its premise is that the host is lost, and a wake fails, finitely
  often, and that the off hold is lifted some day).
- **live.** A shed that was ordered lands, through blind ticks and a forgetful
  nut-dog (`ShedLands`). After the last session p1 is eventually off for good,
  unless a shed was called off (`EveningShed`; see section 7 for the exception).
  Both hold although an unreachable Alertmanager ends ticks early and the watchdog is
  restarted in mid-shed. The premise of `EveningShed` is that presses, hands on the
  button and crashes end some day: each of them may set the loop back to its start, for
  ever if it happens for ever.
- **selfservice.** A click is lost only when two handlers overlap, never through a
  failed save, a restart or the loop (`LostOnlyByOverlap`). A VM shut down in the page
  is not started again by the request that was served, unless somebody asks again, be
  it between the withdrawal and the power call, or an overlapping handler wrote that
  request back, or the VM was asked for anew in the very second of the request that is
  gone (`ShutDownStaysDown`). Two VMs never have a request each outstanding for one
  GPU (`OneRequestPerGPU`). This is about the stored requests, not about the copy a
  handler judges: a tick may serve, forget or give up on a request between a handler's
  check and its save, and none of that revives the other one. Its exceptions:
  overlapping handlers (a start saved while this one was between its read and its
  save; the later save then drops the earlier request), GPUs not yet read, and
  requests that a restart revives. And no start is accepted against a VM that has been
  up on the GPU for longer than a view lives (`GpuRespected`).
- **upkeep.** No call and no failure ends the coverage of an alert (`NoGap`); it
  outlives the watchdog (`CoverageLasts`); one Alertmanager that fails does not
  keep another from being silenced (`OthersCovered`); and once p1 is back nothing of
  ours is left anywhere (`AlertsReturn`). Jobs follow p1, past a job that cannot be
  set (`JobsFollow`). What people did to a job stands (`HandDisableStands`,
  `CommentKept`), also when it falls into a reconcile that has listed the job and means
  to leave it; a job that is about to be set is the exception (section 7).
- **migration.** What a call reports is true although tasks outlive it
  (`Evacuates`, the refinement); which targets a failed call has tried
  (`TriedEverywhere`, a bound the shifting index just keeps); and a target with room
  for all empties p1 in the end (`EventuallyGone`).

Where a property needs a calmer world than the run it could be in, the reason is
in the code, not in the size of the state space:

- `NoStartOnDyingHost` needs that only the loop takes p1 down (no `hostLoss`: the
  loop cannot know of a UPS shed before it reads it) and no surplus (section 7).
- `ShedRemembered` and `OffStands` need no partition and no failed wake: a tick
  that believes p1 down clears `askedOff` (266), and `wake` clears it before its
  request is known to have arrived (936).
- `SeenStaysServed` and `GraceHonoured` need saves and silences that work: a
  marker or a clock that was not saved is not there (317-320 end the tick first).
- `OffComesLast` and `GraceHonoured` with lost requests need an unbroken deficit. After
  an off without an answer `askedOff` is set and the mode is not: a loop that then
  changes its mind (the light is neutral, the sun is back, p1 has just booted) takes
  the silences down, restores or adopts a session, and says off all the same.
- `RestoreComplete` excludes a guest that refuses to start or a task that hangs
  (`wedge`): the code gives up and says so.

## 5. Fairness

`FairSpec` adds, for each thing that certainly goes on:

- `WF(Loop)`: `Run` reconciles on a ticker until the process ends, and every wait
  in it has a timeout.
- `WF(ReadIntent)`: an outage of what a tick reads ends some day. Without it a
  loop that never sees anything would be fair.
- `WF(StopTaskStep)`, `WF(Booted)`, `WF(ShutDown)`: Proxmox works its task off,
  and a host that boots or shuts down gets there (each guest of a bulk
  stop has `stopTimeout`, after which the task gives it up).
- `SF(NutDogPoll)`: nut-dog polls its request every few seconds. Strong, because
  its restarts empty the slot for a while, and the loop restates the wish each
  tick: between two restarts it polls at least once.
- `SF(Apply)`: an Alertmanager outage ends some day. Strong, because other ticks
  come and go between two that get as far as the silences.
- `WF(Tick)`: time passes.

`Upkeep`'s `FairSpec` has `WF(Loop)` and `WF(Tick)` for the same reasons, and
`SF(List)`: Proxmox answers the listing of the jobs now and then, though not always.
No call to a flaky Alertmanager, and no PUT of a broken job, is ever assumed to
succeed. `Migration`'s has `WF(Loop)` and, per guest, `WF(Task)`: a migration that
Proxmox has begun ends, in success or not; `EventuallyGone` also assumes a last
mishap (`Calm`), for a node that refuses a guest for ever keeps it.

No fairness is given to users, to failures or to repairs by hand, and none to a
single branch of the loop other than reading and the silences: a call that may
fail may fail every time. (`stop`, `request` and `migrate` failures are therefore
not in the liveness runs: a stop that fails for ever does keep p1 up.)

## 6. What is proved

TLAPS proves, for every value of the constants that satisfies the named
assumptions (`BandAssumption`, `ClassesAssumption` and `DurationsAssumption` in `Decide`,
`InputsAssumption` in `Decision`, `InstanceAssumption` in `Watchdog`,
`UsersAssumption` in `SelfService`, `MigrationAssumption`, `JobsAssumption`,
`SilencesAssumption`, `SetupsAssumption`): any number of guests, users, targets, jobs
and Alertmanagers, any durations, any thresholds.

| Theorem | States |
|---|---|
| `DecisionTyped` | `Spec => []TypeOK`: every plan is one that execute can carry out |
| `UsersSpared` | `Spec => []PowerOffSparesUsers` |
| `RequestsAnswered` | `Spec => []RequestAnswered` |
| `RequestsSpent` | `Spec => []ServedOnce` |
| `HoldsPin` | `Spec => []HoldsPinTheSignal` |
| `MinRuntimeDefers` | `Spec => []MinRuntimeOnlyDefers` |
| `PowerDoesNotFlap` | `Spec => []NoThrash` |
| `TypeCorrect` | `Spec => []TypeOK` of `Watchdog`, all faults and moves allowed |
| `ShedIsRemembered` | `Spec => []ShedRemembered` |
| `OffIsNeverTakenBack` | `Spec => OffStands` |
| `PowerIsOwned` | `Spec => OwnsPower`: `Watchdog` implements `PowerOwner` |
| `BudgetIsKept` | `Spec => []BudgetLasts` |
| `OffIsLast` | `Spec => OffComesLast` |
| `MorningIsComplete` | `Spec => RestoreComplete`, without nut-dog |
| `NobodyStartsOnADyingHost` | `Spec => []NoStartOnDyingHost`, without a surplus |
| `OffIsDecided` | `LandingsSpec => OffNeverInferred`, all faults and moves allowed |
| `PartitionIsTolerated` | `SightingsSpec => PartitionTolerated`, all faults and moves allowed |
| `RescueInTime` | `HistorySpec => RescueWindow` |
| `GraceIsHonoured` | `HistorySpec => GraceHonoured` |
| `SeenIsServed` | `HistorySpec => SeenStaysServed` |
| `TypeCorrect`, `MigrationEvacuates`, `EverywhereIsTried` | `[]TypeOK`, `Evacuates`, `[]TriedEverywhere` of `Migration` |
| `TypeCorrect`, `ClicksSerialise`, `RequestsShareNoGPU`, `GpuIsRespected`, `ShutDownIsFinal` | `[]TypeOK`, `[]LostOnlyByOverlap`, `[]OneRequestPerGPU`, `GpuRespected`, `ShutDownStaysDown` of `SelfService` |
| `JobsAreTheirOwners`, `CommentsAreKept` | `[]HandDisableStands`, `[]CommentKept` of `Upkeep` |
| `TypeCorrect`, `CoverageOutlivesUs`, `CoverageHasNoGap` | `[]TypeOK`, `[]CoverageLasts`, `NoGap` of `Upkeep` |
| `OverlapIsExact`, `ClassesAreApart` | the id sets: no overlap is missed or invented, and validate gives `ClassesAssumption` |

*Decision.* The inductive invariant `IInv` says that the input is a snapshot and
that a decision taken is `Decide` of it. All properties then are facts about
`Decide`, proved case by case on the mode with three lemmas: `DecideType` (a plan is
well formed), `PlanMarkers` (which requests it marks as spent) and `PowerOffCause`
(what must hold for a plan to power off).

*Watchdog.* `TypeCorrect` is the invariant itself with one step per action.
`ShedRemembered` is not inductive: an action that ends `inFlight` or clears
`askedOff` must know where the host is. `ShedInv` adds that a shed in flight means a
host that is still online, so that a tick that reads p1 down correctly has
`inFlight` false by then. The assumptions `"offline" \notin Faults` and
`"on" \notin Faults` are in the theorem: with a partition or a failed wake the
code does forget (section 4), and TLC shows it. Every other fault, a crash
included, may happen. `OffStands` follows from `ShedInv` and the step it is about.
`PowerIsOwned` maps every action to a step of `PowerOwner` or a stutter, from `ShedInv`
and two lemmas on what is said (`WishIsSaid`, `OwnerStep`); besides a partition
and a failed wake it excludes what moves p1 from outside (`"handOn"`,
`"hostLoss"`). `BudgetIsKept` needs to know that the failures counted against a
request happened an interval apart and within its life: `BudgetInv`.

*Watchdog, step by step.* What a tick does after it decided depends on the plan it
carries and on where in it it is. `PlanInv` says that once for all the theorems
below: inside a tick the plan is one `Decide` makes of some snapshot with this mode
(`PlanFits`, with the lemmas `PlanShape`, `StartShape` and `ClockShape` on
`Decide`), and a `pc` is only reached by a plan that asks for it (`Asks`). It and
`NothingRunsDark` (nothing runs on a host that is off or booting) hold with
every fault and every move.

- `OffIsLast` follows from `Posture`: in every mode but running, p1 is cleared of
  the two classes but for what a stop task holds; inside a tick that sheds, what is
  left is exactly what the plan still has to move or stop. Gaming powers off without
  moving or stopping anything, so this needs that a restore is saved with its mode:
  either there is none (`NoSun`) or saves do not fail and the watchdog does not
  crash, which is the hazard at 526. It also needs that nobody else puts such guests
  on p1 (`ClassesAreOurs`; a look and a call are not one step) and no partition,
  during which p1 is not cleared and the mode becomes shed. The offs that are said
  *again* need more. Either none is lost (no failing request, no restart of nut-dog):
  then nut-dog has the remembered off (`OffKept`) and no restate puts a new one there.
  Or the deficit is unbroken (`AlwaysDeficit`): then p1 keeps the posture for as long as
  an off is remembered (`OffPosture`, with `Emptied` for a shed that failed half way).
  `AlwaysDeficit` also takes the place of what is asked of saves and crashes.
- `MorningIsComplete` follows from `Morning`: a stop task is waited for or remembered
  (`pendingStop`), and a restore about to be saved is complete or the host has gone.
  It needs that the loop itself holds the switch: with nut-dog p1 may go down and
  come back between restore and save, for an off that was still on its way. A stop
  that fails leaves mode running behind (`half_shed`), a crash forgets `pendingStop`,
  and the code gives up on a guest that refuses to start or a task that hangs.
- `NobodyStartsOnADyingHost` follows from `Dying`: p1 goes down only by an off that
  is remembered, nut-dog's slot never contradicts a remembered off while p1 is
  down, and who is about to start or wake remembers none. With a surplus it is
  false (`surplus_in_flight`), so `NoSun` is an assumption.
- `OffIsDecided` follows from `OffAccounted`: a remembered off has not landed, or has
  where no tick has looked since (`unread`). It assumes nothing of faults and moves:
  `Landings` says itself when a landing could not be seen.
- `PartitionIsTolerated` follows from `SightingsInv`, which relates what the loop and
  nut-dog have to what there was to see: a probe that says down is at least as old as
  p1 has been up, and the streak counts no more than the doubts in a row, unless the
  last to see p1 up was a wake (`met`). It assumes nothing either.

*Watchdog, with its users.* `HistoryRefinesSpec` says that `WatchdogHistory` is
`Watchdog`, so what is proved of the one is used for the other.

- `RescueInTime` follows from `RescueInv`. `Rescued` says that while an off is about to
  be sent, or is remembered, neither state.json nor the plan leaves a request to serve
  that was there at the look that ordered it. A remembered off outlives its tick, so
  later ticks must not undo that: they start nothing (`StartsFree`), a shed keeps every
  marker (`ShedKeepsMarkers`), and what they have read of the intent is what was asked
  (`ReadsAsked`). A look that cannot read the intent goes on with the shed, as the code
  says it does, so `"intent"` is not among the faults. That is the only assumption.
- `GraceIsHonoured`: `GraceInv` relates three clocks, the saved one, the planned one and
  the last sight of a gaming guest. Between a sight and the save of what it means, the
  saved clock may run ahead: a tick that ends there (a failed silence or save, a
  crash) loses the reset. For the offs said again it has the two ways of `OffIsLast`:
  none is lost, or the deficit is unbroken and only the loop starts desktop VMs. In the
  second, `DeficitInv` says that the last session is longer ago than the window for as
  long as an off is remembered (`LongAgo`).
- `SeenIsServed`: `SeenInv` says that a VM seen up has its marker saved, or carried by
  the tick under way. A failed silence or save would end that tick without it, and so
  would a crash; they are excluded. In mode running a failed migration or stop would
  too, and the theorem has two ways around that. Either the calls of a shed get
  through and p1 is not lost: then `RunningIsUp` says that a tick that sees p1 up and
  sheds finds it up until it saves. Or there is only deficit (`AlwaysDeficit`) and only
  the loop starts desktop VMs, all other calls failing at will: then `NobodyPlays`
  says that no VM is up while p1 is cleared. With neutral light and failing stops
  neither holds: the loop starts a VM, stays in mode running, and loses the marker
  when the next tick has to shed and cannot.

*Migration.* `NoneForgotten` says that whoever of the call's guests has left the
list is off p1 or was moved back by hand, so an empty read-back means success.
`Walked` says which targets a guest still in the list has been dealt: its place has
dropped by the guests before it that left, and the round has risen. The rest is
arithmetic modulo the number of targets, in lemmas of their own (`Division` to
`MovesUp`).

*SelfService.* `Serial`: without overlap the intent is what the clicks mean, and the
copy of every handler under way is the intent. `ViewKnows`: a view that is fresh and
could be read has every VM that has been running for longer than a view lives.
`RequestsShareNoGPU` follows from two. `Ledger`: a request that the loop has given up
on is never newer than the one in the intent, so a start checked while it was given up
on is not run into by it later. `Apart`: what a handler has found free stays free until
its save. `ShutDownIsFinal` needs two more, both until a stale copy is written back and
not for a VM asked for twice in a second (`rushed`).
`Books`: the markers, the request a tick has read and the marker it is about to save
are never ahead of the request in the intent, and a request that is marked is
neither given up on nor about to be started. `Withdrawn`: between the two steps of
a withdrawal its request stays spent, and after the second it is gone and no tick
that lags behind will act on it. The proof found what the run did not with one user
per VM: a start accepted between the withdrawal and the power call is somebody
asking again, so `served` ends with it. `Asked # {}` is assumed throughout: an idle click
names some VM.

*Upkeep.* `ListingInv`: no job that people hold disabled is one this reconcile still
writes (`Writes`), and the comment listed is still the job's own where people have not
touched it since. `CoverInv`: while an Alertmanager is walked, each duplicate has a
better one beside it, nothing desired is up for retirement, what need not be
created has its time to run, and what must be is indeed fading; each is disturbed
by exactly the calls that come later, which is why creating comes first.

Only model-checked: the liveness properties (`MorningComes`, `ShedLands`,
`EveningShed`, `AlertsReturn`, `OthersCovered`, `JobsFollow`, `EventuallyGone`), for
fairness and ENABLED are outside the prover's reach. Every invariant and every action
property of a passing run is also a theorem. Where a theorem assumes something of
`Faults`, `Env` or `Holds`, the run that checks its property meets it, and the
assumptions are on the instance, never on a reachable state.

## 7. Disagreements found

Each is a run that TLC ends in a violation.

1. **`surplus_in_flight`** (decide.go:217). In mode shed a surplus plans a wake and a
   restore without looking at `ShedInFlight`, and `wake` clears `askedOff`. p1 still
   reads online, so the wait for it ends at once: guests are restored, the mode
   becomes running, and the next tick starts a requested VM on a host that is going
   down. decide.go:35-38 says nothing may be planned until the shed lands.
2. **`called_off`** (controller.go:477). A shed called off for a request saves mode
   shed with p1 up and leaves the session to the next tick. When the request is gone
   by then (withdrawn through the UI's Stop, say), mode shed plans nothing for a p1
   that is up: it stays up all night. `CalledOff` names that state.
3. **`half_shed`** (controller.go:468). A stop phase that fails after guests went down
   leaves mode running. If the sun is back in the next tick, nothing starts them:
   README.md:56 promises a restore whoever took them down.
4. **`rescue_undone`** (controller.go:957-959, 979, 506-508). `powerOff` sets `askedOff`
   before its request is sent. If that request has no answer, the next tick runs the shed
   again with `askedOff` set. A press found by the last look of this retry is honoured -
   mode shed is saved, the log says "leaving p1 up" - but `askedOff` stays: every later
   tick restates off and starts nothing, and p1 goes down under its user.
   shedwindow_test.go:110-111 and 324-325 call `askedOff` after a rescue "the power-off
   went out despite a live request", and README.md:182-184 says a request before the
   power-off is sent cancels it outright. (shedwindow_test.go:396-399 wants a failed
   power-off restated; no test has both.)

The comment at controller.go:40-44 accepts the state of 2 for a restart of the
watchdog within a shed; the run needs no restart.

Other behaviours met while modelling, which the properties name as exceptions or the
hazards note:

- Every change of mind after an off without an answer leaves `askedOff` set, not only a
  rescue: a loop that adopts a session or restores in the sun says off all the same
  (1005), with the silences down again. `OffIsLast` and `GraceIsHonoured` exclude it.
- An off ends only in a tick that has read p1 down (266). If p1 goes off by our shed and
  is started by hand before such a tick - the ticks since were blind, or the one that
  ordered the off is still at its save - nut-dog takes it down once more, although
  "a later hand-start must not be shut back down". `unread` in `OffNeverInferred` is
  that case, and bounds it.
- Nothing resets the streak of doubted readings on the way from a believed outage through
  a wake (607): the first tick after it believes one reading, where `nodeDownConfirm`
  (551-553) wants two in a row. `met` in `PartitionTolerated` is that case.
- `migrateAll` deals target `(i + round) % n` to the i-th guest that is *left* (701). When
  guests before it have gone, a guest slides down as fast as the round shifts, and is
  sent to the same full target again: the call fails although a target with room was
  never tried, where 693-694 and README.md:278-279 promise the next one.
  `TriedEverywhere` is what does hold, and `EventuallyGone` says that later ticks mend it.
- A hand on a replication job between listing and PUT is undone, and a job disabled then
  is claimed, so that it is switched on when p1 is back (1085): the exceptions of
  `HandDisableStands` and `CommentKept`.
- An overlapping handler can write a withdrawn request back, so that a VM shut down in
  the page starts again (`overlapped` in `ShutDownStaysDown`), and the later save of two
  drops the other's request (`LostOnlyByOverlap`).
- `RequestedAt` has a resolution of one second (server.go:397): a VM asked for, withdrawn
  and asked for again within one counts as served, or given up on, at once (`rushed`).
- After a restart with p1 off no GPU is known and two requests for one are accepted
  (`unchecked` in `OneRequestPerGPU`).
- A crash or a failed save after a restore leaves mode gaming, whose power-off skips
  the migration and the stop (526).
- A negative gamingGrace or freshBootWindow passes validate (402), which
  `DurationsAssumption` excludes.

## 8. What is not modelled

- *Authentication and the page* (auth.go, page.go): sessions and HTML, no state
  shared with the loop. What `authorise` decides is `Allowed` and `Admins` in
  `SelfService`.
- *Prometheus, metrics, `main.go`, `cmd/fakecluster`*: queries, gauges, wiring, and a
  stand-in for development. Their results are inputs here, or nothing reads them.
- *The HTTP clients* (Proxmox, nut-dog, Alertmanager, the API server): requests and
  parsing are I/O; their answers are inputs, their failures are `Faults`,
  `Disturbances`, `Flaky` and `Broken`.
- *The back ends of the store*: a save is one step that may fail. The temporary file
  of `FileStore`, whose name concurrent handlers share, and the patch-or-create of
  `ConfigMapStore` are listed as hazards.
- *Configuration*: defaults and required fields. The id sets are in `IdSets`; a
  YAML list is a sequence of entries there, not text.
- *dryRun `log`* makes none of the calls, and *`alert`* none but the silences and
  jobs (`Upkeep`); their branches are in the actions of `Watchdog` and no run of the
  loop sets them.

## 9. The plan

What would come next, in this order:

1. `Store`: the two keys of the ConfigMap as two registers, the first write of each
   racing to create the map, implementing the one-step save used here.
2. The composition of `Watchdog` and `SelfService` with both the phases of a shed and
   overlapping handlers, on an instance small enough to check.
3. Proofs: weaker assumptions for `MorningIsComplete` (nut-dog, with an off on its way
   excluded by an invariant instead) and for `SeenIsServed` (one hypothesis for its
   two: a failed call loses the marker only if it hits the tick that saw the VM).

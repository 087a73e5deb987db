------------------------------ MODULE Watchdog ------------------------------
(***************************************************************************)
(* The reconcile loop (internal/controller/controller.go) against the host *)
(* p1 it manages, Proxmox, nut-dog's power request, the self-service       *)
(* requests of the users, and whoever else touches the host.               *)
(*                                                                         *)
(* One reconcile is cut where the code waits for a remote answer, so that  *)
(* everything else in the system may move between two of its steps: pc     *)
(* names the next call of the loop, snap is what observe() read and plan   *)
(* what Decide() made of it.                                               *)
(*                                                                         *)
(* Simplifications.                                                        *)
(*  - Ages instead of timestamps (module Decide); Tick is one time unit,   *)
(*    which is also the reconcile interval of the start budget.  What is   *)
(*    recorded within one unit carries one timestamp, as what the code     *)
(*    records within one second does.                                      *)
(*  - The loop may reconcile again at once: the ticker and the API's nudge *)
(*    are not told apart.                                                  *)
(*  - Readings of the sun and of the manual hold are chosen anew by every  *)
(*    tick.                                                                *)
(*  - The bulk migration is one step (its rounds are module Migration);    *)
(*    silences and replication are one flag each.                          *)
(***************************************************************************)
EXTENDS Decide, FiniteSets

CONSTANTS
    Readings,       \* the [surplus, soc] readings Prometheus may return
    Holds,          \* manual holds in force: a subset of {"none", "off", "on"}
    DryRun,         \* config.DryRun: "log", "alert" or "full"
    Delegated,      \* powerAPI is configured: nut-dog owns the power switch
    ReportsUptime,  \* the token has Sys.Audit, so /nodes carries an uptime
    NoAutostart,    \* guests tagged en_no-autostart
    Faults,         \* the calls that may fail in this instance, see FaultKinds
    Env,            \* the moves others may make in this instance, see EnvKinds
    Touched,        \* the guests others start and stop by hand
    ProbeMaxAge     \* how old nut-dog's probe of p1 may be to count

FaultKinds ==
    {"observe", "offline", "probe", "stale", "silence", "replication", "request",
     "on", "migrate", "stop", "wedge", "intent", "start", "readback", "save"}
EnvKinds ==
    {"press", "uiStop", "guestStop", "guestStart", "moveBack", "autostart",
     "handOn", "hostLoss", "dogRestart", "crash"}

ASSUME InstanceAssumption ==
    /\ \A r \in Readings : r.surplus \in Int /\ r.soc \in Int
    /\ Holds \subseteq {"none", "off", "on"}
    /\ DryRun \in {"log", "alert", "full"}
    /\ Delegated \in BOOLEAN /\ ReportsUptime \in BOOLEAN
    /\ NoAutostart \subseteq Guests
    /\ Faults \subseteq FaultKinds /\ Env \subseteq EnvKinds
    /\ Touched \subseteq Guests
    /\ ProbeMaxAge \in Nat

Full == DryRun = "full"
StartFailLimit == 3
NodeDownConfirm == 2
Interval == 1                 \* the reconcile interval, in time units
UptimeCap == FreshBootWindow + MinRuntime  \* uptime saturates where no rule looks

VARIABLES
    mode, grace, done,   \* state.json: State.Mode, GraceSince, WakeDone
    wake,                \* intent.json: the age of the request for each VM
    askedOff, streak, pendingStop, fails,  \* the Controller's own fields
    pc, snap, plan,      \* where the running reconcile is
    host, uptime,        \* p1's power and its uptime as Proxmox reports it
    onNode, running,     \* guests hosted on p1, and the running ones
    stopTask,            \* guests a bulk stop task has yet to shut down
    req,                 \* the wish in nut-dog's memory
    silenced, replOff,   \* our silences are up; replication into p1 is disabled
    probe,               \* what nut-dog last found of p1, and how long ago
    inFlight             \* history: we ordered an off and p1 has been online since

persisted == <<mode, grace, done>>
memory == <<askedOff, streak, pendingStop, fails>>
tick == <<pc, snap, plan>>
p1 == <<host, uptime, onNode, running, stopTask>>
remote == <<silenced, replOff, probe>>
vars == <<persisted, wake, memory, tick, p1, req, remote, inFlight>>

Online == {"up", "goingDown"}   \* Proxmox calls a node that shuts down online

NoFail == [tries |-> 0, of |-> Never, last |-> Interval]
NoAges == [v \in Asked |-> Never]
NoSnap == [up |-> FALSE, hold |-> "none", wake |-> NoAges]
NoProbe == [actual |-> "unknown", age |-> ProbeMaxAge + 1]
NoPlan == [migrate |-> {}, stop |-> {}, restore |-> FALSE, start |-> {},
           poweroff |-> FALSE, wake |-> FALSE,
           next |-> "running", grace |-> Stopped, done |-> NoAges]

Steps == {"idle", "observe", "apply", "migrate", "stop", "stopping", "wake",
          "waking", "start", "restore", "recheck", "poweroff", "save"}

TypeOK ==
    /\ mode \in Modes /\ grace \in Clocks /\ done \in [Asked -> Ages]
    /\ wake \in [Asked -> Ages]
    /\ askedOff \in BOOLEAN /\ pendingStop \in BOOLEAN
    /\ streak \in 0 .. NodeDownConfirm
    /\ fails \in [Asked -> [tries : 0 .. StartFailLimit, of : Ages, last : 0 .. Interval]]
    /\ pc \in Steps
    /\ snap \in [up : BOOLEAN, hold : {"none", "off", "on"}, wake : [Asked -> Ages]]
    /\ plan \in Plans
    /\ host \in {"off", "booting", "up", "goingDown"}
    /\ uptime \in 0 .. UptimeCap
    /\ onNode \subseteq Guests /\ running \subseteq onNode /\ stopTask \subseteq Guests
    /\ req \in {"none", "on", "off", "hold"}
    /\ silenced \in BOOLEAN /\ replOff \in BOOLEAN /\ inFlight \in BOOLEAN
    /\ probe \in [actual : {"up", "down", "unknown"}, age : 0 .. ProbeMaxAge + 1]

(* A first start: no state.json yet, and p1 in whatever shape it is. *)
Init ==
    /\ mode = "running" /\ grace = Stopped /\ done = NoAges /\ wake = NoAges
    /\ askedOff = FALSE /\ streak = 0 /\ pendingStop = FALSE
    /\ fails = [v \in Asked |-> NoFail]
    /\ pc = "idle" /\ snap = NoSnap /\ plan = NoPlan
    /\ onNode = Guests /\ stopTask = {} /\ req = "none"
    /\ silenced = FALSE /\ replOff = FALSE /\ inFlight = FALSE /\ probe = NoProbe
    /\ \/ /\ host = "up" /\ running = Guests \ GamingGuard
          /\ uptime = IF ReportsUptime THEN UptimeCap ELSE 0
       \/ host = "off" /\ running = {} /\ uptime = 0

-----------------------------------------------------------------------------
(* Requests and the start budget.                                          *)

(* retired: w has had its tries.  A newer request is a new ask. *)
retired(v) == fails[v].of = wake[v] /\ fails[v].tries >= StartFailLimit

(* requestedWake: the live requests inside the gaming guard, not given up on. *)
requestedWake ==
    [v \in Asked |-> IF v \in GamingGuard /\ ~retired(v) THEN wake[v] ELSE Never]

(* Mutant: the request list of the snapshot is used again. *)
wakeRequestedThen ==
    \E v \in Asked : Live(snap.wake[v]) /\ snap.wake[v] < plan.done[v]

(* wakeRequestedNow: re-read from the store, judged by the plan's markers. *)
wakeRequestedNow ==
    \E v \in Asked : Live(requestedWake[v]) /\ requestedWake[v] < plan.done[v]

(* Mutants of CountFailure: every tick counts, nudged or not; what an older *)
(* request failed at counts against the new one.                            *)
CountFailureNudged(v) ==
    LET f == IF fails[v].of # snap.wake[v] THEN [NoFail EXCEPT !.of = snap.wake[v]]
                                           ELSE fails[v]
    IN  IF f.tries = StartFailLimit THEN f ELSE [f EXCEPT !.tries = f.tries + 1, !.last = 0]
CountFailureInherited(v) ==
    LET f == [fails[v] EXCEPT !.of = snap.wake[v]]
    IN  IF (f.tries > 0 /\ f.last < Interval) \/ f.tries = StartFailLimit
        THEN f
        ELSE [f EXCEPT !.tries = f.tries + 1, !.last = 0]

(* recordStartFailure: one try per interval counts, keyed on the request. *)
CountFailure(v) ==
    LET f == IF fails[v].of # snap.wake[v] THEN [NoFail EXCEPT !.of = snap.wake[v]]
                                           ELSE fails[v]
    IN  IF (f.tries > 0 /\ f.last < Interval) \/ f.tries = StartFailLimit
        THEN f
        ELSE [f EXCEPT !.tries = f.tries + 1, !.last = 0]

-----------------------------------------------------------------------------
(* Power requests to nut-dog.                                              *)

(* requestPower where the error is only logged: the request may not arrive. *)
Wish(desired) ==
    \/ req' = desired
    \/ "request" \in Faults /\ req' = req

(* Mutants of powerWish: a shed in flight is not restated once the mode is *)
(* shed; the wish is inferred from the mode.                               *)
powerWishForgetful == IF plan.next # "shed" /\ snap.up THEN "on" ELSE "hold"
powerWishByMode == IF plan.next = "shed" THEN "off" ELSE "on"

(* powerWish *)
powerWish ==
    IF askedOff THEN "off"
    ELSE IF plan.next # "shed" /\ snap.up THEN "on"
    ELSE "hold"

(* Mutant: a blind tick always says hold. *)
HoldPowerAlways ==
    IF Delegated /\ Full THEN Wish("hold") ELSE UNCHANGED req

(* holdPower: what the loop says when it cannot decide. *)
HoldPower ==
    IF Delegated /\ Full THEN Wish(IF askedOff THEN "off" ELSE "hold")
    ELSE UNCHANGED req

-----------------------------------------------------------------------------
(* The order of execute(): each operator names the first step still needed. *)

AfterRestore(p) == IF p.poweroff THEN "recheck" ELSE "save"
\* Mutant: the restore is skipped.
AfterStartUnrestored(p) == AfterRestore(p)
AfterStart(p) == IF p.restore THEN "restore" ELSE AfterRestore(p)
AfterWake(p) == IF p.start # {} THEN "start" ELSE AfterStart(p)
AfterStop(p) == IF p.wake THEN "wake" ELSE AfterWake(p)
\* Mutant: a shed that powers off leaves the stopping to the shutdown.
AfterMigrateUnstopped(p) == IF p.stop # {} /\ ~p.poweroff THEN "stop" ELSE AfterStop(p)
AfterMigrate(p) == IF p.stop # {} THEN "stop" ELSE AfterStop(p)
FirstStep(p) == IF p.migrate # {} THEN "migrate" ELSE AfterMigrate(p)

EndTick == pc' = "idle" /\ snap' = NoSnap /\ plan' = NoPlan
Continue(step) == pc' = step /\ UNCHANGED <<snap, plan>>

-----------------------------------------------------------------------------
(* observe(), confirmDown() and apply().                                   *)

(* A read failed: the tick is skipped, and only the power wish goes out. *)
ObserveFails ==
    /\ pc = "idle" /\ "observe" \in Faults
    /\ HoldPower
    /\ UNCHANGED <<persisted, wake, memory, tick, p1, remote, inFlight>>

(* The store is read first; the cluster is read after it. *)
ReadIntent ==
    /\ pc = "idle"
    /\ \E h \in Holds : snap' = [NoSnap EXCEPT !.hold = h, !.wake = requestedWake]
    /\ pc' = "observe"
    /\ UNCHANGED <<persisted, wake, memory, plan, p1, req, remote, inFlight>>

(* What Proxmox reports: a partitioned p1 reads offline. *)
ReadsOnline(up) == up = (host \in Online) \/ (~up /\ "offline" \in Faults)

Observed(reading, up) ==
    [surplus |-> reading.surplus, soc |-> reading.soc,
     up |-> up, uptime |-> IF up THEN uptime ELSE 0,
     running |-> IF up THEN running ELSE {},
     mode |-> mode, grace |-> grace,
     shed |-> snap.hold = "off", on |-> snap.hold = "on",
     inFlight |-> askedOff, wake |-> snap.wake, done |-> done]

Decided(up) ==
    /\ \E reading \in Readings : plan' = Decide(Observed(reading, up))
    /\ snap' = [snap EXCEPT !.up = up]
    /\ pc' = "apply"

ReadUp ==
    /\ pc = "observe" /\ ReadsOnline(TRUE)
    /\ streak' = 0
    /\ Decided(TRUE)
    /\ UNCHANGED <<persisted, wake, askedOff, pendingStop, fails, p1, req, remote, inFlight>>

(* What a probe of p1 finds: it answers for itself, whatever the cluster    *)
(* says of it, and while it shuts down it may or may not.                   *)
Probed(actual) ==
    CASE host = "up" -> actual = "up"
      [] host = "goingDown" -> actual \in {"up", "down"}
      [] OTHER -> actual = "down"

(* Mutant: a probe counts however old it is. *)
ProbeAgeless(actual) ==
    \/ actual = "unknown" /\ (~Delegated \/ "probe" \in Faults)
    \/ Delegated /\ "stale" \notin Faults /\ Probed(actual)
    \/ Delegated /\ "stale" \in Faults /\ actual = probe.actual

(* What the loop has of nut-dog's last probe; unusable answers - none at    *)
(* all, or one that is too old - all read "unknown".  The probe is current  *)
(* where nut-dog's own loop is not among the faults.                        *)
Probe(actual) ==
    \/ /\ actual = "unknown"
       /\ ~Delegated \/ "probe" \in Faults \/ ("stale" \in Faults /\ probe.age > ProbeMaxAge)
    \/ Delegated /\ "stale" \notin Faults /\ Probed(actual)
    \/ Delegated /\ "stale" \in Faults /\ probe.age <= ProbeMaxAge /\ actual = probe.actual

(* Both an off of ours and ModeShed expect p1 down: no corroboration asked. *)
Expected == askedOff \/ mode = "shed"

\* Mutant: Proxmox is believed at once.
confirmDownAtOnce(actual) == actual \in {"up", "down", "unknown"}
confirmDown(actual) ==
    Expected \/ actual = "down" \/ (actual = "unknown" /\ streak + 1 >= NodeDownConfirm)

NextStreak(actual) ==
    IF Expected \/ actual = "down" THEN streak
    ELSE IF actual = "up" THEN 0
    ELSE IF streak < NodeDownConfirm THEN streak + 1 ELSE streak

(* Believed: p1 is down, so is whatever of ours was still in flight there. *)
ReadDown ==
    /\ pc = "observe" /\ ReadsOnline(FALSE)
    /\ \E actual \in {"up", "down", "unknown"} :
          Probe(actual) /\ confirmDown(actual) /\ streak' = NextStreak(actual)
    /\ Decided(FALSE)
    /\ askedOff' = FALSE /\ pendingStop' = FALSE
    /\ UNCHANGED <<persisted, wake, fails, p1, req, remote, inFlight>>

ReadUnconfirmed ==
    /\ pc = "observe" /\ ReadsOnline(FALSE)
    /\ \E actual \in {"up", "down", "unknown"} :
          Probe(actual) /\ ~confirmDown(actual) /\ streak' = NextStreak(actual)
    /\ HoldPower
    /\ EndTick
    /\ UNCHANGED <<persisted, wake, askedOff, pendingStop, fails, p1, remote, inFlight>>

(* Mutants of isNoop: a marker, or the grace clock, alone is not worth a save. *)
isNoopUnmarked ==
    /\ plan.next = mode /\ plan.grace = grace
    /\ ~plan.poweroff /\ ~plan.wake /\ ~plan.restore
    /\ plan.migrate = {} /\ plan.stop = {} /\ plan.start = {}
isNoopUnclocked ==
    /\ plan.next = mode /\ plan.done = done
    /\ ~plan.poweroff /\ ~plan.wake /\ ~plan.restore
    /\ plan.migrate = {} /\ plan.stop = {} /\ plan.start = {}

(* isNoop *)
isNoop ==
    /\ plan.next = mode /\ plan.grace = grace /\ plan.done = done
    /\ ~plan.poweroff /\ ~plan.wake /\ ~plan.restore
    /\ plan.migrate = {} /\ plan.stop = {} /\ plan.start = {}

(* reconcileReplication; its error is logged, never returned. *)
Replicate(disable) ==
    \/ replOff' = IF DryRun = "log" THEN replOff ELSE disable
    \/ "replication" \in Faults /\ replOff' = replOff

(* What the silences follow: the mode in full, p1 itself in alert-only. *)
Silence ==
    silenced' = CASE Full -> plan.next # "running"
                  [] DryRun = "alert" -> ~snap.up
                  [] OTHER -> silenced

(* restatePower, skipped when the plan moves power itself. *)
Restate ==
    IF Full /\ Delegated /\ ~plan.wake /\ ~plan.poweroff THEN Wish(powerWish)
    ELSE UNCHANGED req

(* The dry-run modes persist the decision and touch nothing. *)
Apply ==
    /\ pc = "apply"
    /\ Replicate(~snap.up) /\ Silence /\ Restate
    /\ IF isNoop THEN EndTick
       ELSE Continue(IF Full THEN FirstStep(plan) ELSE "save")
    /\ UNCHANGED <<persisted, wake, memory, p1, probe, inFlight>>

(* An Alertmanager that does not answer: logged in alert-only, fatal in full. *)
ApplyFails ==
    /\ pc = "apply" /\ "silence" \in Faults /\ DryRun # "log"
    /\ Replicate(~snap.up)
    /\ IF Full THEN EndTick /\ UNCHANGED req
       ELSE Restate /\ (IF isNoop THEN EndTick ELSE Continue("save"))
    /\ UNCHANGED <<persisted, wake, memory, p1, silenced, probe, inFlight>>

-----------------------------------------------------------------------------
(* execute().                                                              *)

(* Mutant: a moved guest still counts as running on p1. *)
MigratedStale ==
    /\ pc = "migrate" /\ host \in Online
    /\ onNode' = onNode \ plan.migrate
    /\ Continue(AfterMigrate(plan))
    /\ UNCHANGED <<persisted, wake, memory, host, uptime, running, stopTask, req, remote, inFlight>>

Migrated ==
    /\ pc = "migrate" /\ host \in Online
    /\ onNode' = onNode \ plan.migrate /\ running' = running \ plan.migrate
    /\ Continue(AfterMigrate(plan))
    /\ UNCHANGED <<persisted, wake, memory, host, uptime, stopTask, req, remote, inFlight>>

(* Some guests fit nowhere, or the listing failed: the tick is given up. *)
MigrateFails ==
    /\ pc = "migrate" /\ ("migrate" \in Faults \/ host \notin Online)
    /\ \E moved \in SUBSET plan.migrate :
          onNode' = onNode \ moved /\ running' = running \ moved
    /\ EndTick
    /\ UNCHANGED <<persisted, wake, memory, host, uptime, stopTask, req, remote, inFlight>>

StopAll ==
    /\ pc = "stop" /\ host \in Online
    /\ stopTask' = stopTask \cup (plan.stop \cap running)
    /\ Continue("stopping")
    /\ UNCHANGED <<persisted, wake, memory, host, uptime, onNode, running, req, remote, inFlight>>

StopFinished ==
    /\ pc = "stopping" /\ stopTask = {} /\ host \in Online
    /\ Continue(AfterStop(plan))
    /\ UNCHANGED <<persisted, wake, memory, p1, req, remote, inFlight>>

(* wakeInterrupt: only a stop headed for a power-off is cut short.  The    *)
(* task runs on; the mode is saved and the power-off dropped.              *)
StopInterrupted ==
    /\ pc = "stopping" /\ stopTask # {}
    /\ plan.poweroff /\ wakeRequestedNow
    /\ pendingStop' = TRUE
    /\ Continue("save")
    /\ UNCHANGED <<persisted, wake, askedOff, streak, fails, p1, req, remote, inFlight>>

(* Refused, timed out, ended with a guest still up, or the read-back failed. *)
StopFails ==
    /\ \/ pc = "stop" /\ stopTask' = stopTask
       \/ pc = "stopping" /\ stopTask' \in {stopTask, {}}
    /\ "stop" \in Faults \/ host \notin Online
    /\ EndTick
    /\ UNCHANGED <<persisted, wake, memory, host, uptime, onNode, running, req, remote, inFlight>>

(* wake(): the off is forgotten before the request goes out. *)
Wake ==
    /\ pc = "wake"
    /\ askedOff' = FALSE /\ inFlight' = FALSE
    /\ IF Delegated THEN req' = "on" /\ UNCHANGED host
       ELSE host' = (IF host = "off" THEN "booting" ELSE host) /\ UNCHANGED req
    /\ Continue("waking")
    /\ UNCHANGED <<persisted, wake, streak, pendingStop, fails, uptime, onNode, running, stopTask, remote>>

(* The request without an answer: it may have arrived all the same. *)
WakeFails ==
    /\ pc = "wake" /\ "on" \in Faults
    /\ askedOff' = FALSE
    /\ \/ UNCHANGED <<req, host, inFlight>>
       \/ /\ inFlight' = FALSE
          /\ IF Delegated THEN req' = "on" /\ UNCHANGED host
             ELSE host' = (IF host = "off" THEN "booting" ELSE host) /\ UNCHANGED req
    /\ EndTick
    /\ UNCHANGED <<persisted, wake, streak, pendingStop, fails, uptime, onNode, running, stopTask, remote>>

(* WaitNodeUp returns at once for a host that still reads online. *)
Awake ==
    /\ pc = "waking" /\ host \in Online
    /\ Continue(AfterWake(plan))
    /\ UNCHANGED <<persisted, wake, memory, p1, req, remote, inFlight>>

WakeTimesOut ==
    /\ pc = "waking" /\ host \notin Online
    /\ EndTick
    /\ UNCHANGED <<persisted, wake, memory, p1, req, remote, inFlight>>

(* startRequested: the node's word counts, not the task's, unless it cannot *)
(* be read back.  Never an error to the tick.                               *)
StartRequested ==
    /\ pc = "start" /\ host \in Online
    /\ LET missing == plan.start \ onNode
           want == (plan.start \cap onNode) \ running
       IN \E up \in (IF "start" \in Faults THEN SUBSET want ELSE {want}) :
          \E seen \in (IF "readback" \in Faults THEN {up, {}, want} ELSE {up}) :
             /\ running' = running \cup up
             /\ fails' = [v \in Asked |->
                   IF v \in missing \cup (want \ seen) THEN CountFailure(v)
                   ELSE IF v \in plan.start THEN NoFail
                   ELSE fails[v]]
    /\ Continue(AfterStart(plan))
    /\ UNCHANGED <<persisted, wake, askedOff, streak, pendingStop, host, uptime, onNode, stopTask,
                   req, remote, inFlight>>

(* The guests cannot be listed: nothing is tried and nothing is counted. *)
StartUnlisted ==
    /\ pc = "start" /\ ("start" \in Faults \/ host \notin Online)
    /\ Continue(AfterStart(plan))
    /\ UNCHANGED <<persisted, wake, memory, p1, req, remote, inFlight>>

(* Mutant: nobody waits for it. *)
SettledAtOnce == pendingStop \in BOOLEAN

(* settlePendingStop: wait for an abandoned stop task, up to its deadline. *)
Settled == pendingStop => stopTask = {} \/ "wedge" \in Faults \/ host \notin Online

(* restoreStopped: the set comes from the live guest list; best effort. *)
RestoreStopped ==
    /\ pc = "restore" /\ Settled /\ host \in Online
    /\ pendingStop' = FALSE
    /\ LET want == (Stop \cap onNode) \ (running \cup NoAutostart)
       IN \E up \in (IF "start" \in Faults THEN SUBSET want ELSE {want}) :
             running' = running \cup up
    /\ Continue(AfterRestore(plan))
    /\ UNCHANGED <<persisted, wake, askedOff, streak, fails, host, uptime, onNode, stopTask,
                   req, remote, inFlight>>

RestoreFails ==
    /\ pc = "restore" /\ Settled /\ ("start" \in Faults \/ host \notin Online)
    /\ pendingStop' = FALSE
    /\ EndTick
    /\ UNCHANGED <<persisted, wake, askedOff, streak, fails, p1, req, remote, inFlight>>

(* The last moment the power-off is still a decision. *)
Recheck ==
    /\ pc = "recheck"
    /\ \/ wakeRequestedNow /\ Continue("save")
       \/ (~wakeRequestedNow \/ "intent" \in Faults) /\ Continue("poweroff")
    /\ UNCHANGED <<persisted, wake, memory, p1, req, remote, inFlight>>

(* Mutant: the off is remembered only when nut-dog has confirmed it. *)
PowerOffTrusting ==
    /\ pc = "poweroff" /\ Delegated
    /\ Replicate(TRUE)
    /\ inFlight' = (host \in Online)
    /\ \/ askedOff' = TRUE /\ req' = "off" /\ Continue("save")
       \/ "request" \in Faults /\ askedOff' = askedOff /\ req' \in {req, "off"} /\ EndTick
    /\ UNCHANGED <<persisted, wake, streak, pendingStop, fails, p1, silenced, probe>>

(* powerOff through nut-dog: remembered before the request is sent.  A     *)
(* request without an answer ends the tick, whether it arrived or not.     *)
PowerOff ==
    /\ pc = "poweroff" /\ Delegated
    /\ Replicate(TRUE)
    /\ askedOff' = TRUE /\ inFlight' = (host \in Online)
    /\ \/ req' = "off" /\ Continue("save")
       \/ "request" \in Faults /\ req' \in {req, "off"} /\ EndTick
    /\ UNCHANGED <<persisted, wake, streak, pendingStop, fails, p1, silenced, probe>>

(* powerOff over Proxmox when nothing owns the switch. *)
ShutdownNode ==
    /\ pc = "poweroff" /\ ~Delegated
    /\ Replicate(TRUE)
    /\ \/ host \in Online /\ host' = "goingDown" /\ Continue("save")
       \/ /\ "request" \in Faults \/ host \notin Online
          /\ host' \in (IF host \in Online THEN {host, "goingDown"} ELSE {host})
          /\ EndTick
    /\ UNCHANGED <<persisted, wake, memory, uptime, onNode, running, stopTask, req, silenced, probe, inFlight>>

(* saveMode and persist *)
Save ==
    /\ pc = "save"
    /\ \/ mode' = plan.next /\ grace' = plan.grace /\ done' = plan.done
       \/ "save" \in Faults /\ UNCHANGED persisted
    /\ EndTick
    /\ UNCHANGED <<wake, memory, p1, req, remote, inFlight>>

-----------------------------------------------------------------------------
(* Users, Proxmox, nut-dog, and the world.                                 *)

(* handleStart: the user's request replaces an older one for the VM. *)
Press(v) ==
    /\ "press" \in Env /\ v \in GamingGuard
    /\ wake' = [wake EXCEPT ![v] = 0]
    /\ UNCHANGED <<persisted, memory, tick, p1, req, remote, inFlight>>

(* handlePower with shutdown or stop: the request goes before the VM does, *)
(* and it goes for a VM that is not running, too.                          *)
PowerAction(v) ==
    /\ "uiStop" \in Env /\ v \in GamingGuard \cap onNode /\ host \in Online
    /\ wake' = [wake EXCEPT ![v] = Never]
    /\ running' = running \ {v}
    /\ UNCHANGED <<persisted, memory, tick, host, uptime, onNode, stopTask, req, remote, inFlight>>

(* A guest goes down on its own: from inside, or by hand in Proxmox. *)
GuestStops(g) ==
    /\ "guestStop" \in Env /\ g \in running \cap Touched
    /\ running' = running \ {g}
    /\ UNCHANGED <<persisted, wake, memory, tick, host, uptime, onNode, stopTask, req, remote, inFlight>>

(* A guest is started by hand in Proxmox, or comes back from a reboot. *)
GuestStarts(g) ==
    /\ "guestStart" \in Env /\ g \in (onNode \ running) \cap Touched /\ host \in Online
    /\ running' = running \cup {g}
    /\ UNCHANGED <<persisted, wake, memory, tick, host, uptime, onNode, stopTask, req, remote, inFlight>>

(* Someone moves a migrated guest back; the loop never does. *)
MovedBack(g) ==
    /\ "moveBack" \in Env /\ g \in Migrate \ onNode /\ host = "up"
    /\ onNode' = onNode \cup {g} /\ running' = running \cup {g}
    /\ UNCHANGED <<persisted, wake, memory, tick, host, uptime, stopTask, req, remote, inFlight>>

(* Proxmox works through the bulk stop task; guests that refuse are "stop". *)
StopTaskStep ==
    /\ host \in Online
    /\ \E g \in stopTask : stopTask' = stopTask \ {g} /\ running' = running \ {g}
    /\ UNCHANGED <<persisted, wake, memory, tick, host, uptime, onNode, req, remote, inFlight>>

(* The host comes up; guests with autostart come up with it. *)
Booted ==
    /\ host = "booting" /\ host' = "up"
    /\ uptime' = IF ReportsUptime THEN 1 ELSE 0
    /\ running' \in (IF "autostart" \in Env THEN SUBSET onNode ELSE {{}})
    /\ UNCHANGED <<persisted, wake, memory, tick, onNode, stopTask, req, remote, inFlight>>

GoneDown ==
    /\ host' = "off" /\ uptime' = 0 /\ running' = {} /\ stopTask' = {}
    /\ inFlight' = FALSE
    /\ UNCHANGED <<persisted, wake, memory, tick, onNode, req, remote>>

(* A shutdown completes: every guest still running went down with the host. *)
ShutDown == host = "goingDown" /\ GoneDown

(* Nothing of ours: the UPS sheds p1, someone shuts it down, or it dies. *)
HostLost ==
    /\ "hostLoss" \in Env /\ host = "up"
    /\ \/ GoneDown
       \/ /\ host' = "goingDown"
          /\ UNCHANGED <<persisted, wake, memory, tick, uptime, onNode, running, stopTask, req, remote, inFlight>>

HandOn ==
    /\ "handOn" \in Env /\ host = "off" /\ host' = "booting"
    /\ UNCHANGED <<persisted, wake, memory, tick, uptime, onNode, running, stopTask, req, remote, inFlight>>

(* nut-dog polls its request: off asserts the shed signal, which p1's upsmon *)
(* follows and nobody can take back; on sends the magic packet.              *)
NutDogPoll ==
    /\ \/ req = "off" /\ host = "up" /\ host' = "goingDown"
       \/ req = "on" /\ host = "off" /\ host' = "booting"
    /\ UNCHANGED <<persisted, wake, memory, tick, uptime, onNode, running, stopTask, req, remote, inFlight>>

(* nut-dog keeps its request, and its last probe, in memory only. *)
NutDogRestart ==
    /\ "dogRestart" \in Env /\ <<req, probe>> # <<"none", NoProbe>>
    /\ req' = "none" /\ probe' = NoProbe
    /\ UNCHANGED <<persisted, wake, memory, tick, p1, silenced, replOff, inFlight>>

(* nut-dog probes p1 every few seconds, unless its loop is held up. *)
NutDogProbes ==
    /\ "stale" \in Faults
    /\ \E actual \in {"up", "down"} : Probed(actual) /\ probe' = [actual |-> actual, age |-> 0]
    /\ UNCHANGED <<persisted, wake, memory, tick, p1, req, silenced, replOff, inFlight>>

(* The watchdog stops anywhere and starts again: only state.json is left. *)
Crash ==
    /\ "crash" \in Env
    /\ EndTick
    /\ askedOff' = FALSE /\ streak' = 0 /\ pendingStop' = FALSE
    /\ fails' = [v \in Asked |-> NoFail]
    /\ inFlight' = FALSE
    /\ UNCHANGED <<persisted, wake, p1, req, remote>>

-----------------------------------------------------------------------------
Older(age) == IF age < Never THEN age + 1 ELSE age
OlderAges(f) == [v \in Asked |-> Older(f[v])]
OlderClock(c) == IF c = Stopped THEN c ELSE Older(c)

(* One time unit passes for every timestamp the system keeps.  A failure   *)
(* record of an expired request matches none that could still be live.     *)
Tick ==
    /\ wake' = OlderAges(wake) /\ done' = OlderAges(done) /\ grace' = OlderClock(grace)
    /\ snap' = [snap EXCEPT !.wake = OlderAges(@)]
    /\ plan' = [plan EXCEPT !.done = OlderAges(@), !.grace = OlderClock(@)]
    /\ fails' = [v \in Asked |->
          IF Older(fails[v].of) = Never THEN NoFail
          ELSE [fails[v] EXCEPT !.of = Older(@), !.last = IF @ < Interval THEN @ + 1 ELSE @]]
    /\ uptime' = IF ReportsUptime /\ host \in Online /\ uptime < UptimeCap THEN uptime + 1 ELSE uptime
    /\ probe' = IF probe.age > ProbeMaxAge THEN probe ELSE [probe EXCEPT !.age = @ + 1]
    /\ UNCHANGED <<mode, askedOff, streak, pendingStop, pc, host, onNode, running, stopTask,
                   req, silenced, replOff, inFlight>>

-----------------------------------------------------------------------------
Loop ==
    \/ ObserveFails \/ ReadIntent \/ ReadUp \/ ReadDown \/ ReadUnconfirmed
    \/ Apply \/ ApplyFails
    \/ Migrated \/ MigrateFails
    \/ StopAll \/ StopFinished \/ StopInterrupted \/ StopFails
    \/ Wake \/ WakeFails \/ Awake \/ WakeTimesOut
    \/ StartRequested \/ StartUnlisted \/ RestoreStopped \/ RestoreFails
    \/ Recheck \/ PowerOff \/ ShutdownNode \/ Save

World ==
    \/ \E v \in Asked : Press(v) \/ PowerAction(v)
    \/ \E g \in Guests : GuestStops(g) \/ GuestStarts(g) \/ MovedBack(g)
    \/ StopTaskStep \/ Booted \/ ShutDown \/ HostLost \/ HandOn
    \/ NutDogPoll \/ NutDogRestart \/ NutDogProbes \/ Crash \/ Tick

Next == Loop \/ World

Spec == Init /\ [][Next]_vars

(* The goroutine of Run never stops reconciling, Proxmox finishes the task   *)
(* it was given, a host that shuts down or boots gets there, nut-dog keeps   *)
(* polling (strongly: a restart may empty its slot in between), time passes, *)
(* and an outage of what the loop reads ends some day (ReadIntent), as does  *)
(* one of an Alertmanager (Apply, strongly: ticks come and go meanwhile).    *)
Fairness ==
    /\ WF_vars(Loop) /\ WF_vars(ReadIntent) /\ WF_vars(StopTaskStep) /\ WF_vars(Booted) /\ WF_vars(ShutDown)
    /\ SF_vars(NutDogPoll) /\ SF_vars(Apply) /\ WF_vars(Tick)

FairSpec == Spec /\ Fairness

-----------------------------------------------------------------------------
(* Properties.                                                             *)

(* The step that orders the power-off, whether the request gets through or  *)
(* not, and any step that puts an off into nut-dog's hands: a restate, too. *)
OffOrdered == PowerOff \/ ShutdownNode
OffSaid == OffOrdered \/ (req' = "off" /\ req # "off")

(* A shed once sent is never taken back by the loop itself: while p1 has    *)
(* not been off since our off, nothing the loop says replaces an off        *)
(* nut-dog holds - not a blind tick, not a restate, not a hold.  Only a     *)
(* planned wake ends it (powerWish, holdPower, controller.go:965-1011).     *)
OffStands ==
    [][inFlight /\ inFlight' /\ req = "off" => req' \in {"off", "none"}]_vars

(* What the loop, nut-dog and p1 do between them is what module PowerOwner  *)
(* says of the switch: only a wish moves p1, and only a planned wake takes  *)
(* back an off before p1 has been off (requestPower, powerWish, holdPower,  *)
(* controller.go:956-1017).                                                 *)
Owner == INSTANCE PowerOwner WITH wish <- req, committed <- inFlight, power <- host
OwnsPower == Owner!Spec

(* The loop remembers every off it ordered for as long as p1 has not been  *)
(* off, whatever its ticks read and however they end (askedOff).           *)
ShedRemembered == Delegated /\ inFlight => askedOff

(* A request gets its three tries, an interval apart: however often the     *)
(* loop is nudged, and whatever a request before it failed at, none is      *)
(* given up on before it is two intervals old (recordStartFailure and       *)
(* retired, controller.go:128-196).                                         *)
BudgetLasts ==
    \A v \in Asked :
       retired(v) /\ Live(wake[v]) => wake[v] >= (StartFailLimit - 1) * Interval

(* No requested VM is started on a host that is already on its way down:   *)
(* it would die with the host and its request would be marked as served    *)
(* (decide.go:290-296).                                                    *)
NoStartOnDyingHost == pc = "start" => host # "goingDown"

(* The power-off comes last: whenever it is ordered, or said again, the     *)
(* alerts are silenced, the critical guests are off p1, and no guest of the *)
(* stop class runs that a stop task is not already taking down (README,     *)
(* "migrate and stop run first, then the power-off"; execute,               *)
(* controller.go:447-524).                                                  *)
OffComesLast ==
    [][OffSaid =>
          /\ silenced
          /\ running \cap Migrate = {}
          /\ running \cap Stop \subseteq stopTask]_vars

(* Good morning is complete: when the mode returns to running on a host     *)
(* that is up, every guest of the stop class that may start runs, and no    *)
(* stop task of an interrupted shed is left that would stop one again       *)
(* (settlePendingStop and restoreStopped, controller.go:675-691, 817-843).  *)
RestoreComplete ==
    [][mode # "running" /\ mode' = "running" /\ host = "up" =>
          /\ (Stop \cap onNode) \ NoAutostart \subseteq running
          /\ stopTask = {}]_vars

(* A shed called off is off the table: when the loop leaves p1 up for a     *)
(* request, no off of an earlier try is left for the next tick to restate   *)
(* (shedwindow_test.go:110, 324, "askedOff set: the power-off went out      *)
(* despite a live request"; README, a request "cancels it outright").       *)
RescueLeavesNoOff ==
    [][plan.poweroff /\ pc \in {"stopping", "recheck"} /\ pc' = "save" => ~askedOff]_vars

(* A shed that was ordered lands, however many ticks are blind and however *)
(* often nut-dog forgets what it was told.                                 *)
ShedLands == inFlight ~> ~inFlight

(* From some time on nobody asks for a VM, no session runs, no hand starts *)
(* p1 and the loop's process stays alive.                                  *)
Evening ==
    /\ <>[][~HandOn /\ ~Crash /\ \A v \in Asked : ~Press(v)]_vars
    /\ <>[](running \cap GamingGuard = {})

(* Where a shed called off in time leaves the loop: the mode says shed, p1  *)
(* is up, and only a new request, the sun or a reboot makes it move again.  *)
CalledOff == mode = "shed" /\ host = "up" /\ ~askedOff

(* With the sun gone, the last session over and nobody asking any more, p1 *)
(* is eventually off and stays off: no grace window, wake or half-done     *)
(* shed keeps it up, except a shed that was called off (Decide's three     *)
(* modes; README, Modes).                                                  *)
EveningShed == Evening => <>[](host = "off") \/ <>[]CalledOff

(* With sun enough, p1 comes back from whatever took it down - a shed, a    *)
(* crash, the UPS - and the loop ends up running with the stop class        *)
(* restored, wherever a restart of its own caught it (README, Good-morning; *)
(* decide.go:182-192, 217-221, 251-256).                                    *)
Calm == <>[][~HostLost /\ ~WakeFails]_vars /\ <>[](snap.hold # "off")
Restored == mode = "running" /\ host = "up" /\ (Stop \cap onNode) \ NoAutostart \subseteq running
MorningComes == Calm => <>[]Restored

(* The same without the exception, as README, Modes has it: a deficit with  *)
(* nothing gaming, or an elapsed grace window, powers p1 off.               *)
EveryEveningShed == Evening => <>[](host = "off")
=============================================================================

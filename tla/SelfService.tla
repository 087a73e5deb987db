---------------------------- MODULE SelfService ----------------------------
(***************************************************************************)
(* The self-service API (internal/selfservice/server.go) beside the        *)
(* reconcile loop.  Every HTTP request is handled by a goroutine of its    *)
(* own, and a handler changes the stored intent by reading all of it,      *)
(* changing its copy, and writing all of it back: nothing locks the two    *)
(* ends together.  Each handler is cut at its remote calls.                *)
(*                                                                         *)
(* Simplifications.                                                        *)
(*  - One click per user is in flight; the two users' clicks interleave.   *)
(*  - A call that fails before it changed anything ends the handler with   *)
(*    an error page: the same as a click not made, and left out.           *)
(*  - The check of handleStart reads the cached view, the markers and the  *)
(*    given-up requests at one moment.                                     *)
(*  - The loop is its requests and markers only: it reads the intent,      *)
(*    observes, starts, saves, as fast or as slowly as it likes.           *)
(*  - Ages as in module Decide.  One time unit is viewTTL: a cached view   *)
(*    is fresh for as long as no Tick has passed.                          *)
(***************************************************************************)
EXTENDS Decide

CONSTANTS
    Users,
    Allowed,        \* the desktop VMs each user may control
    Admins,
    Actions,        \* the powerActions used in this instance
    Passthrough,    \* the GPU of each desktop VM in Proxmox, NoGPU for none
    NoGPU,
    Positions,      \* the positions of the admin control used in this instance
    MaxClicks,      \* bound: the clicks made in a behaviour
    Disturbances    \* what else may happen, see DisturbanceKinds

DisturbanceKinds == {"proxmox", "save", "start", "restart", "hostLoss", "byHand"}

ASSUME UsersAssumption ==
    /\ Allowed \in [Users -> SUBSET Asked] /\ Admins \subseteq Users
    /\ Positions \subseteq {"solar", "shed", "on"}
    /\ Actions \subseteq {"shutdown", "stop", "reboot", "reset"}
    /\ Asked = GamingGuard
    /\ DOMAIN Passthrough = Asked
    /\ MaxClicks \in Nat
    /\ Disturbances \subseteq DisturbanceKinds

VARIABLES
    intent,          \* intent.json
    done,            \* state.json: State.WakeDone
    failed,          \* the request of each VM the loop has given up on
    up, running,     \* p1, and the desktop VMs running on it
    cached, gpu,     \* Server.cached and Server.gpu
    click, clicks,   \* the request each user has in flight; clicks so far
    tick,            \* the running reconcile
    settled,         \* history: VMs that have been up for viewTTL
    wanted,          \* history: the intent if every save were one step
    overlapped,      \* history: some save overwrote another it had not read
    shutDown,        \* history: served VMs shut down here and not asked for since
    rushed,          \* history: VMs asked for again in the second of a request
                     \* that is gone, and is still on record
    unchecked        \* history: VMs whose request may run into another's GPU

store == <<intent, done>>
cluster == <<up, running, settled>>
server == <<cached, gpu>>
history == <<wanted, overlapped, shutDown, rushed, unchecked>>
vars == <<store, failed, cluster, server, click, clicks, tick, history>>

NoRequests == [v \in Asked |-> Never]
Intents == [wake : [Asked -> Ages], hold : {"solar", "shed", "on"}]
NoIntent == [wake |-> NoRequests, hold |-> "solar"]

Views == [fresh : BOOLEAN, ok : BOOLEAN, up : BOOLEAN, running : SUBSET Asked]
NoView == [fresh |-> FALSE, ok |-> TRUE, up |-> FALSE, running |-> {}]

Clicks ==
    [at : {"idle", "check", "save", "load", "power"},
     op : {"none", "start", "hold"} \cup {"shutdown", "stop", "reboot", "reset"},
     vm : Asked, hold : {"solar", "shed", "on"},
     intent : Intents,  \* the copy this handler read
     stale : BOOLEAN,   \* someone has saved since
     served : BOOLEAN]  \* the request it drops was spent, and nobody has asked since
Idle == [at |-> "idle", op |-> "none", vm |-> CHOOSE v \in Asked : TRUE,
         hold |-> "solar", intent |-> NoIntent, stale |-> FALSE, served |-> FALSE]

Ticks ==
    [at : {"idle", "observe", "start", "save"},
     wake : [Asked -> Ages], done : [Asked -> Ages], start : SUBSET Asked]
NoTick == [at |-> "idle", wake |-> NoRequests, done |-> NoRequests, start |-> {}]

TypeOK ==
    /\ intent \in Intents /\ wanted \in Intents
    /\ done \in [Asked -> Ages] /\ failed \in [Asked -> Ages]
    /\ up \in BOOLEAN /\ running \subseteq Asked /\ (~up => running = {})
    /\ settled \subseteq running
    /\ cached \in Views /\ gpu \in {Passthrough, [v \in Asked |-> NoGPU]}
    /\ clicks \in 0 .. MaxClicks /\ click \in [Users -> Clicks] /\ tick \in Ticks
    /\ overlapped \in BOOLEAN /\ shutDown \subseteq Asked
    /\ rushed \subseteq Asked /\ unchecked \subseteq Asked

Init ==
    /\ intent = NoIntent /\ done = NoRequests /\ failed = NoRequests
    /\ up \in BOOLEAN /\ running = {} /\ settled = {}
    /\ cached = NoView /\ gpu = [v \in Asked |-> NoGPU]
    /\ clicks = 0 /\ click = [u \in Users |-> Idle] /\ tick = NoTick
    /\ wanted = NoIntent /\ overlapped = FALSE /\ shutDown = {}
    /\ rushed = {} /\ unchecked = {}

-----------------------------------------------------------------------------
(* The cached view of the cluster.                                         *)

(* view: a fresh cache is served as it is, errors included.  refreshGPUs: *)
(* while p1 is down the last reading of the GPUs stands, and likewise     *)
(* when one of them cannot be read.                                       *)
View ==
    IF cached.fresh THEN UNCHANGED server
    ELSE \/ /\ cached' = [fresh |-> TRUE, ok |-> TRUE, up |-> up, running |-> running]
            /\ \/ gpu' = IF up THEN Passthrough ELSE gpu
               \/ "proxmox" \in Disturbances /\ up /\ UNCHANGED gpu
         \/ /\ "proxmox" \in Disturbances
            /\ cached' = [NoView EXCEPT !.fresh = TRUE, !.ok = FALSE, !.up = @ \/ up]
            /\ UNCHANGED gpu

(* liveRequests: outstanding, not spent, not given up on. *)
Outstanding(wake, v) == Live(wake[v]) /\ wake[v] < done[v] /\ failed[v] # wake[v]

SameGPU(v, w) == w # v /\ gpu'[v] # NoGPU /\ gpu'[w] = gpu'[v]

(* Mutant: a VM that has only been requested does not count. *)
gpuBlockedRunningOnly(u) ==
    \E w \in Asked : SameGPU(click[u].vm, w) /\ w \in cached'.running

(* Mutant: a VM that is up does not count. *)
gpuBlockedRequestedOnly(u) ==
    \E w \in Asked : SameGPU(click[u].vm, w) /\ Outstanding(click[u].intent.wake, w)

(* gpuBlocker, over the view just taken. *)
gpuBlocked(u) ==
    \E w \in Asked :
        SameGPU(click[u].vm, w) /\ (w \in cached'.running \/ Outstanding(click[u].intent.wake, w))

-----------------------------------------------------------------------------
(* The handlers.                                                           *)

Reading(at) == [Idle EXCEPT !.at = at, !.intent = intent]

(* Mutant: the request is stamped ahead of the clock it is judged by. *)
withRequestAhead(i, v) == [i EXCEPT !.wake = [w \in Asked |-> IF w = v THEN -1 ELSE @[w]]]

(* handleStart: the VM's live request is replaced, the others are kept. *)
withRequest(i, v) == [i EXCEPT !.wake = [w \in Asked |-> IF w = v THEN 0 ELSE @[w]]]

(* Mutant: every request is withdrawn. *)
withoutRequests(i, v) == [i EXCEPT !.wake = NoRequests]

(* dropWakeRequest *)
withoutRequest(i, v) == [i EXCEPT !.wake = [w \in Asked |-> IF w = v THEN Never ELSE @[w]]]

(* What a click means, whatever else is going on. *)
Meant(c) ==
    [wake |-> IF c.op = "hold" THEN wanted.wake
              ELSE [wanted.wake EXCEPT ![c.vm] = IF c.op = "start" THEN 0 ELSE Never],
     hold |-> IF c.op = "hold" THEN c.hold ELSE wanted.hold]

(* SaveIntent: the whole intent is replaced; copies read before are stale. *)
SaveIntent(u, new, next) ==
    /\ intent' = new
    /\ overlapped' = (overlapped \/ click[u].stale)
    /\ wanted' = IF overlapped' THEN NoIntent ELSE Meant(click[u])
    /\ click' = [w \in Users |-> IF w = u THEN next
                                 ELSE [click[w] EXCEPT
                                      !.stale = @ \/ click[w].at # "idle",
                                      !.served = @ /\ (click[u].op = "start" => click[u].vm # click[w].vm)]]

NewClick(u) == click[u].at = "idle" /\ clicks < MaxClicks /\ clicks' = clicks + 1

(* handleStart: the intent is read first, *)
StartLoad(u, v) ==
    /\ NewClick(u) /\ v \in Allowed[u]
    /\ click' = [click EXCEPT ![u] = [Reading("check") EXCEPT !.op = "start", !.vm = v]]
    /\ UNCHANGED <<store, failed, cluster, server, tick, history>>

(* then p1 and the GPU; a VM that holds it means 409. *)
StartCheck(u) ==
    /\ click[u].at = "check"
    /\ View
    /\ click' = [click EXCEPT ![u] = IF gpuBlocked(u) THEN Idle ELSE [@ EXCEPT !.at = "save"]]
    /\ unchecked' = IF gpu'[click[u].vm] = Passthrough[click[u].vm] THEN unchecked
                    ELSE unchecked \cup {click[u].vm}
    /\ UNCHANGED <<store, failed, clicks, cluster, tick, wanted, overlapped, shutDown, rushed>>

(* The check is behind it, the save is not. *)
Starting(u, v) == click[u].at = "save" /\ click[u].op = "start" /\ click[u].vm = v

(* A request bears the second it was made in.  One made anew in the second  *)
(* of another that is gone is taken for that one by whatever recorded it.   *)
Again(v) ==
    /\ intent.wake[v] # 0
    /\ 0 \in {done[v], failed[v], tick.wake[v], tick.done[v]}

StartSave(u) ==
    /\ click[u].at = "save" /\ click[u].op = "start"
    /\ SaveIntent(u, withRequest(click[u].intent, click[u].vm), Idle)
    /\ shutDown' = shutDown \ {click[u].vm}
    /\ rushed' = IF Again(click[u].vm) THEN rushed \cup {click[u].vm} ELSE rushed
    /\ UNCHANGED <<done, failed, clicks, cluster, server, tick, unchecked>>

(* handlePower: refused while p1 is off or could not be read. *)
PowerView(u, v, op) ==
    /\ NewClick(u) /\ v \in Allowed[u] /\ op \in Actions
    /\ View
    /\ click' = [click EXCEPT ![u] =
          IF ~cached'.up \/ ~cached'.ok THEN Idle
          ELSE [Idle EXCEPT !.op = op, !.vm = v,
                            !.at = IF op \in {"shutdown", "stop"} THEN "load" ELSE "power"]]
    /\ UNCHANGED <<store, failed, cluster, tick, history>>

(* dropWakeRequest: read, *)
DropLoad(u) ==
    /\ click[u].at = "load"
    /\ click' = [click EXCEPT ![u] =
          [Reading("save") EXCEPT !.op = click[u].op, !.vm = click[u].vm,
              !.served = Live(intent.wake[click[u].vm]) /\ done[click[u].vm] <= intent.wake[click[u].vm]]]
    /\ UNCHANGED <<store, failed, clicks, cluster, server, tick, history>>

(* and write; only then is the VM taken down. *)
DropSave(u) ==
    /\ click[u].at = "save" /\ click[u].op \in {"shutdown", "stop"}
    /\ SaveIntent(u, withoutRequest(click[u].intent, click[u].vm),
                  [click[u] EXCEPT !.at = "power", !.intent = NoIntent, !.stale = FALSE])
    /\ unchecked' = unchecked \ {click[u].vm}
    /\ UNCHANGED <<done, failed, clicks, cluster, server, tick, shutDown, rushed>>

(* Power, then expireView.  The VM goes down in its own time (VMStops). *)
Power(u) ==
    /\ click[u].at = "power"
    /\ \/ /\ cached' = NoView
          /\ shutDown' = IF click[u].served /\ click[u].vm \in running
                         THEN shutDown \cup {click[u].vm} ELSE shutDown
       \/ ("proxmox" \in Disturbances \/ ~up) /\ UNCHANGED <<cached, shutDown>>
    /\ click' = [click EXCEPT ![u] = Idle]
    /\ UNCHANGED <<store, failed, clicks, cluster, gpu, tick, wanted, overlapped, rushed, unchecked>>

(* handleHold *)
HoldLoad(u, h) ==
    /\ NewClick(u) /\ u \in Admins
    /\ click' = [click EXCEPT ![u] = [Reading("save") EXCEPT !.op = "hold", !.hold = h]]
    /\ UNCHANGED <<store, failed, cluster, server, tick, history>>

HoldSave(u) ==
    /\ click[u].at = "save" /\ click[u].op = "hold"
    /\ SaveIntent(u, [click[u].intent EXCEPT !.hold = click[u].hold], Idle)
    /\ UNCHANGED <<done, failed, clicks, cluster, server, tick, shutDown, rushed, unchecked>>

(* SaveIntent fails: an error page, and nothing written. *)
SaveFails(u) ==
    /\ click[u].at = "save" /\ "save" \in Disturbances
    /\ click' = [click EXCEPT ![u] = Idle]
    /\ UNCHANGED <<store, failed, clicks, cluster, server, tick, history>>

(* handleStatus: every open page polls, which keeps the view warm. *)
Status == View /\ UNCHANGED <<store, failed, cluster, click, clicks, tick, history>>

-----------------------------------------------------------------------------
(* The reconcile loop, as far as requests go.                              *)

TickRead ==
    /\ tick.at = "idle"
    /\ tick' = [NoTick EXCEPT !.at = "observe",
          !.wake = [v \in Asked |-> IF failed[v] = intent.wake[v] THEN Never ELSE intent.wake[v]]]
    /\ UNCHANGED <<store, failed, cluster, server, click, clicks, history>>

(* Decide *)
TickObserve ==
    /\ tick.at = "observe"
    /\ LET s == [wake |-> tick.wake, done |-> done, running |-> running]
           start == Pending(s)
       IN tick' = [at |-> IF start = {} THEN "save" ELSE "start",
                   wake |-> IF start = {} THEN NoRequests ELSE tick.wake,
                   done |-> WakeDone(s), start |-> start]
    /\ UNCHANGED <<store, failed, cluster, server, click, clicks, history>>

(* Proxmox maps a GPU into one guest at a time. *)
Fits(vms) ==
    \A v \in vms : \A w \in vms \ {v} : Passthrough[v] = NoGPU \/ Passthrough[w] # Passthrough[v]

(* Wake and startRequested: p1 is brought up, the VMs are started, and one *)
(* that stays down may be given up on.                                     *)
TickStart ==
    /\ tick.at = "start"
    /\ up' = TRUE
    /\ \E new \in SUBSET (tick.start \ running) :
          /\ Fits(running \cup new)
          /\ "start" \in Disturbances \/ \A v \in tick.start \ (running \cup new) : ~Fits(running \cup new \cup {v})
          /\ running' = running \cup new
          /\ failed' \in {[v \in Asked |-> IF v \in running' \cap tick.start THEN Never
                                           ELSE IF v \in lost THEN tick.wake[v] ELSE failed[v]] :
                             lost \in SUBSET (tick.start \ running')}
    /\ tick' = [tick EXCEPT !.at = "save", !.wake = NoRequests, !.start = {}]
    /\ UNCHANGED <<store, settled, server, click, clicks, history>>

TickSave ==
    /\ tick.at = "save"
    /\ done' = tick.done \/ ("save" \in Disturbances /\ done' = done)
    /\ tick' = NoTick
    /\ UNCHANGED <<intent, failed, cluster, server, click, clicks, history>>

-----------------------------------------------------------------------------
(* The world.                                                              *)

(* A VM goes down: the shutdown it was sent, or from inside. *)
VMStops(v) ==
    /\ v \in running
    /\ running' = running \ {v} /\ settled' = settled \ {v}
    /\ UNCHANGED <<store, failed, up, server, click, clicks, tick, history>>

(* A VM is started by hand in Proxmox. *)
VMStarts(v) ==
    /\ "byHand" \in Disturbances /\ up /\ v \notin running /\ Fits(running \cup {v})
    /\ running' = running \cup {v} /\ shutDown' = shutDown \ {v}
    /\ UNCHANGED <<store, failed, up, settled, server, click, clicks, tick, wanted, overlapped,
                   rushed, unchecked>>

(* p1 goes off: shed by the loop, or lost. *)
HostOff ==
    /\ "hostLoss" \in Disturbances /\ up
    /\ up' = FALSE /\ running' = {} /\ settled' = {}
    /\ UNCHANGED <<store, failed, server, click, clicks, tick, history>>

(* The watchdog restarts: clicks and caches are gone, and with them which   *)
(* requests it had given up on; the store is not.                           *)
Restart ==
    /\ "restart" \in Disturbances
    /\ failed' = NoRequests /\ cached' = NoView /\ gpu' = [v \in Asked |-> NoGPU]
    /\ click' = [u \in Users |-> Idle] /\ tick' = NoTick
    /\ unchecked' = {v \in Asked : Live(intent.wake[v]) /\ (v \in unchecked \/ failed[v] = intent.wake[v])}
    /\ UNCHANGED <<store, cluster, clicks, wanted, overlapped, shutDown, rushed>>

Older(age) == IF age < Never THEN age + 1 ELSE age
OlderAges(f) == [v \in Asked |-> Older(f[v])]
OlderIntent(i) == [i EXCEPT !.wake = OlderAges(@)]

Tick ==
    /\ intent' = OlderIntent(intent) /\ wanted' = OlderIntent(wanted)
    /\ done' = OlderAges(done) /\ failed' = OlderAges(failed)
    /\ tick' = [tick EXCEPT !.wake = OlderAges(@), !.done = OlderAges(@)]
    /\ click' = [u \in Users |-> [click[u] EXCEPT !.intent = OlderIntent(@)]]
    /\ cached' = NoView
    /\ settled' = running
    /\ unchecked' = {v \in unchecked : Live(intent'.wake[v]) \/ \E u \in Users : Starting(u, v)}
    /\ UNCHANGED <<up, running, gpu, clicks, overlapped, shutDown, rushed>>

Next ==
    \/ \E u \in Users :
          \/ \E v \in Asked : StartLoad(u, v) \/ \E op \in Actions : PowerView(u, v, op)
          \/ StartCheck(u) \/ StartSave(u)
          \/ DropLoad(u) \/ DropSave(u) \/ Power(u)
          \/ HoldSave(u) \/ SaveFails(u)
          \/ \E h \in Positions : HoldLoad(u, h)
    \/ Status
    \/ TickRead \/ TickObserve \/ TickStart \/ TickSave
    \/ \E v \in Asked : VMStops(v) \/ VMStarts(v)
    \/ HostOff \/ Restart \/ Tick

Spec == Init /\ [][Next]_vars

-----------------------------------------------------------------------------
(* Properties.                                                             *)

(* What users asked for is lost only when two handlers overlap: as long as  *)
(* every save was made from what the one before it left, the intent is the  *)
(* clicks applied one after the other - a start keeps the hold and the      *)
(* other VM's request, a withdrawal keeps both, a hold keeps the requests   *)
(* (server.go:370-530).                                                     *)
LostOnlyByOverlap == overlapped \/ intent = wanted

Started(v) == tick.at = "start" /\ tick'.at = "save" /\ v \in running' \ running

(* A desktop VM whose request was served and that is then shut down through *)
(* the page stays down until someone asks for it again: the request is gone *)
(* before the loop forgets that it was served (handlePower, resolveWake).   *)
(* Two things bring it back: a handler's stale copy of the request, and a   *)
(* VM asked for, withdrawn and asked for again within one second, whose     *)
(* records the loop cannot tell apart (server.go:397).                      *)
ShutDownStaysDown ==
    [][\A v \in shutDown : Started(v) => overlapped \/ v \in rushed]_vars

Accepted(u) == click[u].at = "check" /\ click'[u].at = "save"

(* Start is refused for a VM whose GPU is held by one that has been up for  *)
(* longer than a view may be old, whoever started that one, however old     *)
(* the view is and whatever has become of p1 since.  The exceptions are a   *)
(* p1 that cannot be read, and GPUs not read since the watchdog started     *)
(* (gpuBlocker, view, refreshGPUs).                                         *)
GpuRespected ==
    [][\A u \in Users : Accepted(u) /\ cached'.ok =>
          \A w \in Asked : SameGPU(click[u].vm, w) => w \notin settled]_vars

(* Two VMs never have a request each outstanding for the one GPU, be p1 up  *)
(* or down, over the stored requests and not a handler's copy: what a tick  *)
(* served, forgot or gave up on between a handler's check and its save      *)
(* does not bring the other request back ("starting the second is a         *)
(* guaranteed failure. Refuse it here", server.go:375-376).  Handlers that  *)
(* overlap overwrite one another's requests (LostOnlyByOverlap); a start is *)
(* let through while the GPUs are not known, and a watchdog that restarts   *)
(* forgets which requests it had given up on.                               *)
OneRequestPerGPU ==
    ~overlapped =>
       \A v, w \in Asked \ (unchecked \cup rushed) :
          /\ v # w /\ Passthrough[v] = Passthrough[w] /\ Passthrough[v] # NoGPU
          /\ Outstanding(intent.wake, v)
          => ~Outstanding(intent.wake, w)
=============================================================================

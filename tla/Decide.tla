------------------------------- MODULE Decide -------------------------------
(***************************************************************************)
(* The pure decision of one reconcile: controller.Decide and the helpers   *)
(* it is built from (internal/controller/decide.go).  A snapshot of the    *)
(* world goes in, a plan comes out; no operator here has a side effect.    *)
(*                                                                         *)
(* Time.  The code stores unix timestamps and compares them with now.      *)
(* Here every timestamp is kept as its AGE, the whole time units since it  *)
(* was taken, saturating at GamingGrace: no comparison of the code tells   *)
(* two older timestamps apart.  A later RequestedAt is a smaller age.      *)
(*                                                                         *)
(* A definition whose comment begins "Mutant" is a plausible bug: a copy   *)
(* of the definition after it that no behaviour of the model uses.  It is  *)
(* there to show that a checked property would notice.                     *)
(***************************************************************************)
EXTENDS Integers

CONSTANTS
    HeadroomWatts, ShedBelowWatts, MinBatteryPercent, \* the hysteresis band
    GamingGuard, Migrate, Stop, \* the three guest classes
    Asked,                      \* the ids a wake request may name
    GamingGrace,                \* grace window, and the lifetime of a request
    MinRuntime,                 \* 0 = off
    FreshBootWindow

(* What the loop takes for granted of its configuration.  The band and a    *)
(* minRuntime that is not negative are config.validate's; so are the        *)
(* classes (module IdSets).  The two windows have defaults, and validate    *)
(* leaves it to whoever sets them that they are positive.                   *)
ASSUME BandAssumption ==
    /\ HeadroomWatts \in Int /\ ShedBelowWatts \in Int /\ MinBatteryPercent \in Int
    /\ HeadroomWatts >= ShedBelowWatts
ASSUME ClassesAssumption ==
    /\ Migrate \cap Stop = {}
    /\ Migrate \cap GamingGuard = {}
    /\ Stop \cap GamingGuard = {}
ASSUME DurationsAssumption ==
    /\ GamingGrace \in Nat \ {0}
    /\ MinRuntime \in Nat
    /\ FreshBootWindow \in Nat \ {0}

Guests == GamingGuard \cup Migrate \cup Stop
Modes == {"running", "shed", "gaming"}
Ages == 0 .. GamingGrace
Never == GamingGrace   \* the age of a request or marker that no longer counts
Stopped == -1          \* a grace clock that is not running (GraceSince = 0)
Clocks == {Stopped} \cup Ages

Snapshots ==
    [surplus : Int, soc : Int, up : BOOLEAN, uptime : Nat,
     running : SUBSET Guests, mode : Modes, grace : Clocks,
     shed : BOOLEAN, on : BOOLEAN, inFlight : BOOLEAN,
     wake : [Asked -> Ages], done : [Asked -> Ages]]

Plans ==
    [migrate : SUBSET Migrate, stop : SUBSET Stop, restore : BOOLEAN,
     start : SUBSET Asked, poweroff : BOOLEAN, wake : BOOLEAN,
     next : Modes, grace : Clocks, done : [Asked -> Ages]]

(* WakeRequest.Live *)
Live(age) == age < GamingGrace

classify(surplus, soc) ==
    IF surplus >= HeadroomWatts /\ soc >= MinBatteryPercent THEN "surplus"
    ELSE IF surplus < ShedBelowWatts THEN "deficit"
    ELSE "neutral"

minRuntimeHold(s) ==
    MinRuntime > 0 /\ s.up /\ s.uptime > 0 /\ s.uptime < MinRuntime

(* Mutants of Signal: the battery outranks the hold; the hold reads as sun. *)
SignalChargeFirst(s) ==
    IF s.shed THEN "deficit"
    ELSE IF s.on /\ s.soc >= MinBatteryPercent THEN "surplus"
    ELSE classify(s.surplus, s.soc)
SignalMinRuntimeSun(s) ==
    IF s.shed THEN "deficit"
    ELSE IF s.on \/ minRuntimeHold(s) THEN "surplus"
    ELSE classify(s.surplus, s.soc)

(* The manual holds pin the signal and outrank minRuntime; shed comes first. *)
Signal(s) ==
    LET sig == classify(s.surplus, s.soc) IN
    IF s.shed THEN "deficit"
    ELSE IF s.on THEN "surplus"
    ELSE IF sig = "deficit" /\ minRuntimeHold(s) THEN "neutral"
    ELSE sig

(* Mutant: a session needs every desktop VM. *)
gamingActiveAll(s) == s.up /\ GamingGuard \subseteq s.running

gamingActive(s) == s.up /\ s.running \cap GamingGuard # {}

(* Mutant: the class filter is lost. *)
matchRunningAny(s, class) == s.running

matchRunning(s, class) == s.running \cap class

(* A request at or before its marker was seen through to a running VM. *)
Spent(s, v) == s.wake[v] >= s.done[v]

(* Mutant: any desktop VM that runs satisfies every request. *)
PendingAny(s) ==
    {v \in Asked : Live(s.wake[v]) /\ ~Spent(s, v) /\ s.running \cap GamingGuard = {}}

(* Mutant: a request lives until it expires, whatever came of it. *)
PendingUnspent(s) == {v \in Asked : Live(s.wake[v]) /\ v \notin s.running}

(* resolveWake, first result: the requests still to act on. *)
Pending(s) ==
    {v \in Asked : Live(s.wake[v]) /\ ~Spent(s, v) /\ v \notin s.running}

(* Mutant: a marker lasts one tick. *)
WakeDoneOnce(s) ==
    [v \in Asked |->
        IF Live(s.wake[v]) /\ ~Spent(s, v) /\ v \in s.running THEN s.wake[v] ELSE Never]

(* resolveWake, second result: only a live request keeps a marker. *)
WakeDone(s) ==
    [v \in Asked |->
        IF ~Live(s.wake[v]) THEN Never
        ELSE IF Spent(s, v) THEN s.done[v]
        ELSE IF v \in s.running THEN s.wake[v]
        ELSE Never]

(* The clock to record on entering a gaming session. *)
graceStart(s) == IF gamingActive(s) THEN Stopped ELSE 0

(* The plan that changes nothing but the spent-request markers. *)
Stay(s) ==
    [migrate |-> {}, stop |-> {}, restore |-> FALSE, start |-> {},
     poweroff |-> FALSE, wake |-> FALSE,
     next |-> s.mode, grace |-> s.grace, done |-> WakeDone(s)]

DecideRunning(s) ==
    IF ~s.up THEN [Stay(s) EXCEPT !.next = "shed"]
    ELSE IF Signal(s) # "deficit" THEN Stay(s)
    ELSE LET posture == [Stay(s) EXCEPT !.migrate = matchRunning(s, Migrate),
                                        !.stop = matchRunning(s, Stop)]
         IN  IF gamingActive(s) \/ Pending(s) # {}
             THEN [posture EXCEPT !.next = "gaming", !.grace = graceStart(s)]
             ELSE [posture EXCEPT !.next = "shed", !.poweroff = s.up]

DecideShed(s) ==
    IF Signal(s) = "surplus"
    THEN [Stay(s) EXCEPT !.wake = TRUE, !.restore = TRUE, !.next = "running"]
    ELSE IF Pending(s) # {} /\ ~s.inFlight
    THEN [Stay(s) EXCEPT !.wake = ~s.up, !.next = "gaming", !.grace = graceStart(s)]
    ELSE IF s.up /\ s.uptime < FreshBootWindow
    THEN [Stay(s) EXCEPT !.next = "gaming", !.grace = graceStart(s)]
    ELSE Stay(s)

(* Mutant: the window is one unit short. *)
graceOverEarly(s) == s.grace >= GamingGrace - 1

(* Only asked of a clock that runs. *)
graceOver(s) == s.grace >= GamingGrace

DecideGaming(s) ==
    IF ~s.up THEN [Stay(s) EXCEPT !.next = "shed", !.grace = Stopped]
    ELSE IF Signal(s) = "surplus"
    THEN [Stay(s) EXCEPT !.restore = TRUE, !.next = "running", !.grace = Stopped]
    ELSE IF gamingActive(s) THEN [Stay(s) EXCEPT !.grace = Stopped]
    ELSE IF Pending(s) # {} \/ s.grace = Stopped THEN [Stay(s) EXCEPT !.grace = 0]
    ELSE IF graceOver(s)
    THEN [Stay(s) EXCEPT !.poweroff = TRUE, !.next = "shed", !.grace = Stopped]
    ELSE Stay(s)

(* Mutant: a shed in flight is not on the way down. *)
mayStartInFlight(s, p) == ~p.poweroff /\ (s.up \/ p.wake)

(* Wherever the node is up or about to be, and never on the way down. *)
mayStart(s, p) == ~p.poweroff /\ ~s.inFlight /\ (s.up \/ p.wake)

Decide(s) ==
    LET p == IF s.mode = "running" THEN DecideRunning(s)
             ELSE IF s.mode = "shed" THEN DecideShed(s)
             ELSE DecideGaming(s)
    IN  [p EXCEPT !.start = IF mayStart(s, p) THEN Pending(s) ELSE {}]
=============================================================================

------------------------------- MODULE Upkeep -------------------------------
(***************************************************************************)
(* What Controller.apply sees to on every tick before it acts on the plan: *)
(* the replication jobs first, then the silences, each of them a run of    *)
(* separate calls, while p1's power and the mode go on changing.           *)
(***************************************************************************)
EXTENDS Replication, Silences

CONSTANTS
    Setups    \* configurations; dryRun "log" makes none of these calls

ASSUME SetupsAssumption ==
    Setups \subseteq [level : {"alert", "full"}, managed : BOOLEAN, urls : SUBSET AMs]

VARIABLES
    up, shed,   \* p1 as the ticks read it; the mode they decide is not running
    level,      \* config.DryRun
    managed,    \* config.Proxmox.ReplicationManaged
    at,         \* where apply is
    plan        \* the reading and the decision this tick is about

vars == <<replication, silences, up, shed, level, managed, at, plan>>
config == <<level, managed>>

TypeOK ==
    /\ ReplicationTypeOK /\ SilencesTypeOK
    /\ up \in BOOLEAN /\ shed \in BOOLEAN /\ managed \in BOOLEAN
    /\ level \in {"alert", "full"}
    /\ at \in {"idle", "list", "jobs", "silences", "last"}
    /\ plan \in [up : BOOLEAN, shed : BOOLEAN]
    /\ todo # {} => at \in {"jobs", "last"}
    /\ queue # {} \/ am # NoAM => at = "silences"
    /\ failed => at = "silences"

NoPlan == [up |-> TRUE, shed |-> FALSE]

(* Jobs that are not managed are not told apart. *)
Init ==
    /\ \E s \in Setups : level = s.level /\ managed = s.managed /\ urls = s.urls
    /\ ReplicationInit /\ SilencesInit
    /\ up \in BOOLEAN /\ shed \in BOOLEAN
    /\ managed \/ job = CHOOSE f \in JobsAtFirst : TRUE
    /\ at = "idle" /\ plan = NoPlan

-----------------------------------------------------------------------------
(* apply                                                                   *)

Observe ==
    /\ at = "idle"
    /\ plan' = [up |-> up, shed |-> shed]
    /\ at' = IF managed THEN "list" ELSE "jobs"
    /\ UNCHANGED <<replication, silences, up, shed, config>>

List ==
    /\ at = "list" /\ ListJobs(~plan.up)
    /\ at' = "jobs"
    /\ UNCHANGED <<silences, up, shed, config, plan>>

(* An error of the jobs is logged, and the silences follow all the same. *)
ListUnanswered ==
    /\ at = "list" /\ at' = "jobs"
    /\ UNCHANGED <<replication, silences, up, shed, config, plan>>

Set ==
    /\ at \in {"jobs", "last"} /\ \E j \in Jobs : SetJob(j)
    /\ UNCHANGED <<silences, up, shed, config, at, plan>>

(* Mutant: the silences do not wait for the jobs. *)
ToSilencesAtOnce ==
    /\ at = "jobs"
    /\ StartSilences(IF level = "full" THEN plan.shed ELSE ~plan.up)
    /\ at' = "silences"
    /\ UNCHANGED <<replication, up, shed, config, plan>>

(* What the silences follow: the mode in full, p1 itself in alert-only. *)
ToSilences ==
    /\ at = "jobs" /\ todo = {}
    /\ StartSilences(IF level = "full" THEN plan.shed ELSE ~plan.up)
    /\ at' = "silences"
    /\ UNCHANGED <<replication, up, shed, config, plan>>

Silence ==
    /\ at = "silences" /\ SilenceSteps
    /\ UNCHANGED <<replication, up, shed, config, at, plan>>

SilencesDone == at = "silences" /\ am = NoAM /\ queue = {}

(* execute disables the jobs once more, right before a power-off; a silence *)
(* that failed has ended apply before that.                                 *)
BeforePowerOff ==
    /\ SilencesDone /\ ~failed /\ level = "full" /\ managed /\ plan.up /\ plan.shed
    /\ ListJobs(TRUE)
    /\ at' = "last"
    /\ UNCHANGED <<silences, up, shed, config, plan>>

EndTick ==
    /\ SilencesDone \/ (at = "last" /\ todo = {})
    /\ at' = "idle" /\ plan' = NoPlan /\ failed' = FALSE
    /\ UNCHANGED <<replication, urls, held, walk, lastOk, up, shed, config>>

-----------------------------------------------------------------------------
(* The world.                                                              *)

(* p1 goes on or off, or the mode changes. *)
Change ==
    /\ \/ up' = ~up /\ UNCHANGED shed
       \/ shed' = ~shed /\ UNCHANGED up
    /\ UNCHANGED <<replication, silences, config, at, plan>>

ByHand(j) ==
    /\ managed
    /\ Toggle(j) \/ \E c \in Comments : Reword(j, c)
    /\ UNCHANGED <<silences, up, shed, config, at, plan>>

Tick ==
    /\ SilencesAge
    /\ UNCHANGED <<replication, up, shed, config, at, plan>>

Loop ==
    \/ Observe \/ List \/ ListUnanswered \/ Set \/ ToSilences \/ Silence
    \/ BeforePowerOff \/ EndTick

Next == Loop \/ Change \/ (\E j \in Jobs : ByHand(j)) \/ Tick

Spec == Init /\ [][Next]_vars

(* Run never stops reconciling, time passes, and Proxmox answers at times. *)
FairSpec == Spec /\ WF_vars(Loop) /\ WF_vars(Tick) /\ SF_vars(List)

-----------------------------------------------------------------------------
(* Properties.                                                             *)

(* Coverage is never dropped mid-run: whatever a reconcile creates, extends *)
(* or deletes, and wherever it fails, a configured silence in force is only *)
(* ever ended by time (reconcileSilencesAt, "creates and extensions happen  *)
(* before any retire").                                                     *)
NoGap ==
    [][\A a \in AMs : \A k \in Desired : Covered(a, k) /\ ~Covered(a, k)' => Tick]_vars

Wished == IF level = "full" THEN shed ELSE ~up

(* When p1 is back for good the alerts are, too: in the end no silence of   *)
(* ours is left anywhere, in no Alertmanager, duplicates and stale ones     *)
(* included, even where no call ever gets through (the grace window).       *)
AlertsReturn == <>[]~Wished => \A a \in AMs : <>[](Ours(a) = {})

(* An Alertmanager that answers is silenced for the shed although another   *)
(* one fails at every call (reconcileSilences, "one being unreachable       *)
(* doesn't disturb the others").                                            *)
OthersCovered ==
    \A a \in AMs \ Flaky :
       a \in urls /\ <>[]Wished => []<>(\A k \in Desired : Covered(a, k))

Quiet == <>[][\A j \in Jobs : ~ByHand(j)]_vars

(* The replication jobs follow p1 however often the list fails, and one     *)
(* that cannot be set does not hold back the others: while p1 stays off     *)
(* none goes on running, and once it stays up none is left disabled by us   *)
(* (reconcileReplication).                                                  *)
JobsFollow ==
    managed /\ Quiet => \A j \in Jobs \ Broken :
       /\ <>[]~up => <>[]job[j].disabled
       /\ <>[](up /\ ~shed) => <>[]~job[j].marked
=============================================================================

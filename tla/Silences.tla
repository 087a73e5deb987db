------------------------------ MODULE Silences ------------------------------
(***************************************************************************)
(* reconcileSilences (internal/controller/controller.go) over the          *)
(* Alertmanagers, with their client (internal/alertmgr/alertmgr.go).  Each *)
(* Alertmanager is listed and then converged call by call: missing         *)
(* silences are created and fading ones extended, then duplicates go, then *)
(* what is no longer wanted.  An error leaves one Alertmanager as it is    *)
(* and the next one is taken up.                                           *)
(*                                                                         *)
(* A silence is named by its Key; ours: createdBy is energy-watchdog.  One *)
(* time unit is silenceRefresh or less; left is what a silence has to run, *)
(* and one that has lapsed is gone.  Alertmanagers and silences are taken  *)
(* in any order.                                                           *)
(***************************************************************************)
EXTENDS Integers

CONSTANTS
    AMs,         \* the Alertmanagers
    Flaky,       \* those whose calls may fail
    Keys,        \* the silences there may be
    Desired,     \* those the configuration asks for
    Ids,         \* bound: the silences an Alertmanager holds at a time
    TTL, Refresh, Grace, \* silenceTTL, silenceRefresh, unsilenceGrace
    AtFirst      \* what each Alertmanager may hold to begin with

ASSUME SilencesAssumption ==
    /\ Flaky \subseteq AMs /\ "none" \notin AMs /\ Desired \subseteq Keys
    /\ Ids \subseteq Nat
    /\ TTL \in Nat /\ Refresh \in Nat \ {0} /\ Grace \in Nat \ {0}
    /\ Refresh <= TTL /\ Grace <= TTL
    /\ \A a \in AMs : \A h \in AtFirst[a] :
          /\ h \subseteq [id : Ids, key : Keys, ours : BOOLEAN, left : 1 .. TTL]
          /\ \A s, t \in h : s.id = t.id => s = t

VARIABLES
    urls,      \* config.Alertmanager.URLs
    held,      \* the silences of each Alertmanager
    queue,     \* the Alertmanagers this reconcile has yet to take up
    silence,   \* whether it wants silences or none
    am,        \* the Alertmanager it is at, or NoAM
    age,       \* time passed since it listed that one
    need,      \* desired silences yet to create or extend
    extra,     \* duplicates yet to delete
    gone,      \* others of ours yet to retire
    failed,    \* whether an Alertmanager of this reconcile has failed (firstErr)
    lastOk     \* history: age of the last reconcile that wanted silences here

walk == <<queue, silence, am, age, need, extra, gone>>
silences == <<urls, held, walk, failed, lastOk>>

NoAM == "none"
Held == [id : Ids, key : Keys, ours : BOOLEAN, left : 1 .. TTL]

SilencesTypeOK ==
    /\ urls \subseteq AMs /\ held \in [AMs -> SUBSET Held]
    /\ \A a \in AMs : \A s, t \in held[a] : s.id = t.id => s = t
    /\ queue \subseteq AMs /\ silence \in BOOLEAN /\ am \in AMs \cup {NoAM}
    /\ age \in 0 .. TTL
    /\ need \subseteq Desired /\ extra \subseteq Ids /\ gone \subseteq Ids
    /\ failed \in BOOLEAN
    /\ lastOk \in [AMs -> 0 .. Refresh]

SilencesInit ==
    /\ held \in [AMs -> UNION {AtFirst[a] : a \in AMs}]
    /\ \A a \in AMs : held[a] \in (IF a \in urls THEN AtFirst[a] ELSE {{}})
    /\ queue = {} /\ silence = FALSE /\ am = NoAM /\ age = 0
    /\ need = {} /\ extra = {} /\ gone = {} /\ failed = FALSE
    /\ lastOk = [a \in AMs |-> Refresh]

Ours(a) == {s \in held[a] : s.ours}
Covered(a, k) == \E s \in Ours(a) : s.key = k

(* reconcileSilences *)
StartSilences(wanted) ==
    /\ queue' = urls /\ silence' = wanted /\ failed' = FALSE
    /\ UNCHANGED <<urls, held, am, age, need, extra, gone, lastOk>>

(* One silence of ours per key: the one that ends last. *)
Kept(a, kept) ==
    /\ kept \subseteq Ours(a)
    /\ \A s \in Ours(a) : \E t \in kept : t.key = s.key /\ t.left >= s.left
    /\ \A s, t \in kept : s.key = t.key => s = t

(* Mutant: every silence is sent into the grace window again, every tick. *)
RetiredAlways(kept) == {s \in kept : silence => s.key \notin Desired}

(* Mutant: while silencing, all that was there before is replaced. *)
RetiredAll(kept) == {s \in kept : silence \/ s.left > Grace}

(* What goes: everything unwanted at once while silencing; on the way back  *)
(* only what outlasts the grace window, which is shortened to it.           *)
Retired(kept) == {s \in kept : IF silence THEN s.key \notin Desired ELSE s.left > Grace}

IdsOf(S) == {s.id : s \in S}

(* The next Alertmanager is listed, and the plan for it made. *)
ListSilences(a) ==
    /\ am = NoAM /\ a \in queue
    /\ am' = a /\ queue' = queue \ {a} /\ age' = 0
    /\ \E kept \in SUBSET Ours(a) :
          /\ Kept(a, kept)
          /\ need' = {k \in Desired : silence /\ ~\E s \in kept : s.key = k /\ s.left >= Refresh}
          /\ extra' = IdsOf(Ours(a) \ kept)
          /\ gone' = IdsOf(Retired(kept))
    /\ lastOk' = IF silence THEN lastOk ELSE [lastOk EXCEPT ![a] = Refresh]
    /\ UNCHANGED <<urls, held, silence, failed>>

(* Done with this one. *)
Leave == am' = NoAM /\ age' = 0 /\ need' = {} /\ extra' = {} /\ gone' = {}

(* Mutant: an error ends the whole reconcile. *)
GiveUpAll == Leave /\ queue' = {} /\ failed' = TRUE /\ UNCHANGED <<urls, held, silence, lastOk>>

(* reconcileSilencesAt returned an error: on to the next Alertmanager. *)
GiveUp == Leave /\ failed' = TRUE /\ UNCHANGED <<urls, held, queue, silence, lastOk>>

ListFails(a) ==
    /\ am = NoAM /\ a \in queue \cap Flaky
    /\ queue' = queue \ {a} /\ failed' = TRUE
    /\ UNCHANGED <<urls, held, silence, am, age, need, extra, gone, lastOk>>

(* A call goes through; or its answer is lost, and the Alertmanager with it. *)
Calls(result, rest) ==
    /\ held' = [held EXCEPT ![am] = result]
    /\ \/ rest /\ UNCHANGED <<am, age, failed>>
       \/ am \in Flaky /\ Leave /\ failed' = TRUE
    /\ UNCHANGED <<urls, queue, silence, lastOk>>

CallFails == am \in Flaky /\ GiveUp

Without(id) == {s \in held[am] : s.id # id}
Lasting(s, left) == IF left > 0 THEN {[s EXCEPT !.left = left]} ELSE {}

(* Mutant: what is there is never extended. *)
EnsureOnce(k) ==
    /\ k \in need
    /\ IF \E s \in Ours(am) : s.key = k
       THEN /\ need' = need \ {k}
            /\ UNCHANGED <<urls, held, queue, silence, am, age, extra, gone, failed, lastOk>>
       ELSE \E id \in Ids \ (IdsOf(held[am]) \cup extra \cup gone) :
               Calls(held[am] \cup Lasting([id |-> id, key |-> k, ours |-> TRUE, left |-> 1], TTL - age),
                     need' = need \ {k} /\ UNCHANGED <<extra, gone>>)

(* Create, or Update of the silence that is fading (a lapsed one is made    *)
(* anew).  It runs from the moment of the listing.                          *)
Ensure(k) ==
    /\ k \in need
    /\ LET fading == {s.id : s \in {t \in Ours(am) : t.key = k /\ t.id \notin extra}} IN
       \E id \in (IF fading # {} THEN fading ELSE Ids \ (IdsOf(held[am]) \cup extra \cup gone)) :
          Calls(Without(id) \cup Lasting([id |-> id, key |-> k, ours |-> TRUE, left |-> 1], TTL - age),
                need' = need \ {k} /\ UNCHANGED <<extra, gone>>)

DeleteExtra(id) ==
    /\ need = {} /\ id \in extra
    /\ Calls(Without(id), extra' = extra \ {id} /\ UNCHANGED <<need, gone>>)

(* Delete, or Reschedule into the grace window; a window that is over by   *)
(* now is refused.                                                         *)
Retire(id) ==
    /\ need = {} /\ extra = {} /\ id \in gone
    /\ IF silence \/ age < Grace
       THEN Calls(Without(id) \cup
                     (IF silence THEN {}
                      ELSE UNION {Lasting(s, Grace - age) : s \in held[am] \ Without(id)}),
                  gone' = gone \ {id} /\ UNCHANGED <<need, extra>>)
       ELSE GiveUp

Converged ==
    /\ am # NoAM /\ need = {} /\ extra = {} /\ gone = {}
    /\ Leave
    /\ lastOk' = IF silence THEN [lastOk EXCEPT ![am] = IF age < Refresh THEN age ELSE Refresh]
                 ELSE lastOk
    /\ UNCHANGED <<urls, held, queue, silence, failed>>

SilenceSteps ==
    \/ \E a \in AMs : ListSilences(a) \/ ListFails(a)
    \/ \E k \in Desired : Ensure(k)
    \/ \E id \in Ids : DeleteExtra(id) \/ Retire(id)
    \/ am # NoAM /\ CallFails
    \/ Converged

(* One time unit passes; an Alertmanager is seen to within the TTL. *)
SilencesAge ==
    /\ am # NoAM => age + 1 < TTL
    /\ age' = IF am = NoAM THEN 0 ELSE age + 1
    /\ held' = [a \in AMs |-> {[s EXCEPT !.left = @ - 1] : s \in {t \in held[a] : t.left > 1}}]
    /\ lastOk' = [a \in AMs |-> IF lastOk[a] < Refresh THEN lastOk[a] + 1 ELSE Refresh]
    /\ UNCHANGED <<urls, queue, silence, am, need, extra, gone, failed>>

-----------------------------------------------------------------------------
(* Properties.                                                             *)

(* Coverage outlives the watchdog and its outages by silenceRefresh: after  *)
(* a reconcile that wanted silences and came through, every configured      *)
(* silence stands for at least that long, unless it was told to go since    *)
(* (reconcileSilencesAt; silenceTTL and silenceRefresh,                     *)
(* controller.go:1098-1105).                                                *)
CoverageLasts == \A a \in AMs : lastOk[a] < Refresh => \A k \in Desired : Covered(a, k)
=============================================================================

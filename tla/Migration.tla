----------------------------- MODULE Migration -----------------------------
(***************************************************************************)
(* migrateAll, migrateBatch and stillOnNode (internal/controller/          *)
(* controller.go), called tick after tick until p1 is empty of criticals.  *)
(* A call runs one round per target node; in a round every target gets a   *)
(* share of the guests that are left, as one bulk task, all at once, each  *)
(* awaited by a goroutine of its own.  A task goes on when nobody waits    *)
(* for it any more: its guests stay locked and may arrive rounds later.    *)
(*                                                                         *)
(* Guests are numbered in the order Proxmox lists them, and are running.   *)
(* lastErr only words the error of a call that fails anyhow: left out.     *)
(***************************************************************************)
EXTENDS Integers, FiniteSets, Sequences, Functions

CONSTANTS
    Criticals,   \* the guests of class migrate, by number
    Targets,     \* config.Proxmox.TargetNodes, a sequence of distinct nodes
    Room,        \* how many of the guests each target takes
    Faults       \* what may go wrong, see FaultKinds

FaultKinds == {"refused", "post", "wait", "list", "byHand"}

Nodes == Range(Targets)
n == Len(Targets)

ASSUME MigrationAssumption ==
    /\ Criticals \subseteq Nat /\ IsFiniteSet(Criticals)
    /\ n \in Nat \ {0} /\ Targets \in [1 .. n -> Nodes] /\ IsInjective(Targets)
    /\ "p1" \notin Nodes /\ "none" \notin Nodes
    /\ Room \in [Nodes -> Nat]
    /\ Faults \subseteq FaultKinds

VARIABLES
    where,       \* the node each guest is on
    moving,      \* the target a task is moving each guest to, or "none"
    round,       \* of the running call
    remaining,   \* guests the call still has to move
    posting,     \* targets whose goroutine has still to post its task
    open,        \* targets whose goroutine waits for its task
    outcome,     \* of the call: running, done, failed, or its list failed
    called,      \* history: the guests this call was given
    tried,       \* history: the targets it has sent each of them to
    byHand       \* history: guests moved back onto p1 during the call

vars == <<where, moving, round, remaining, posting, open, outcome, called, tried, byHand>>
call == <<round, remaining, posting, open, outcome, called, tried>>

TypeOK ==
    /\ where \in [Criticals -> Nodes \cup {"p1"}]
    /\ moving \in [Criticals -> Nodes \cup {"none"}]
    /\ \A g \in Criticals : moving[g] # "none" => where[g] = "p1"
    /\ \A t \in Nodes : Cardinality({g \in Criticals : where[g] = t}) <= Room[t]
    /\ round \in 0 .. n - 1 /\ remaining \subseteq called /\ called \subseteq Criticals
    /\ posting \subseteq Nodes /\ open \subseteq Nodes \ posting
    /\ outcome \in {"running", "done", "failed", "unlisted"}
    /\ tried \in [Criticals -> SUBSET Nodes] /\ byHand \subseteq Criticals

Here == {g \in Criticals : where[g] = "p1"}
Full(t) == Cardinality({g \in Criticals : where[g] = t}) >= Room[t]

Init ==
    /\ where = [g \in Criticals |-> "p1"] /\ moving = [g \in Criticals |-> "none"]
    /\ round = 0 /\ remaining = {} /\ posting = {} /\ open = {} /\ outcome = "done"
    /\ called = {} /\ tried = [g \in Criticals |-> {}] /\ byHand = {}

-----------------------------------------------------------------------------
(* migrateAll                                                              *)

(* How many come before it in the list. *)
Place(g, left) == Cardinality({h \in left : h < g})

(* Mutant: every round deals the guests out the same way. *)
TargetOfUnshifted(g, left, r) == Targets[(Place(g, left) % n) + 1]

(* "equal split, shifted each round" *)
TargetOf(g, left, r) == Targets[((Place(g, left) + r) % n) + 1]

(* The batch of a target in byTarget. *)
Batch(t) == {g \in remaining : TargetOf(g, remaining, round) = t}

(* byTarget, and a goroutine for every target in it. *)
StartRound(left, r) ==
    LET dealt == [g \in left |-> TargetOf(g, left, r)] IN
    /\ round' = r /\ remaining' = left /\ posting' = Range(dealt)
    /\ tried' = [g \in Criticals |->
          (IF r = 0 THEN {} ELSE tried[g]) \cup (IF g \in left THEN {dealt[g]} ELSE {})]

(* execute, with guests to migrate. *)
Call ==
    /\ outcome # "running" /\ Here # {}
    /\ StartRound(Here, 0)
    /\ outcome' = "running" /\ called' = Here /\ byHand' = {}
    /\ UNCHANGED <<where, moving, open>>

(* migrateBatch posts the task, which skips a guest that has left and one   *)
(* that an older task has locked,                                           *)
Post(t) ==
    /\ t \in posting
    /\ posting' = posting \ {t} /\ open' = open \cup {t}
    /\ moving' = [g \in Criticals |->
          IF g \in Batch(t) /\ where[g] = "p1" /\ moving[g] = "none" THEN t ELSE moving[g]]
    /\ UNCHANGED <<where, round, remaining, outcome, called, tried, byHand>>

(* or cannot; *)
PostFails(t) ==
    /\ "post" \in Faults /\ t \in posting
    /\ posting' = posting \ {t}
    /\ UNCHANGED <<where, moving, round, remaining, open, outcome, called, tried, byHand>>

(* it returns when its task is over, *)
Over(t) == \A g \in Batch(t) : moving[g] # t
Return(t) ==
    /\ t \in open /\ Over(t)
    /\ open' = open \ {t}
    /\ UNCHANGED <<where, moving, round, remaining, posting, outcome, called, tried, byHand>>

(* or migrateTimeout is, or a poll of the task failed; the task carries on. *)
StopWaiting(t) ==
    /\ "wait" \in Faults /\ t \in open /\ ~Over(t)
    /\ open' = open \ {t}
    /\ UNCHANGED <<where, moving, round, remaining, posting, outcome, called, tried, byHand>>

(* Mutant: a guest whose migration is still under way counts as gone. *)
stillOnNodeIdle == {g \in remaining : where[g] = "p1" /\ moving[g] = "none"}

(* Mutant: whatever critical is on p1 by now is this call's. *)
stillOnNodeAny == Here

(* stillOnNode *)
stillOnNode == {g \in remaining : where[g] = "p1"}

(* All have returned, and p1 is read back. *)
Join ==
    /\ outcome = "running" /\ posting \cup open = {}
    /\ \/ /\ stillOnNode # {} /\ round < n - 1
          /\ StartRound(stillOnNode, round + 1)
          /\ UNCHANGED outcome
       \/ /\ stillOnNode = {} \/ round = n - 1
          /\ outcome' = IF stillOnNode = {} THEN "done" ELSE "failed"
          /\ UNCHANGED <<round, remaining, posting, tried>>
    /\ UNCHANGED <<where, moving, open, called, byHand>>

Unlisted ==
    /\ outcome = "running" /\ posting \cup open = {} /\ "list" \in Faults
    /\ outcome' = "unlisted"
    /\ UNCHANGED <<where, moving, round, remaining, posting, open, called, tried, byHand>>

-----------------------------------------------------------------------------
(* Proxmox, and whoever works with it.                                     *)

Arrives(g) ==
    /\ moving[g] # "none" /\ ~Full(moving[g])
    /\ where' = [where EXCEPT ![g] = moving[g]] /\ moving' = [moving EXCEPT ![g] = "none"]
    /\ UNCHANGED <<call, byHand>>

(* The target is full, *)
Stays(g) ==
    /\ moving[g] # "none" /\ Full(moving[g])
    /\ moving' = [moving EXCEPT ![g] = "none"]
    /\ UNCHANGED <<where, call, byHand>>

(* or the migration fails for another reason. *)
Refused(g) ==
    /\ "refused" \in Faults /\ moving[g] # "none" /\ ~Full(moving[g])
    /\ moving' = [moving EXCEPT ![g] = "none"]
    /\ UNCHANGED <<where, call, byHand>>

MovedBack(g) ==
    /\ "byHand" \in Faults /\ where[g] # "p1"
    /\ where' = [where EXCEPT ![g] = "p1"]
    /\ byHand' = byHand \cup {g}
    /\ UNCHANGED <<moving, call>>

Loop == Call \/ (\E t \in Nodes : Post(t) \/ Return(t)) \/ Join
Task(g) == Arrives(g) \/ Stays(g)
Mishap ==
    \/ \E t \in Nodes : PostFails(t) \/ StopWaiting(t)
    \/ \E g \in Criticals : Refused(g) \/ MovedBack(g)
    \/ Unlisted

Next == Loop \/ (\E g \in Criticals : Task(g)) \/ Mishap

Spec == Init /\ [][Next]_vars

(* The goroutines are joined, the next tick calls again, and every task     *)
(* comes to an end: Proxmox' own migration gives up on its own.             *)
FairSpec == Spec /\ WF_vars(Loop) /\ \A g \in Criticals : WF_vars(Task(g))

-----------------------------------------------------------------------------
(* Properties.                                                             *)

(* What a call reports is true: success when every guest it was given has   *)
(* left p1 (one moved back by hand meanwhile aside), failure when one is    *)
(* still there, however its tasks ended, were refused, not waited for, or   *)
(* came through late - and no target is ever overfilled (migrateAll,        *)
(* stillOnNode).                                                            *)
Promise == INSTANCE Evacuation
Evacuates == Promise!Spec

(* A call that has failed has tried its guests on every target, or on all   *)
(* but as many as guests before them in the list have left p1 on the way:   *)
(* each of those shifts the list under them by one, so that a guest may be  *)
(* sent to one full target twice and never to the other                     *)
(* (controller.go:695-727).                                                 *)
TriedEverywhere ==
    outcome = "failed" =>
       \A g \in remaining :
          Cardinality(Nodes \ tried[g]) <= Cardinality({h \in called \ remaining : h < g})

Roomy == \E t \in Nodes : Room[t] >= Cardinality(Criticals)

(* From some moment on no request and no migration fails, and nobody interferes. *)
Calm == <>[][~Mishap]_vars

(* Whatever has gone wrong, and however many targets are full: if one has   *)
(* room for everybody, a few ticks of calm empty p1 (migrateAll, and the    *)
(* loop that calls it again).                                               *)
EventuallyGone == Roomy /\ Calm => <>[](Here = {})
=============================================================================

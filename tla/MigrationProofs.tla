-------------------------- MODULE MigrationProofs --------------------------
(***************************************************************************)
(* Theorems about migrateAll, for any number of guests, any targets with   *)
(* any room, and whatever fails.                                           *)
(***************************************************************************)
EXTENDS Migration, FiniteSetTheorems, TLAPS

(* The constants are what the proofs count with. *)
LEMMA Counting ==
    /\ n \in Nat \ {0}
    /\ \A S \in SUBSET Criticals : IsFiniteSet(S) /\ Cardinality(S) \in Nat
    /\ \A t \in Nodes : Room[t] \in Nat
<1>1. \A S \in SUBSET Criticals : IsFiniteSet(S)
  BY MigrationAssumption, FS_Subset
<1> QED
  BY <1>1, FS_CardinalityType, MigrationAssumption

(* Every guest is dealt to one of the targets. *)
LEMMA Dealt ==
    ASSUME NEW left \in SUBSET Criticals, NEW g, NEW r \in Nat
    PROVE  TargetOf(g, left, r) \in Nodes
<1>1. Place(g, left) \in Nat
  <2>1. {h \in left : h < g} \in SUBSET Criticals
    OBVIOUS
  <2> QED
    BY <2>1, Counting DEF Place
<1>2. n \in Nat /\ n > 0 /\ Targets \in [1 .. n -> Nodes]
  BY MigrationAssumption
<1> HIDE DEF n
<1>3. \A x \in Nat : x % n \in 0 .. n - 1
  BY <1>2
<1>4. ((Place(g, left) + r) % n) + 1 \in 1 .. n
  BY <1>1, <1>2, <1>3
<1> QED
  BY <1>2, <1>4 DEF TargetOf

-----------------------------------------------------------------------------
(* Types.                                                                  *)

(* A call that has returned has left no goroutine behind. *)
Joined == outcome # "running" => posting = {} /\ open = {}

TypeInv == TypeOK /\ Joined

(* Only guests of p1 are dealt, and no goroutine is left over. *)
LEMMA StartRoundType ==
    ASSUME TypeInv, NEW left \in SUBSET Criticals, NEW r \in 0 .. n - 1, StartRound(left, r)
    PROVE  /\ round' = r /\ remaining' = left
           /\ posting' \subseteq Nodes
           /\ tried' \in [Criticals -> SUBSET Nodes]
<1>1. r \in Nat
  BY Counting
<1>2. \A g \in left : TargetOf(g, left, r) \in Nodes
  BY <1>1, Dealt
<1> QED
  BY <1>2 DEF StartRound, TypeInv, TypeOK, Range

(* The variables hold what the code's can: the rounds stay inside the       *)
(* target list, only guests of the call are dealt out, a guest is moved     *)
(* only while it is on p1, a target is never overfilled, and each has at    *)
(* most one goroutine (migrateAll, migrateBatch).                           *)
THEOREM TypeCorrect == Spec => []TypeOK
<1>1. Init => TypeInv
  <2> SUFFICES ASSUME Init PROVE TypeInv
    OBVIOUS
  <2>1. \A t \in Nodes : {g \in Criticals : where[g] = t} = {}
    BY MigrationAssumption DEF Init
  <2>2. \A t \in Nodes : Cardinality({g \in Criticals : where[g] = t}) <= Room[t]
    BY <2>1, Counting, FS_EmptySet
  <2>3. 0 \in 0 .. n - 1
    BY Counting
  <2> QED
    BY <2>2, <2>3 DEF Init, TypeInv, TypeOK, Joined
<1>2. TypeInv /\ [Next]_vars => TypeInv'
  <2> SUFFICES ASSUME TypeInv, [Next]_vars PROVE TypeInv'
    OBVIOUS
  <2> USE DEF TypeInv, Joined
  <2>1. CASE Call
    <3>1. 0 \in 0 .. n - 1 /\ Here \in SUBSET Criticals
      BY Counting DEF Here
    <3>2. StartRound(Here, 0)
      BY <2>1 DEF Call
    <3>3. /\ round' = 0 /\ remaining' = Here
          /\ posting' \subseteq Nodes /\ tried' \in [Criticals -> SUBSET Nodes]
      BY <3>1, <3>2, StartRoundType
    <3> QED
      BY <2>1, <3>1, <3>3 DEF Call, TypeOK
  <2>2. ASSUME NEW t \in Nodes, Post(t) PROVE TypeInv'
    BY <2>2, MigrationAssumption DEF Post, Batch, TypeOK
  <2>3. ASSUME NEW t \in Nodes, PostFails(t) PROVE TypeInv'
    BY <2>3 DEF PostFails, TypeOK
  <2>4. ASSUME NEW t \in Nodes, Return(t) PROVE TypeInv'
    BY <2>4 DEF Return, TypeOK
  <2>5. ASSUME NEW t \in Nodes, StopWaiting(t) PROVE TypeInv'
    BY <2>5 DEF StopWaiting, TypeOK
  <2>6. CASE Join
    <3>1. CASE stillOnNode # {} /\ round < n - 1 /\ StartRound(stillOnNode, round + 1) /\ UNCHANGED outcome
      <4>1. stillOnNode \in SUBSET Criticals /\ stillOnNode \subseteq called
        BY DEF stillOnNode, TypeOK
      <4>2. round + 1 \in 0 .. n - 1
        BY <3>1, Counting DEF TypeOK
      <4>3. /\ round' = round + 1 /\ remaining' = stillOnNode
            /\ posting' \subseteq Nodes /\ tried' \in [Criticals -> SUBSET Nodes]
        BY <3>1, <4>1, <4>2, StartRoundType
      <4> QED
        BY <2>6, <3>1, <4>1, <4>2, <4>3 DEF Join, TypeOK
    <3>2. CASE UNCHANGED <<round, remaining, posting, tried>> /\ outcome' \in {"done", "failed"}
      BY <2>6, <3>2 DEF Join, TypeOK
    <3> QED
      BY <2>6, <3>1, <3>2 DEF Join
  <2>7. CASE Unlisted
    BY <2>7 DEF Unlisted, TypeOK
  <2>8. ASSUME NEW g \in Criticals, Arrives(g) PROVE TypeInv'
    <3> DEFINE On(u) == {h \in Criticals : where[h] = u}
    <3> PICK t \in Nodes : t = moving[g]
      BY <2>8 DEF Arrives, TypeOK
    <3>1. where[g] = "p1" /\ Cardinality(On(t)) < Room[t]
      BY <2>8, Counting DEF Arrives, Full, TypeOK
    <3>2. where' = [where EXCEPT ![g] = t] /\ moving' = [moving EXCEPT ![g] = "none"]
      BY <2>8 DEF Arrives
    <3>3. On(t)' = On(t) \cup {g} /\ \A u \in Nodes \ {t} : On(u)' = On(u)
      BY <3>1, <3>2, MigrationAssumption DEF TypeOK
    <3>4. Cardinality(On(t)') = Cardinality(On(t)) + 1
      <4>1. IsFiniteSet(On(t)) /\ g \notin On(t)
        BY <3>1, Counting, MigrationAssumption
      <4> QED
        BY <3>3, <4>1, FS_AddElement
    <3>5. ASSUME NEW u \in Nodes PROVE Cardinality(On(u)') <= Room[u]
      <4>1. CASE u # t
        BY <3>3, <4>1 DEF TypeOK
      <4>2. CASE u = t
        <5>1. Cardinality(On(t)) \in Nat /\ Room[t] \in Nat
          BY Counting
        <5>2. Cardinality(On(t)') <= Room[t]
          BY <3>1, <3>4, <5>1
        <5> QED
          BY <4>2, <5>2
      <4> QED
        BY <4>1, <4>2
    <3> QED
      BY <2>8, <3>1, <3>2, <3>5, MigrationAssumption DEF Arrives, call, TypeOK
  <2>9. ASSUME NEW g \in Criticals, Stays(g) PROVE TypeInv'
    BY <2>9 DEF Stays, call, TypeOK
  <2>10. ASSUME NEW g \in Criticals, Refused(g) PROVE TypeInv'
    BY <2>10 DEF Refused, call, TypeOK
  <2>11. ASSUME NEW g \in Criticals, MovedBack(g) PROVE TypeInv'
    <3> DEFINE On(u) == {h \in Criticals : where[h] = u}
    <3>1. where' = [where EXCEPT ![g] = "p1"] /\ byHand' = byHand \cup {g}
      BY <2>11 DEF MovedBack
    <3>2. ASSUME NEW u \in Nodes PROVE Cardinality(On(u)') <= Room[u]
      <4>1. On(u)' \in SUBSET On(u)
        BY <3>1, MigrationAssumption DEF TypeOK
      <4>2. IsFiniteSet(On(u)) /\ Cardinality(On(u)) \in Nat
        BY Counting
      <4>3. Cardinality(On(u)') <= Cardinality(On(u)) /\ Cardinality(On(u)') \in Nat
        BY <4>1, <4>2, FS_Subset, FS_CardinalityType
      <4>4. Cardinality(On(u)) <= Room[u] /\ Room[u] \in Nat
        BY Counting DEF TypeOK
      <4> QED
        BY <4>2, <4>3, <4>4
    <3> QED
      BY <2>11, <3>1, <3>2 DEF MovedBack, call, TypeOK
  <2>12. CASE UNCHANGED vars
    BY <2>12 DEF vars, TypeOK
  <2> QED
    BY <2>1, <2>2, <2>3, <2>4, <2>5, <2>6, <2>7, <2>8, <2>9, <2>10, <2>11, <2>12
       DEF Next, Loop, Task, Mishap
<1>3. TypeInv => TypeOK
  BY DEF TypeInv
<1> QED
  BY <1>1, <1>2, <1>3, PTL DEF Spec

-----------------------------------------------------------------------------
(* Refinement.                                                             *)

(* What success rests on: a guest that is on p1 without anybody having      *)
(* brought it back is among those the call still has to move, however often *)
(* the rest were read back, and through whichever round it came.            *)
NoneForgotten ==
    outcome = "running" => \A g \in Criticals : where[g] = "p1" /\ g \notin byHand => g \in remaining

(* Every step keeps it. *)
LEMMA NoneForgottenStep ==
    ASSUME TypeOK, NoneForgotten, [Next]_vars
    PROVE  NoneForgotten'
<1> USE DEF NoneForgotten
<1>1. CASE Call
  BY <1>1 DEF Call, StartRound, Here
<1>2. ASSUME NEW t \in Nodes, Post(t) PROVE NoneForgotten'
  BY <1>2 DEF Post
<1>3. ASSUME NEW t \in Nodes, PostFails(t) PROVE NoneForgotten'
  BY <1>3 DEF PostFails
<1>4. ASSUME NEW t \in Nodes, Return(t) PROVE NoneForgotten'
  BY <1>4 DEF Return
<1>5. ASSUME NEW t \in Nodes, StopWaiting(t) PROVE NoneForgotten'
  BY <1>5 DEF StopWaiting
<1>6. CASE Join
  BY <1>6 DEF Join, StartRound, stillOnNode
<1>7. CASE Unlisted
  BY <1>7 DEF Unlisted
<1>8. ASSUME NEW g \in Criticals, Arrives(g) PROVE NoneForgotten'
  BY <1>8, MigrationAssumption DEF Arrives, call, TypeOK
<1>9. ASSUME NEW g \in Criticals, Stays(g) PROVE NoneForgotten'
  BY <1>9 DEF Stays, call
<1>10. ASSUME NEW g \in Criticals, Refused(g) PROVE NoneForgotten'
  BY <1>10 DEF Refused, call
<1>11. ASSUME NEW g \in Criticals, MovedBack(g) PROVE NoneForgotten'
  BY <1>11 DEF MovedBack, call, TypeOK
<1>12. CASE UNCHANGED vars
  BY <1>12 DEF vars
<1> QED
  BY <1>1, <1>2, <1>3, <1>4, <1>5, <1>6, <1>7, <1>8, <1>9, <1>10, <1>11, <1>12
     DEF Next, Loop, Task, Mishap

(* Every step is one of module Evacuation, or changes nothing it sees. *)
LEMMA EvacuationStep ==
    ASSUME TypeOK, NoneForgotten, [Next]_vars
    PROVE  Promise!Next \/ (UNCHANGED Promise!vars)
<1> USE DEF Promise!vars
<1>1. CASE Call
  BY <1>1 DEF Call, StartRound, Here, Promise!Next, Promise!Call, Promise!Here
<1>2. ASSUME NEW t \in Nodes, Post(t) PROVE UNCHANGED Promise!vars
  BY <1>2 DEF Post
<1>3. ASSUME NEW t \in Nodes, PostFails(t) PROVE UNCHANGED Promise!vars
  BY <1>3 DEF PostFails
<1>4. ASSUME NEW t \in Nodes, Return(t) PROVE UNCHANGED Promise!vars
  BY <1>4 DEF Return
<1>5. ASSUME NEW t \in Nodes, StopWaiting(t) PROVE UNCHANGED Promise!vars
  BY <1>5 DEF StopWaiting
<1>6. CASE Join
  <2>1. where' = where /\ byHand' = byHand
    BY <1>6 DEF Join
  <2>2. CASE outcome' = outcome
    BY <2>1, <2>2
  <2>3. CASE stillOnNode = {} /\ outcome' = "done"
    BY <1>6, <2>1, <2>3 DEF Join, NoneForgotten, stillOnNode, Promise!Next, Promise!Succeeds, Promise!Here
  <2>4. CASE stillOnNode # {} /\ outcome' = "failed"
    BY <1>6, <2>1, <2>4 DEF Join, TypeOK, stillOnNode, Promise!Next, Promise!Fails, Promise!Here
  <2> QED
    BY <1>6, <2>2, <2>3, <2>4 DEF Join
<1>7. CASE Unlisted
  BY <1>7 DEF Unlisted, Promise!Next, Promise!Fails
<1>8. ASSUME NEW g \in Criticals, Arrives(g) PROVE Promise!Next
  <2> PICK t \in Nodes : t = moving[g]
    BY <1>8 DEF Arrives, TypeOK
  <2>1. Cardinality({h \in Criticals : where[h] = t}) < Room[t]
    BY <1>8, Counting DEF Arrives, Full
  <2>2. where' = [where EXCEPT ![g] = t] /\ g \in Promise!Here /\ outcome' = outcome /\ byHand' = byHand
    BY <1>8 DEF Arrives, call, TypeOK, Promise!Here
  <2>3. Promise!Leaves
    BY <2>1, <2>2, Zenon DEF Promise!Leaves, Promise!Cardinality, Cardinality
  <2> QED
    BY <2>3 DEF Promise!Next
<1>9. ASSUME NEW g \in Criticals, Stays(g) PROVE UNCHANGED Promise!vars
  BY <1>9 DEF Stays, call
<1>10. ASSUME NEW g \in Criticals, Refused(g) PROVE UNCHANGED Promise!vars
  BY <1>10 DEF Refused, call
<1>11. ASSUME NEW g \in Criticals, MovedBack(g) PROVE Promise!Next
  BY <1>11 DEF MovedBack, call, Promise!Next, Promise!Returns, Promise!Here
<1>12. CASE UNCHANGED vars
  BY <1>12 DEF vars
<1> QED
  BY <1>1, <1>2, <1>3, <1>4, <1>5, <1>6, <1>7, <1>8, <1>9, <1>10, <1>11, <1>12
     DEF Next, Loop, Task, Mishap

(* migrateAll implements Evacuation for every number of guests and targets: *)
(* whatever fails, times out or arrives late, it reports success only when  *)
(* every guest it was given has left p1, and guests leave only for room.    *)
THEOREM MigrationEvacuates == Spec => Evacuates
<1>1. Init => Promise!Init /\ NoneForgotten
  BY DEF Init, Promise!Init, NoneForgotten
<1>2. TypeOK /\ NoneForgotten /\ [Next]_vars => NoneForgotten'
  BY NoneForgottenStep
<1>3. TypeOK /\ NoneForgotten /\ [Next]_vars => [Promise!Next]_(Promise!vars)
  BY EvacuationStep
<1> QED
  BY <1>1, <1>2, <1>3, TypeCorrect, PTL DEF Spec, Evacuates, Promise!Spec
-----------------------------------------------------------------------------
(* Counting modulo the number of targets.                                  *)

(* Quotient and remainder. *)
LEMMA Division ==
    ASSUME NEW m \in Nat \ {0}, NEW a \in Nat
    PROVE  a = m * (a \div m) + (a % m) /\ a % m \in 0 .. m - 1 /\ a \div m \in Nat
OBVIOUS

(* No multiple of m but 0 is smaller than m. *)
LEMMA SmallMultiple ==
    ASSUME NEW m \in Nat \ {0}, NEW d \in Int, NEW x \in Int, m * d = x, x < m, x > -m
    PROVE  d = 0
<1>1. CASE d >= 1
  <2>1. m * d >= m
    BY <1>1
  <2> QED
    BY <2>1
<1>2. CASE d <= -1
  <2>1. m * d <= -m
    BY <1>2
  <2> QED
    BY <2>1
<1> QED
  BY <1>1, <1>2

(* The remainder is the only one there is. *)
LEMMA Remainder ==
    ASSUME NEW m \in Nat \ {0}, NEW q \in Nat, NEW i \in 0 .. m - 1
    PROVE  (m * q + i) % m = i
<1> DEFINE a == m * q + i
           D == a \div m
           r == a % m
<1>1. a \in Nat
  OBVIOUS
<1>2. a = m * D + r /\ r \in 0 .. m - 1 /\ D \in Nat
  BY <1>1, Division
<1> HIDE DEF D, r
<1>3. m * (q - D) = r - i
  BY <1>2
<1>4. q - D \in Int /\ r - i \in Int /\ r - i < m /\ r - i > -m
  BY <1>2
<1>5. q - D = 0
  BY <1>3, <1>4, SmallMultiple
<1> QED
  BY <1>2, <1>3, <1>5 DEF r, D

(* m consecutive numbers have every remainder. *)
LEMMA Shift ==
    ASSUME NEW m \in Nat \ {0}, NEW P \in Nat, NEW i \in 0 .. m - 1
    PROVE  \E k \in 0 .. m - 1 : (P + k) % m = i
<1> DEFINE q == P \div m
           r == P % m
<1>1. P = m * q + r /\ r \in 0 .. m - 1 /\ q \in Nat
  BY Division
<1> HIDE DEF q, r
<1>2. CASE i >= r
  <2>1. P + (i - r) = m * q + i /\ i - r \in 0 .. m - 1
    BY <1>1, <1>2
  <2>2. (m * q + i) % m = i
    BY <1>1, Remainder
  <2> QED
    BY <2>1, <2>2
<1>3. CASE i < r
  <2>1. P + (i - r + m) = m * (q + 1) + i /\ i - r + m \in 0 .. m - 1
    BY <1>1, <1>3
  <2>2. (m * (q + 1) + i) % m = i
    BY <1>1, Remainder
  <2> QED
    BY <2>1, <2>2
<1> QED
  BY <1>1, <1>2, <1>3

-----------------------------------------------------------------------------
(* The targets tried.                                                      *)

Before(S, g) == Cardinality({h \in S : h < g})

(* Who drops out before a guest moves it up in the list, one place each. *)
LEMMA MovesUp ==
    ASSUME NEW C \in SUBSET Criticals, NEW R \in SUBSET C, NEW Q \in SUBSET R, NEW g
    PROVE  /\ Before(C, g) \in Nat /\ Before(R, g) \in Nat /\ Before(C \ R, g) \in Nat
           /\ Before(C, g) = Before(R, g) + Before(C \ R, g)
           /\ Before(C \ Q, g) \in Nat /\ Before(C \ Q, g) >= Before(C \ R, g)
<1> DEFINE B(S) == {h \in S : h < g}
<1>1. \A S \in SUBSET Criticals : IsFiniteSet(B(S)) /\ Cardinality(B(S)) \in Nat
  <2> SUFFICES ASSUME NEW S \in SUBSET Criticals PROVE IsFiniteSet(B(S)) /\ Cardinality(B(S)) \in Nat
    OBVIOUS
  <2>1. B(S) \in SUBSET Criticals
    OBVIOUS
  <2> QED
    BY <2>1, Counting
<1>2. IsFiniteSet(B(R)) /\ IsFiniteSet(B(C \ R)) /\ IsFiniteSet(B(C \ Q))
  BY <1>1
<1>3. B(C) = B(R) \cup B(C \ R) /\ B(R) \cap B(C \ R) = {} /\ B(C \ R) \in SUBSET B(C \ Q)
  OBVIOUS
<1>4. Cardinality(B(C)) = Cardinality(B(R)) + Cardinality(B(C \ R)) - 0
  BY <1>2, <1>3, FS_Union, FS_EmptySet
<1>5. Cardinality(B(C \ R)) <= Cardinality(B(C \ Q))
  BY <1>2, <1>3, FS_Subset
<1>6. /\ Cardinality(B(C)) \in Nat /\ Cardinality(B(R)) \in Nat /\ Cardinality(B(C \ R)) \in Nat
      /\ Cardinality(B(C \ Q)) \in Nat
  BY <1>1
<1> QED
  BY <1>4, <1>5, <1>6 DEF Before

(* The target a guest would get k rounds into the call if nobody dropped    *)
(* out before it.                                                           *)
Slot(g, k) == Targets[((Before(called, g) + k) % n) + 1]

(* What a call has tried: a guest before which d others have dropped out is *)
(* d rounds behind, and has been sent to each target up to there.           *)
Walked ==
    /\ outcome \in {"running", "failed"} =>
          \A g \in remaining : \A k \in Nat :
             k + Before(called \ remaining, g) <= round => Slot(g, k) \in tried[g]
    /\ outcome = "failed" => round = n - 1

(* The first round sends everybody to the first of their targets. *)
LEMMA CallWalks == ASSUME TypeOK, Call PROVE Walked'
<1>1. /\ called' = Here /\ remaining' = Here /\ round' = 0 /\ outcome' = "running"
      /\ Here \in SUBSET Criticals
      /\ \A g \in Here : TargetOf(g, Here, 0) \in tried'[g]
  BY DEF Call, StartRound, Here
<1> SUFFICES ASSUME NEW g \in Here, NEW k \in Nat, k + Before(Here \ Here, g) <= 0
             PROVE  Targets[((Before(Here, g) + k) % n) + 1] \in tried'[g]
  BY <1>1 DEF Walked, Slot
<1>2. Before(Here \ Here, g) \in Nat
  BY <1>1, MovesUp
<1>3. k = 0
  BY <1>2
<1> QED
  BY <1>1, <1>3 DEF TargetOf, Place, Before

(* A further round sends on whoever has not fallen behind. *)
LEMMA RoundWalks ==
    ASSUME TypeOK, Walked, outcome = "running", StartRound(stillOnNode, round + 1),
           called' = called, outcome' = outcome
    PROVE  Walked'
<1>1. /\ remaining' = stillOnNode /\ round' = round + 1
      /\ stillOnNode \in SUBSET remaining /\ remaining \in SUBSET called /\ called \in SUBSET Criticals
      /\ round \in Nat
  BY Counting DEF StartRound, stillOnNode, TypeOK
<1>2. \A g \in stillOnNode : tried'[g] = tried[g] \cup {TargetOf(g, stillOnNode, round + 1)}
  BY <1>1, Counting DEF StartRound, TypeOK
<1> SUFFICES ASSUME NEW g \in stillOnNode, NEW k \in Nat,
                    k + Before(called \ stillOnNode, g) <= round + 1
             PROVE  Slot(g, k) \in tried'[g]
  BY <1>1 DEF Walked, Slot
<1>3. CASE k + Before(called \ remaining, g) <= round
  BY <1>1, <1>2, <1>3 DEF Walked
<1>4. CASE ~(k + Before(called \ remaining, g) <= round)
  <2>1. /\ Before(called \ remaining, g) \in Nat /\ Before(called \ stillOnNode, g) \in Nat
        /\ Before(called \ stillOnNode, g) >= Before(called \ remaining, g)
    BY <1>1, MovesUp
  <2>2. /\ Before(called, g) = Before(stillOnNode, g) + Before(called \ stillOnNode, g)
        /\ Before(stillOnNode, g) \in Nat
    BY <1>1, MovesUp
  <2>3. Before(called, g) + k = Before(stillOnNode, g) + (round + 1)
    BY <1>1, <1>4, <2>1, <2>2
  <2>4. Slot(g, k) = TargetOf(g, stillOnNode, round + 1)
    BY <2>3 DEF Slot, TargetOf, Place, Before
  <2> QED
    BY <1>2, <2>4
<1> QED
  BY <1>3, <1>4

(* Every step keeps Walked. *)
LEMMA WalkedStep == ASSUME TypeOK, Walked, [Next]_vars PROVE Walked'
<1> USE DEF Slot
<1>1. CASE Call
  BY <1>1, CallWalks
<1>2. ASSUME NEW t \in Nodes, Post(t) PROVE Walked'
  BY <1>2 DEF Post, Walked
<1>3. ASSUME NEW t \in Nodes, PostFails(t) PROVE Walked'
  BY <1>3 DEF PostFails, Walked
<1>4. ASSUME NEW t \in Nodes, Return(t) PROVE Walked'
  BY <1>4 DEF Return, Walked
<1>5. ASSUME NEW t \in Nodes, StopWaiting(t) PROVE Walked'
  BY <1>5 DEF StopWaiting, Walked
<1>6. CASE Join
  <2>1. CASE StartRound(stillOnNode, round + 1) /\ UNCHANGED outcome
    BY <1>6, <2>1, RoundWalks DEF Join
  <2>2. CASE /\ stillOnNode = {} \/ round = n - 1
             /\ outcome' = IF stillOnNode = {} THEN "done" ELSE "failed"
             /\ UNCHANGED <<round, remaining, posting, tried>>
    BY <1>6, <2>2 DEF Join, Walked
  <2> QED
    BY <1>6, <2>1, <2>2 DEF Join
<1>7. CASE Unlisted
  BY <1>7 DEF Unlisted, Walked
<1>8. ASSUME NEW g \in Criticals, Arrives(g) PROVE Walked'
  BY <1>8 DEF Arrives, call, Walked
<1>9. ASSUME NEW g \in Criticals, Stays(g) PROVE Walked'
  BY <1>9 DEF Stays, call, Walked
<1>10. ASSUME NEW g \in Criticals, Refused(g) PROVE Walked'
  BY <1>10 DEF Refused, call, Walked
<1>11. ASSUME NEW g \in Criticals, MovedBack(g) PROVE Walked'
  BY <1>11 DEF MovedBack, call, Walked
<1>12. CASE UNCHANGED vars
  BY <1>12 DEF vars, Walked
<1> QED
  BY <1>1, <1>2, <1>3, <1>4, <1>5, <1>6, <1>7, <1>8, <1>9, <1>10, <1>11, <1>12
     DEF Next, Loop, Task, Mishap

(* What is left untried after the last round are the last slots. *)
LEMMA WalkedSuffices == ASSUME TypeOK, Walked PROVE TriedEverywhere
<1> SUFFICES ASSUME outcome = "failed", NEW g \in remaining
             PROVE  Cardinality(Nodes \ tried[g]) <= Before(called \ remaining, g)
  BY DEF TriedEverywhere, Before
<1> DEFINE d == Before(called \ remaining, g)
           P == Before(called, g)
           left == {k \in 0 .. n - 1 : k >= n - d}
           untried == Nodes \ tried[g]
<1>1. /\ d \in Nat /\ P \in Nat /\ n \in Nat \ {0}
      /\ remaining \in SUBSET called /\ called \in SUBSET Criticals
  <2>1. remaining \in SUBSET called /\ called \in SUBSET Criticals
    BY DEF TypeOK
  <2> QED
    BY <2>1, MovesUp, Counting
<1> HIDE DEF d, P, n
<1>2. \A k \in 0 .. n - 1 : k \notin left => Slot(g, k) \in tried[g]
  BY <1>1 DEF Walked, d
<1>3. \A t \in Nodes : \E k \in 0 .. n - 1 : Slot(g, k) = t
  <2> SUFFICES ASSUME NEW t \in Nodes PROVE \E k \in 0 .. n - 1 : Slot(g, k) = t
    OBVIOUS
  <2>1. PICK i \in 1 .. n : Targets[i] = t
    BY MigrationAssumption DEF Nodes, Range
  <2>2. i - 1 \in 0 .. n - 1
    BY <1>1
  <2>3. PICK k \in 0 .. n - 1 : (P + k) % n = i - 1
    BY <1>1, <2>2, Shift
  <2>4. ((P + k) % n) + 1 = i
    BY <1>1, <2>3
  <2> QED
    BY <2>1, <2>4 DEF Slot, P
<1>4. \A t \in untried : \E k \in left : Slot(g, k) = t
  BY <1>2, <1>3
<1> DEFINE f == [t \in untried |-> CHOOSE k \in left : Slot(g, k) = t]
<1>5. f \in Injection(untried, left)
  <2>1. \A t \in untried : f[t] \in left /\ Slot(g, f[t]) = t
    BY <1>4
  <2> HIDE DEF f
  <2>2. f \in [untried -> left]
    BY <2>1 DEF f
  <2> QED
    BY <2>1, <2>2 DEF Injection, IsInjective
<1>6. IsFiniteSet(left) /\ Cardinality(left) <= d
  <2>1. CASE d <= n
    <3>1. left = n - d .. n - 1
      BY <1>1, <2>1
    <3>2. n - d \in Int /\ n - 1 \in Int
      BY <1>1
    <3>3. IsFiniteSet(left) /\ Cardinality(left) = IF n - d > n - 1 THEN 0 ELSE (n - 1) - (n - d) + 1
      BY <3>1, <3>2, FS_Interval
    <3> QED
      BY <1>1, <3>3
  <2>2. CASE d > n
    <3>1. left = 0 .. n - 1
      BY <1>1, <2>2
    <3>2. 0 \in Int /\ n - 1 \in Int
      BY <1>1
    <3>3. IsFiniteSet(left) /\ Cardinality(left) = IF 0 > n - 1 THEN 0 ELSE (n - 1) - 0 + 1
      BY <3>1, <3>2, FS_Interval
    <3> QED
      BY <1>1, <2>2, <3>3
  <2> QED
    BY <1>1, <2>1, <2>2
<1>7. IsFiniteSet(untried) /\ Cardinality(untried) <= Cardinality(left)
  BY <1>5, <1>6, FS_Injection
<1>8. Cardinality(untried) \in Nat /\ Cardinality(left) \in Nat
  BY <1>6, <1>7, FS_CardinalityType
<1> QED
  BY <1>1, <1>6, <1>7, <1>8 DEF d

(* However many guests and targets there are and whatever fails: a call     *)
(* that fails leaves no more targets untried for a guest than guests before *)
(* it in the list have left p1 on the way - none if it is the first.        *)
THEOREM EverywhereIsTried == Spec => []TriedEverywhere
<1>1. Init => Walked
  BY DEF Init, Walked
<1>2. TypeOK /\ Walked /\ [Next]_vars => Walked'
  BY WalkedStep
<1>3. TypeOK /\ Walked => TriedEverywhere
  BY WalkedSuffices
<1> QED
  BY <1>1, <1>2, <1>3, TypeCorrect, PTL DEF Spec
=============================================================================

---------------------------- MODULE UpkeepProofs ----------------------------
(***************************************************************************)
(* What becomes of the replication jobs and of the silences, for any number*)
(* of jobs, comments, Alertmanagers and silences, whichever calls fail and *)
(* whoever else has a hand on them: jobs and comments stay their owners',  *)
(* and coverage has no gap and outlives the watchdog.                      *)
(***************************************************************************)
EXTENDS Upkeep, TLAPS

(* The listing is old when a job is set: a job in people's hands is none   *)
(* that will be, and of one that will be, and that people have not touched *)
(* since, the comment listed is still its own.                             *)
ListingInv ==
    /\ ReplicationTypeOK
    /\ \A j \in byHand : ~Writes(j)
    /\ \A j \in todo \ raced : Writes(j) => Trim[listed[j].text] = Trim[own[j]]

ReplicationInv == ListingInv /\ HandDisableStands /\ CommentKept

(* The comment restored from a marked one, or kept, differs from the one    *)
(* listed in blanks at most (markComment, unmarkComment).                   *)
LEMMA CommentSurvives ==
    ASSUME ReplicationTypeOK, NEW j \in Jobs
    PROVE  Target(j) \in JobStates /\ Trim[Target(j).text] = Trim[listed[j].text]
<1>1. listed[j] \in JobStates
    BY DEF ReplicationTypeOK
<1>2. listed[j].text \in Comments
    BY <1>1 DEF JobStates
<1>3. Trim[listed[j].text] \in Comments
    BY <1>2, JobsAssumption
<1>4. original(j) \in Comments /\ Trim[original(j)] = Trim[listed[j].text]
    BY <1>2, <1>3, JobsAssumption DEF original
<1> QED
    BY <1>4 DEF Target, JobStates, ReplicationTypeOK

(* The first state has no listing, and knows the hands on the jobs so far. *)
LEMMA ReplicationInvInit ==
    ASSUME Init
    PROVE  ReplicationInv
<1> USE DEF Init, ReplicationInit
<1>1. job \in [Jobs -> JobStates]
    BY JobsAssumption DEF JobStates
<1>2. ASSUME NEW j \in Jobs
      PROVE  job[j].text \in Comments
    BY <1>1 DEF JobStates
<1>3. Jobs # {} => Forgotten \in JobStates
    <2> SUFFICES ASSUME NEW j \in Jobs
                 PROVE  Forgotten \in JobStates
        OBVIOUS
    <2>1. job[j].text \in Comments
        BY <1>2
    <2>2. \E c \in Comments : Trim[c] = c
        BY <2>1, JobsAssumption
    <2>3. (CHOOSE c \in Comments : Trim[c] = c) \in Comments
        BY <2>2
    <2> QED
        BY <2>3 DEF Forgotten, JobStates
<1>4. listed \in [Jobs -> JobStates]
    BY <1>3
<1>5. own \in [Jobs -> Comments]
    BY <1>2
<1>6. ReplicationTypeOK
    BY <1>1, <1>4, <1>5 DEF ReplicationTypeOK
<1> QED
    BY <1>6 DEF ReplicationInv, ListingInv, Writes, HandDisableStands, CommentKept

(* A new listing is true of every job (reconcileReplication, its listing). *)
LEMMA ListingStep ==
    ASSUME ReplicationInv, NEW off \in BOOLEAN, ListJobs(off)
    PROVE  ReplicationInv'
    BY DEF ReplicationInv, ListingInv, ReplicationTypeOK, ListJobs, Writes, leftAlone,
           HandDisableStands, CommentKept

(* Setting a job from the listing leaves alone what is not ours, and the    *)
(* comment as it was (reconcileReplication, its loop; SetReplicationJob).   *)
LEMMA SettingStep ==
    ASSUME ReplicationInv, NEW j \in Jobs, SetJob(j)
    PROVE  ReplicationInv'
<1> USE DEF ReplicationInv, ListingInv
<1>1. Target(j) \in JobStates /\ Trim[Target(j).text] = Trim[listed[j].text]
    BY CommentSurvives
<1>2. j \in todo /\ todo' = todo \ {j} /\ listed' = [listed EXCEPT ![j] = Forgotten]
      /\ disable' = disable /\ byHand' = byHand /\ own' = own /\ raced' = raced
    BY DEF SetJob
<1>3. job' = job \/ (Writes(j) /\ job' = [job EXCEPT ![j] = Target(j)])
    BY DEF SetJob
<1>4. Forgotten \in JobStates
    <2>1. own[j] \in Comments
        BY DEF ReplicationTypeOK
    <2>2. \E c \in Comments : Trim[c] = c
        BY <2>1, JobsAssumption
    <2>3. (CHOOSE c \in Comments : Trim[c] = c) \in Comments
        BY <2>2
    <2> QED
        BY <2>3 DEF Forgotten, JobStates
<1>5. ReplicationTypeOK'
    BY <1>1, <1>2, <1>3, <1>4 DEF ReplicationTypeOK
<1>6. \A i \in Jobs : Writes(i)' => Writes(i) /\ i # j /\ listed'[i] = listed[i]
    BY <1>2 DEF ReplicationTypeOK, Writes, leftAlone, Target, original
<1>7. j \in byHand => ~Writes(j)
    OBVIOUS
<1>8. \A i \in Jobs \ {j} : job'[i] = job[i]
    BY <1>3 DEF ReplicationTypeOK
<1>9. HandDisableStands'
    BY <1>2, <1>3, <1>7, <1>8 DEF HandDisableStands, ReplicationTypeOK
<1>10. CommentKept'
    <2> SUFFICES ASSUME NEW i \in Jobs \ raced
                 PROVE  Trim[job'[i].text] = Trim[own[i]]
        BY <1>2 DEF CommentKept
    <2>1. CASE job' = job \/ i # j
        BY <2>1, <1>8 DEF CommentKept
    <2>2. CASE Writes(j) /\ job' = [job EXCEPT ![j] = Target(j)] /\ i = j
        <3>1. job'[i] = Target(j)
            BY <2>2 DEF ReplicationTypeOK
        <3> QED
            BY <3>1, <2>2, <1>1, <1>2
    <2> QED
        BY <1>3, <2>1, <2>2
<1>11. ListingInv'
    BY <1>2, <1>5, <1>6 DEF ReplicationTypeOK
<1> QED
    BY <1>9, <1>10, <1>11

(* A hand on a job either falls outside the listing or is recorded as one   *)
(* that did not (the enabled checkbox, the comment).                        *)
LEMMA HandStep ==
    ASSUME ReplicationInv, NEW j \in Jobs, ByHand(j)
    PROVE  ReplicationInv'
<1> USE DEF ReplicationInv, ListingInv
<1>1. job[j] \in JobStates
    BY DEF ReplicationTypeOK
<1>2. CASE Toggle(j)
    <2>1. [job[j] EXCEPT !.disabled = ~@] \in JobStates
        BY <1>1 DEF JobStates
    <2>2. job' = [job EXCEPT ![j] = [job[j] EXCEPT !.disabled = ~@]]
        BY <1>2 DEF Toggle, ReplicationTypeOK, JobStates
    <2>3. /\ job'[j].disabled = ~job[j].disabled
          /\ job'[j].marked = job[j].marked /\ job'[j].text = job[j].text
          /\ \A i \in Jobs \ {j} : job'[i] = job[i]
        BY <2>2, <1>1 DEF ReplicationTypeOK, JobStates
    <2>4. byHand' \subseteq Jobs /\ \A i \in byHand' : i # j => i \in byHand
        BY <1>2 DEF Toggle, ReplicationTypeOK
    <2>5. j \in byHand' => job'[j].disabled /\ ~job[j].marked /\ ~Writes(j)
        BY <1>2 DEF Toggle
    <2>6. UNCHANGED <<listed, todo, disable, own, raced>> /\ \A i \in Jobs : Writes(i)' <=> Writes(i)
        BY <1>2 DEF Toggle, Writes, leftAlone, Target, original
    <2>7. ReplicationTypeOK'
        BY <2>1, <2>2, <2>4, <2>6 DEF ReplicationTypeOK
    <2>8. HandDisableStands'
        BY <2>3, <2>4, <2>5 DEF HandDisableStands
    <2>9. CommentKept'
        BY <2>3, <2>6 DEF CommentKept
    <2> QED
        BY <2>4, <2>5, <2>6, <2>7, <2>8, <2>9 DEF ReplicationTypeOK
<1>3. ASSUME NEW c \in Comments, Reword(j, c)
      PROVE  ReplicationInv'
    <2>1. [job[j] EXCEPT !.text = c] \in JobStates
        BY <1>1 DEF JobStates
    <2>2. job' = [job EXCEPT ![j] = [job[j] EXCEPT !.text = c]] /\ own' = [own EXCEPT ![j] = c]
        BY <1>3 DEF Reword, ReplicationTypeOK, JobStates
    <2>3. /\ job'[j].disabled = job[j].disabled /\ job'[j].marked = job[j].marked
          /\ job'[j].text = c /\ own'[j] = c
          /\ \A i \in Jobs \ {j} : job'[i] = job[i] /\ own'[i] = own[i]
        BY <2>2, <1>1 DEF ReplicationTypeOK, JobStates
    <2>4. /\ raced' = IF Writes(j) THEN raced \cup {j} ELSE raced \ {j}
          /\ UNCHANGED <<listed, todo, disable, byHand>>
          /\ \A i \in Jobs : Writes(i)' <=> Writes(i)
        BY <1>3 DEF Reword, Writes, leftAlone, Target, original
    <2>5. ReplicationTypeOK'
        BY <2>1, <2>2, <2>4 DEF ReplicationTypeOK
    <2>6. HandDisableStands'
        BY <2>3, <2>4 DEF HandDisableStands, ReplicationTypeOK
    <2>7. CommentKept'
        BY <2>3, <2>4 DEF CommentKept
    <2>8. \A i \in todo' \ raced' : Writes(i)' => i # j /\ i \in todo \ raced /\ i \in Jobs
        BY <2>4 DEF ReplicationTypeOK
    <2> QED
        BY <2>3, <2>4, <2>5, <2>6, <2>7, <2>8 DEF ReplicationTypeOK
<1> QED
    BY <1>2, <1>3 DEF ByHand

(* Every step of the upkeep keeps the listing, the hands and the comments. *)
LEMMA ReplicationInvStep ==
    ASSUME ReplicationInv, [Next]_vars
    PROVE  ReplicationInv'
<1>1. CASE UNCHANGED replication
    BY <1>1 DEF ReplicationInv, ListingInv, ReplicationTypeOK, HandDisableStands,
                CommentKept, replication, Writes, leftAlone, Target, original
<1>2. CASE \E j \in Jobs : SetJob(j)
    BY <1>2, SettingStep
<1>3. CASE \E off \in BOOLEAN : ListJobs(off)
    BY <1>3, ListingStep
<1>4. CASE \E j \in Jobs : ByHand(j)
    BY <1>4, HandStep
<1>5. CASE List
    BY <1>5, <1>3 DEF List
<1>6. CASE Loop
    BY <1>6, <1>5, <1>1, <1>2, <1>3
       DEF Loop, Observe, ListUnanswered, Set, ToSilences, Silence, BeforePowerOff, EndTick
<1>7. CASE Change \/ Tick \/ UNCHANGED vars
    BY <1>7, <1>1 DEF Change, Tick, vars
<1> QED
    BY <1>4, <1>6, <1>7 DEF Next

(* The inductive invariant holds throughout. *)
LEMMA ReplicationKept == Spec => []ReplicationInv
<1>1. Init => ReplicationInv
    BY ReplicationInvInit
<1>2. ReplicationInv /\ [Next]_vars => ReplicationInv'
    BY ReplicationInvStep
<1> QED
    BY <1>1, <1>2, PTL DEF Spec

(* A job somebody has disabled by hand stays disabled and unclaimed,        *)
(* whatever p1 does, whichever calls fail and wherever the reconcile is,    *)
(* unless this reconcile had listed the job enabled and was about to set    *)
(* it: the PUT then takes it from its owner (reconcileReplication,          *)
(* controller.go:1016-1096).                                                *)
THEOREM JobsAreTheirOwners == Spec => []HandDisableStands
<1>1. ReplicationInv => HandDisableStands
    BY DEF ReplicationInv
<1> QED
    BY <1>1, ReplicationKept, PTL

(* A job's own comment survives any number of disables, re-enables and      *)
(* failures in between, up to surrounding blanks, unless somebody edits it  *)
(* under a PUT that is about to be made (markComment, unmarkComment).       *)
THEOREM CommentsAreKept == Spec => []CommentKept
<1>1. ReplicationInv => CommentKept
    BY DEF ReplicationInv
<1> QED
    BY <1>1, ReplicationKept, PTL

-----------------------------------------------------------------------------
(* Silences.                                                               *)

(* What is true of the plan for the Alertmanager being walked, however long *)
(* ago it was listed: a duplicate still has a better one beside it, nothing *)
(* desired is to be retired while silencing, and what is not to be created  *)
(* or extended still has its time to run.                                   *)
Superseded ==
    \A s \in Ours(am) : s.id \in extra =>
       \E t \in Ours(am) : t.key = s.key /\ t.id \notin extra /\ t.left >= s.left
Spared == silence => \A s \in held[am] : s.id \in gone => s.key \notin Desired
Fresh ==
    silence /\ age < Refresh => \A k \in Desired \ need :
       \E s \in Ours(am) : s.key = k /\ s.id \notin extra /\ s.left + age >= Refresh
Fading == \A s \in Ours(am) : s.key \in need => s.left + age < Refresh

WalkInv ==
    am # NoAM =>
       /\ age < TTL
       /\ lastOk[am] >= age \/ lastOk[am] = Refresh
       /\ ~silence => lastOk[am] = Refresh
       /\ need # {} => silence
       /\ Superseded /\ Spared /\ Fresh /\ Fading

(* After a reconcile that came through, what is covered is covered for as   *)
(* long as it takes to notice the next one is missing.                      *)
LastInv ==
    \A a \in AMs : lastOk[a] < Refresh =>
       \A k \in Desired : \E s \in Ours(a) : s.key = k /\ s.left + lastOk[a] >= Refresh

CoverInv ==
    /\ SilencesTypeOK
    /\ am # NoAM => at = "silences"
    /\ am = NoAM => need = {} /\ extra = {} /\ gone = {}
    /\ WalkInv /\ LastInv

(* What no step but time may do (NoGap), of one step. *)
Keeps == \A a \in AMs : \A k \in Desired : Covered(a, k) => Covered(a, k)'

(* Silences are told apart by their ids; the plan names them by these. *)
LEMMA SameSilence ==
    ASSUME SilencesTypeOK, NEW a \in AMs, NEW s \in held[a], NEW S \in SUBSET held[a]
    PROVE  s.id \in IdsOf(S) <=> s \in S
<1>1. \A t \in held[a] : t.id = s.id => t = s
    BY DEF SilencesTypeOK
<1> QED
    BY <1>1 DEF IdsOf

(* The first reconcile has not begun, and nothing was promised yet. *)
LEMMA CoverInvInit ==
    ASSUME Init
    PROVE  CoverInv
<1>1. urls \subseteq AMs
    BY SetupsAssumption DEF Init
<1>2. /\ held \in [AMs -> UNION {AtFirst[a] : a \in AMs}]
      /\ \A a \in AMs : held[a] \in (IF a \in urls THEN AtFirst[a] ELSE {{}})
      /\ queue = {} /\ silence = FALSE /\ am = NoAM /\ age = 0
      /\ need = {} /\ extra = {} /\ gone = {} /\ failed = FALSE
      /\ lastOk = [a \in AMs |-> Refresh]
    BY DEF Init, SilencesInit
<1>3. \A a \in AMs : held[a] \subseteq Held /\ (\A s, t \in held[a] : s.id = t.id => s = t)
    BY <1>2, SilencesAssumption DEF Held
<1>4. held \in [AMs -> SUBSET Held]
    <2>1. held = [a \in AMs |-> held[a]]
        BY <1>2
    <2> QED
        BY <1>3, <2>1
<1>5. lastOk \in [AMs -> 0 .. Refresh] /\ age \in 0 .. TTL
    BY <1>2, SilencesAssumption
<1>6. SilencesTypeOK
    BY <1>1, <1>2, <1>3, <1>4, <1>5 DEF SilencesTypeOK
<1>7. \A a \in AMs : ~(lastOk[a] < Refresh)
    BY <1>2, SilencesAssumption
<1> QED
    BY <1>2, <1>6, <1>7 DEF CoverInv, WalkInv, LastInv

(* A listing takes the best silence of each key and plans for the rest      *)
(* (reconcileSilencesAt, the listing).                                      *)
LEMMA ListStep ==
    ASSUME CoverInv, NEW a \in AMs, ListSilences(a), at' = at, at = "silences"
    PROVE  CoverInv' /\ Keeps
<1> USE DEF CoverInv
<1>1. /\ am' = a /\ age' = 0 /\ held' = held /\ urls' = urls /\ silence' = silence
      /\ queue' = queue \ {a} /\ am = NoAM /\ failed' = failed
      /\ lastOk' = IF silence THEN lastOk ELSE [lastOk EXCEPT ![a] = Refresh]
    BY DEF ListSilences
<1>2. PICK kept \in SUBSET Ours(a) :
          /\ Kept(a, kept)
          /\ need' = {k \in Desired : silence /\ ~\E s \in kept : s.key = k /\ s.left >= Refresh}
          /\ extra' = IdsOf(Ours(a) \ kept)
          /\ gone' = IdsOf(Retired(kept))
    BY DEF ListSilences
<1>3. held[a] \in SUBSET Held /\ Ours(a) \subseteq held[a] /\ kept \subseteq held[a]
    BY <1>2 DEF SilencesTypeOK, Ours
<1>4. \A s \in held[a] : s.left \in Nat /\ s.id \in Ids /\ s.key \in Keys
    BY <1>3, SilencesAssumption DEF Held
<1>5. need' \subseteq Desired /\ extra' \subseteq Ids /\ gone' \subseteq Ids
    BY <1>2, <1>3, <1>4 DEF IdsOf, Retired
<1>6. lastOk' \in [AMs -> 0 .. Refresh] /\ TTL \in Nat /\ Refresh \in Nat \ {0} /\ Refresh <= TTL
    BY <1>1, SilencesAssumption DEF SilencesTypeOK
<1>7. SilencesTypeOK'
    BY <1>1, <1>5, <1>6 DEF SilencesTypeOK
<1>8. /\ \A s \in held[a] : s.id \in extra' <=> s \in Ours(a) \ kept
      /\ \A s \in held[a] : s.id \in gone' <=> s \in Retired(kept)
    BY <1>2, <1>3, SameSilence DEF Retired
<1>9. Ours(am)' = Ours(a)
    BY <1>1 DEF Ours
<1>10. Superseded'
    <2> SUFFICES ASSUME NEW s \in Ours(a), s.id \in extra'
                 PROVE  \E t \in Ours(a) : t.key = s.key /\ t.id \notin extra' /\ t.left >= s.left
        BY <1>9 DEF Superseded
    <2>1. PICK t \in kept : t.key = s.key /\ t.left >= s.left
        BY <1>2 DEF Kept
    <2>2. t \in Ours(a) /\ t.id \notin extra'
        BY <1>2, <1>3, <1>8, <2>1
    <2> QED
        BY <2>1, <2>2
<1>11. Spared'
    BY <1>1, <1>8 DEF Spared, Retired
<1>12. Fresh'
    <2> SUFFICES ASSUME silence, age' < Refresh, NEW k \in Desired \ need'
                 PROVE  \E s \in Ours(a) : s.key = k /\ s.id \notin extra' /\ s.left + age' >= Refresh
        BY <1>1, <1>9 DEF Fresh
    <2>1. PICK s \in kept : s.key = k /\ s.left >= Refresh
        BY <1>2
    <2>2. s \in Ours(a) /\ s.id \notin extra' /\ s.left \in Nat
        BY <1>2, <1>3, <1>4, <1>8
    <2> QED
        BY <2>1, <2>2, <1>1
<1>13. Fading'
    <2> SUFFICES ASSUME NEW s \in Ours(a), s.key \in need'
                 PROVE  s.left + age' < Refresh
        BY <1>1, <1>9 DEF Fading
    <2>1. PICK t \in kept : t.key = s.key /\ t.left >= s.left
        BY <1>2 DEF Kept
    <2>2. ~(t.left >= Refresh)
        BY <1>2, <2>1
    <2>3. s.left \in Nat /\ t.left \in Nat
        BY <1>3, <1>4
    <2> QED
        BY <2>1, <2>2, <2>3, <1>1, <1>6
<1>14. LastInv'
    BY <1>1, <1>6 DEF LastInv, Ours, SilencesTypeOK
<1>15. age' < TTL /\ lastOk'[a] >= age' /\ (~silence => lastOk'[a] = Refresh)
    BY <1>1, <1>6 DEF SilencesTypeOK
<1>16. need' # {} => silence
    BY <1>2
<1>17. WalkInv'
    BY <1>1, <1>10, <1>11, <1>12, <1>13, <1>15, <1>16 DEF WalkInv
<1>18. Keeps
    BY <1>1 DEF Keeps, Covered, Ours
<1> QED
    BY <1>1, <1>7, <1>14, <1>17, <1>18, SilencesAssumption DEF NoAM

(* The Alertmanager is left, after its last call or after an error. *)
LEMMA LeaveStep ==
    ASSUME CoverInv, Leave, urls' = urls, queue' \subseteq queue, silence' = silence,
           held' = held, failed' = failed \/ failed' = TRUE,
           \/ lastOk' = lastOk
           \/ /\ silence /\ am # NoAM /\ need = {} /\ age < Refresh
              /\ lastOk' = [lastOk EXCEPT ![am] = age]
           \/ am # NoAM /\ lastOk' = [lastOk EXCEPT ![am] = Refresh]
    PROVE  CoverInv' /\ Keeps
<1> USE DEF CoverInv, Leave
<1>1. Keeps
    BY DEF Keeps, Covered, Ours
<1>2. age \in Nat /\ Refresh \in Nat \ {0} /\ TTL \in Nat /\ am \in AMs \cup {NoAM}
    BY SilencesAssumption DEF SilencesTypeOK
<1>3. lastOk' \in [AMs -> 0 .. Refresh]
    BY <1>2 DEF SilencesTypeOK
<1>4. SilencesTypeOK'
    <2>1. failed' \in BOOLEAN
        BY DEF SilencesTypeOK
    <2> QED
        BY <1>2, <1>3, <2>1 DEF SilencesTypeOK
<1>5. LastInv'
    <2> SUFFICES ASSUME NEW a \in AMs, lastOk'[a] < Refresh, NEW k \in Desired
                 PROVE  \E s \in Ours(a) : s.key = k /\ s.left + lastOk'[a] >= Refresh
        BY DEF LastInv, Ours
    <2>1. CASE lastOk'[a] = lastOk[a]
        BY <2>1 DEF LastInv
    <2>2. CASE lastOk'[a] # lastOk[a]
        <3>1. a = am /\ am # NoAM /\ silence /\ need = {} /\ lastOk'[a] = age
            BY <1>2, <2>2 DEF SilencesTypeOK
        <3> QED
            BY <3>1 DEF WalkInv, Fresh
    <2> QED
        BY <2>1, <2>2
<1> QED
    BY <1>1, <1>4, <1>5 DEF WalkInv

(* A call that leaves as much covered as there was, for as long, and the    *)
(* rest of the plan true, keeps everything - and so does its answer lost.   *)
LEMMA CallStep ==
    ASSUME CoverInv, am # NoAM, at' = at, NEW R \in SUBSET Held,
           \A s, t \in R : s.id = t.id => s = t,
           held' = [held EXCEPT ![am] = R],
           UNCHANGED <<urls, queue, silence, lastOk>>, failed' = failed \/ failed' = TRUE,
           \A k \in Desired : Covered(am, k) => \E t \in R : t.ours /\ t.key = k,
           lastOk[am] < Refresh =>
              \A k \in Desired : \E t \in R : t.ours /\ t.key = k /\ t.left + lastOk[am] >= Refresh,
           \/ /\ am' = am /\ age' = age
              /\ need' \subseteq need /\ extra' \subseteq extra /\ gone' \subseteq gone
              /\ (Superseded /\ Spared /\ Fresh /\ Fading)'
           \/ Leave
    PROVE  CoverInv' /\ Keeps
<1> USE DEF CoverInv
<1>1. am \in AMs /\ held \in [AMs -> SUBSET Held] /\ age \in 0 .. TTL /\ TTL \in Nat
    BY SilencesAssumption DEF SilencesTypeOK
<1>2. held'[am] = R /\ \A a \in AMs \ {am} : held'[a] = held[a]
    BY <1>1
<1>3. held' \in [AMs -> SUBSET Held]
    BY <1>1
<1>4. \A a \in AMs : \A s, t \in held'[a] : s.id = t.id => s = t
    BY <1>2 DEF SilencesTypeOK
<1>5. SilencesTypeOK'
    <2>1. failed' \in BOOLEAN
        BY DEF SilencesTypeOK
    <2> QED
        BY <1>1, <1>3, <1>4, <2>1 DEF SilencesTypeOK, Leave
<1>6. Keeps
    <2> SUFFICES ASSUME NEW a \in AMs, NEW k \in Desired, Covered(a, k)
                 PROVE  \E s \in held'[a] : s.ours /\ s.key = k
        BY DEF Keeps, Covered, Ours
    <2>1. CASE a = am
        BY <1>2, <2>1
    <2>2. CASE a # am
        BY <1>2, <2>2 DEF Covered, Ours
    <2> QED
        BY <2>1, <2>2
<1>7. LastInv'
    <2> SUFFICES ASSUME NEW a \in AMs, lastOk[a] < Refresh, NEW k \in Desired
                 PROVE  \E s \in held'[a] : s.ours /\ s.key = k /\ s.left + lastOk[a] >= Refresh
        BY DEF LastInv, Ours
    <2>1. CASE a = am
        BY <1>2, <2>1
    <2>2. CASE a # am
        BY <1>2, <2>2 DEF LastInv, Ours
    <2> QED
        BY <2>1, <2>2
<1>8. WalkInv'
    BY DEF WalkInv, Leave
<1> QED
    BY <1>5, <1>6, <1>7, <1>8 DEF Leave

(* A silence is created, or a fading one extended, from the moment of the   *)
(* listing on (Client.Create, Client.Update).                               *)
LEMMA EnsureStep ==
    ASSUME CoverInv, am # NoAM, at' = at, NEW k \in Desired, Ensure(k)
    PROVE  CoverInv' /\ Keeps
<1> USE DEF CoverInv
<1> DEFINE fading == {s.id : s \in {t \in Ours(am) : t.key = k /\ t.id \notin extra}}
<1>1. PICK id \in (IF fading # {} THEN fading ELSE Ids \ (IdsOf(held[am]) \cup extra \cup gone)) :
          Calls(Without(id) \cup Lasting([id |-> id, key |-> k, ours |-> TRUE, left |-> 1], TTL - age),
                need' = need \ {k} /\ UNCHANGED <<extra, gone>>)
    BY DEF Ensure
<1>2. k \in need
    BY DEF Ensure
<1>3. /\ am \in AMs /\ held[am] \in SUBSET Held /\ age \in Nat /\ age < TTL /\ TTL \in Nat
      /\ Refresh \in Nat /\ Refresh <= TTL /\ lastOk[am] \in Nat /\ lastOk[am] <= Refresh
      /\ \A s, t \in held[am] : s.id = t.id => s = t
      /\ need \subseteq Desired /\ silence
    BY <1>2, SilencesAssumption DEF SilencesTypeOK, WalkInv
<1>4. \A s \in held[am] : s.left \in Nat /\ s.id \in Ids /\ s.key \in Keys /\ s.ours \in BOOLEAN
    BY <1>3, SilencesAssumption DEF Held
<1>5. PICK new \in Held : new.id = id /\ new.key = k /\ new.ours = TRUE /\ new.left = TTL - age
                          /\ Lasting([id |-> id, key |-> k, ours |-> TRUE, left |-> 1], TTL - age) = {new}
    <2>1. id \in Ids
        BY <1>1, <1>4 DEF Ours
    <2>2. k \in Keys
        BY SilencesAssumption
    <2> DEFINE r == [id |-> id, key |-> k, ours |-> TRUE, left |-> 1]
    <2>3. r \in Held
        BY <2>1, <2>2, <1>3 DEF Held
    <2>4. Lasting(r, TTL - age) = {[r EXCEPT !.left = TTL - age]}
        BY <1>3 DEF Lasting
    <2>5. \A u \in Held :
             LET v == [u EXCEPT !.left = TTL - age]
             IN  v \in Held /\ v.id = u.id /\ v.key = u.key /\ v.ours = u.ours /\ v.left = TTL - age
        BY <1>3 DEF Held
    <2>6. r.id = id /\ r.key = k /\ r.ours = TRUE
        OBVIOUS
    <2> QED
        BY <2>3, <2>4, <2>5, <2>6
<1>6. PICK R : R = Without(id) \cup {new}
    OBVIOUS
<1>7. R \subseteq Held /\ (\A s, t \in R : s.id = t.id => s = t)
    BY <1>3, <1>5, <1>6 DEF Without
<1>8. /\ \A s \in held[am] : s.id = id => s.ours /\ s.key = k
      /\ id \notin extra /\ id \notin gone
    <2>1. CASE fading # {}
        <3>1. PICK s \in Ours(am) : s.key = k /\ s.id \notin extra /\ s.id = id
            BY <1>1, <2>1
        <3>2. id \notin gone
            BY <1>3, <3>1 DEF WalkInv, Spared, Ours
        <3> QED
            BY <3>1, <3>2, <1>3 DEF Ours
    <2>2. CASE fading = {}
        BY <1>1, <2>2 DEF IdsOf
    <2> QED
        BY <2>1, <2>2
<1>9. /\ held' = [held EXCEPT ![am] = R] /\ UNCHANGED <<urls, queue, silence, lastOk>>
      /\ failed' = failed \/ failed' = TRUE
      /\ \/ need' = need \ {k} /\ UNCHANGED <<extra, gone, am, age>>
         \/ Leave
    BY <1>1, <1>5, <1>6 DEF Calls
<1>10. \A j \in Desired : Covered(am, j) => \E t \in R : t.ours /\ t.key = j
    BY <1>5, <1>6, <1>8 DEF Covered, Ours, Without
<1>11. new.left + lastOk[am] >= Refresh \/ lastOk[am] = Refresh
    BY <1>3, <1>5 DEF WalkInv
<1>12. ASSUME lastOk[am] < Refresh, NEW j \in Desired
       PROVE  \E t \in R : t.ours /\ t.key = j /\ t.left + lastOk[am] >= Refresh
    <2>1. PICK s \in Ours(am) : s.key = j /\ s.left + lastOk[am] >= Refresh
        BY <1>3, <1>12 DEF LastInv
    <2>2. CASE s.id = id
        BY <2>1, <2>2, <1>5, <1>6, <1>8, <1>11, <1>12, <1>3 DEF Ours
    <2>3. CASE s.id # id
        BY <2>1, <2>3, <1>6 DEF Ours, Without
    <2> QED
        BY <2>2, <2>3
<1>13. ASSUME need' = need \ {k}, UNCHANGED <<extra, gone, am, age>>
       PROVE  (Superseded /\ Spared /\ Fresh /\ Fading)'
    <2>1. held'[am] = R
        BY <1>3, <1>9 DEF SilencesTypeOK
    <2>2. \A s : s \in Ours(am)' <=> s \in R /\ s.ours
        BY <1>13, <2>1 DEF Ours
    <2>3. \A s \in R : s = new \/ (s \in held[am] /\ s.id # id)
        BY <1>6 DEF Without
    <2>4. new \in Ours(am)' /\ new.id \notin extra
        BY <2>2, <1>5, <1>6, <1>8
    <2>5. Superseded'
        <3> SUFFICES ASSUME NEW s \in Ours(am)', s.id \in extra
                     PROVE  \E t \in Ours(am)' : t.key = s.key /\ t.id \notin extra /\ t.left >= s.left
            BY <1>13 DEF Superseded
        <3>1. s \in Ours(am) /\ s.id # id
            BY <2>2, <2>3, <1>5, <1>8 DEF Ours
        <3>2. CASE s.key = k
            <4>1. s.left + age < Refresh
                BY <3>1, <3>2, <1>2 DEF WalkInv, Fading
            <4> QED
                BY <4>1, <3>1, <3>2, <2>4, <1>3, <1>4, <1>5 DEF Ours
        <3>3. CASE s.key # k
            <4>1. PICK t \in Ours(am) : t.key = s.key /\ t.id \notin extra /\ t.left >= s.left
                BY <3>1 DEF WalkInv, Superseded
            <4>2. t \in Ours(am)'
                BY <4>1, <3>3, <1>6, <1>8, <2>2 DEF Ours, Without
            <4> QED
                BY <4>1, <4>2
        <3> QED
            BY <3>2, <3>3
    <2>6. Spared'
        BY <1>13, <2>1, <2>3, <1>5, <1>8, <1>9 DEF WalkInv, Spared
    <2>7. Fresh'
        <3> SUFFICES ASSUME age < Refresh, NEW j \in Desired \ (need \ {k})
                     PROVE  \E s \in Ours(am)' : s.key = j /\ s.id \notin extra /\ s.left + age >= Refresh
            BY <1>13 DEF Fresh
        <3>1. CASE j = k
            BY <3>1, <2>4, <1>3, <1>5
        <3>2. CASE j # k
            <4>1. PICK s \in Ours(am) : s.key = j /\ s.id \notin extra /\ s.left + age >= Refresh
                BY <3>2, <1>3 DEF WalkInv, Fresh
            <4>2. s \in Ours(am)'
                BY <4>1, <3>2, <1>6, <1>8, <2>2 DEF Ours, Without
            <4> QED
                BY <4>1, <4>2
        <3> QED
            BY <3>1, <3>2
    <2>8. Fading'
        BY <1>13, <2>2, <2>3, <1>5 DEF WalkInv, Fading, Ours
    <2> QED
        BY <2>5, <2>6, <2>7, <2>8
<1> QED
    BY <1>7, <1>9, <1>10, <1>12, <1>13, CallStep

(* A duplicate is deleted: the better one beside it stays (Client.Delete). *)
LEMMA DeleteStep ==
    ASSUME CoverInv, am # NoAM, at' = at, NEW id \in Ids, DeleteExtra(id)
    PROVE  CoverInv' /\ Keeps
<1> USE DEF CoverInv
<1>1. id \in extra /\ need = {}
    BY DEF DeleteExtra
<1>2. PICK R : R = Without(id)
    OBVIOUS
<1>3. /\ held' = [held EXCEPT ![am] = R] /\ UNCHANGED <<urls, queue, silence, lastOk>>
      /\ failed' = failed \/ failed' = TRUE
      /\ \/ extra' = extra \ {id} /\ UNCHANGED <<need, gone, am, age>>
         \/ Leave
    BY <1>2 DEF DeleteExtra, Calls
<1>4. /\ am \in AMs /\ held[am] \in SUBSET Held /\ lastOk[am] \in Nat
      /\ \A s, t \in held[am] : s.id = t.id => s = t
    BY DEF SilencesTypeOK
<1>5. \A s \in held[am] : s.left \in Nat
    BY <1>4, SilencesAssumption DEF Held
<1>6. R \subseteq Held /\ (\A s, t \in R : s.id = t.id => s = t)
    BY <1>2, <1>4 DEF Without
<1>7. \A s \in Ours(am) : \E t \in Ours(am) :
          t.key = s.key /\ t.id # id /\ t.left >= s.left
    <2> SUFFICES ASSUME NEW s \in Ours(am)
                 PROVE  \E t \in Ours(am) : t.key = s.key /\ t.id # id /\ t.left >= s.left
        OBVIOUS
    <2>1. CASE s.id \in extra
        <3>1. PICK t \in Ours(am) : t.key = s.key /\ t.id \notin extra /\ t.left >= s.left
            BY <2>1 DEF WalkInv, Superseded
        <3> QED
            BY <3>1, <1>1
    <2>2. CASE s.id \notin extra
        <3>1. s.left \in Nat
            BY <1>5 DEF Ours
        <3> QED
            BY <3>1, <2>2, <1>1
    <2> QED
        BY <2>1, <2>2
<1>8. \A j \in Desired : Covered(am, j) => \E t \in R : t.ours /\ t.key = j
    BY <1>2, <1>7 DEF Covered, Ours, Without
<1>9. ASSUME lastOk[am] < Refresh, NEW j \in Desired
      PROVE  \E t \in R : t.ours /\ t.key = j /\ t.left + lastOk[am] >= Refresh
    <2>1. PICK s \in Ours(am) : s.key = j /\ s.left + lastOk[am] >= Refresh
        BY <1>4, <1>9 DEF LastInv
    <2>2. PICK t \in Ours(am) : t.key = s.key /\ t.id # id /\ t.left >= s.left
        BY <1>7
    <2>3. s.left \in Nat /\ t.left \in Nat /\ Refresh \in Nat
        BY <1>5, SilencesAssumption DEF Ours
    <2>4. t \in R /\ t.ours
        BY <2>2, <1>2 DEF Ours, Without
    <2> QED
        BY <2>1, <2>2, <2>3, <2>4, <1>4
<1>10. ASSUME extra' = extra \ {id}, UNCHANGED <<need, gone, am, age>>
       PROVE  (Superseded /\ Spared /\ Fresh /\ Fading)'
    <2>1. held'[am] = R
        BY <1>3, <1>4 DEF SilencesTypeOK
    <2>2. \A s : s \in Ours(am)' <=> s \in Ours(am) /\ s.id # id
        BY <1>10, <2>1, <1>2 DEF Ours, Without
    <2>3. Superseded'
        <3> SUFFICES ASSUME NEW s \in Ours(am)', s.id \in extra'
                     PROVE  \E t \in Ours(am)' : t.key = s.key /\ t.id \notin extra' /\ t.left >= s.left
            BY DEF Superseded
        <3>1. PICK t \in Ours(am) : t.key = s.key /\ t.id \notin extra /\ t.left >= s.left
            BY <1>10, <2>2 DEF WalkInv, Superseded
        <3>2. t.id # id
            BY <3>1, <1>1
        <3> QED
            BY <3>1, <3>2, <2>2, <1>10
    <2>4. Spared'
        BY <1>10, <2>1, <1>2, <1>3 DEF WalkInv, Spared, Without
    <2>5. Fresh'
        <3> SUFFICES ASSUME silence, age < Refresh, NEW j \in Desired
                     PROVE  \E s \in Ours(am)' : s.key = j /\ s.id \notin extra' /\ s.left + age >= Refresh
            BY <1>1, <1>3, <1>10 DEF Fresh
        <3>1. PICK s \in Ours(am) : s.key = j /\ s.id \notin extra /\ s.left + age >= Refresh
            BY <1>1 DEF WalkInv, Fresh
        <3> QED
            BY <3>1, <2>2, <1>1, <1>10
    <2>6. Fading'
        BY <1>1, <1>10 DEF Fading
    <2> QED
        BY <2>3, <2>4, <2>5, <2>6
<1> QED
    BY <1>3, <1>6, <1>8, <1>9, <1>10, CallStep

(* What goes while silencing is nothing desired; on the way back it has its *)
(* grace window left (Client.Delete, Client.Reschedule).                    *)
LEMMA RetireStep ==
    ASSUME CoverInv, am # NoAM, at' = at, NEW id \in Ids, Retire(id)
    PROVE  CoverInv' /\ Keeps
<1> USE DEF CoverInv
<1>1. id \in gone /\ need = {} /\ extra = {}
    BY DEF Retire
<1>2. CASE ~(silence \/ age < Grace)
    <2>1. GiveUp
        BY <1>2 DEF Retire
    <2>2. Leave /\ failed' = TRUE /\ UNCHANGED <<urls, held, queue, silence, lastOk>>
        BY <2>1 DEF GiveUp
    <2> QED
        BY <2>2, LeaveStep
<1>3. CASE silence \/ age < Grace
    <2>1. PICK R : R = Without(id) \cup
                 (IF silence THEN {} ELSE UNION {Lasting(s, Grace - age) : s \in held[am] \ Without(id)})
        OBVIOUS
    <2>2. /\ held' = [held EXCEPT ![am] = R] /\ UNCHANGED <<urls, queue, silence, lastOk>>
          /\ failed' = failed \/ failed' = TRUE
          /\ \/ gone' = gone \ {id} /\ UNCHANGED <<need, extra, am, age>>
             \/ Leave
        BY <1>3, <2>1 DEF Retire, Calls
    <2>3. /\ am \in AMs /\ held[am] \in SUBSET Held /\ lastOk[am] \in Nat /\ age \in Nat
          /\ \A s, t \in held[am] : s.id = t.id => s = t
          /\ Grace \in Nat /\ TTL \in Nat /\ Grace <= TTL
        BY SilencesAssumption DEF SilencesTypeOK
    <2>4. CASE silence
        <3>1. R = Without(id)
            BY <2>1, <2>4
        <3>2. R \subseteq Held /\ (\A s, t \in R : s.id = t.id => s = t)
            BY <3>1, <2>3 DEF Without
        <3>3. \A s \in held[am] : s.key \in Desired => s \in R
            BY <3>1, <1>1, <2>4 DEF WalkInv, Spared, Without
        <3>4. \A j \in Desired : Covered(am, j) => \E t \in R : t.ours /\ t.key = j
            BY <3>3 DEF Covered, Ours
        <3>5. lastOk[am] < Refresh =>
                 \A j \in Desired : \E t \in R : t.ours /\ t.key = j /\ t.left + lastOk[am] >= Refresh
            BY <3>3, <2>3 DEF LastInv, Ours
        <3>6. ASSUME gone' = gone \ {id}, UNCHANGED <<need, extra, am, age>>
              PROVE  (Superseded /\ Spared /\ Fresh /\ Fading)'
            <4>1. held'[am] = R
                BY <2>2, <2>3 DEF SilencesTypeOK
            <4>2. Superseded' /\ Fading'
                BY <3>6, <1>1 DEF Superseded, Fading
            <4>3. Spared'
                BY <3>6, <4>1, <3>1, <2>2 DEF WalkInv, Spared, Without
            <4>4. Fresh'
                BY <3>6, <4>1, <3>3, <2>2, <1>1 DEF WalkInv, Fresh, Ours
            <4> QED
                BY <4>2, <4>3, <4>4
        <3> QED
            BY <2>2, <3>2, <3>4, <3>5, <3>6, CallStep
    <2>5. CASE ~silence
        <3>1. Grace - age > 0 /\ Grace - age \in 1 .. TTL
            BY <1>3, <2>3, <2>5
        <3>2. R = Without(id) \cup {[s EXCEPT !.left = Grace - age] : s \in {t \in held[am] : t.id = id}}
            <4>1. \A s : Lasting(s, Grace - age) = {[s EXCEPT !.left = Grace - age]}
                BY <3>1 DEF Lasting
            <4>2. held[am] \ Without(id) = {t \in held[am] : t.id = id}
                BY DEF Without
            <4> QED
                BY <2>1, <2>5, <4>1, <4>2
        <3>3. \A s \in held[am] :
                 LET u == [s EXCEPT !.left = Grace - age]
                 IN  u \in Held /\ u.id = s.id /\ u.key = s.key /\ u.ours = s.ours
            BY <2>3, <3>1 DEF Held
        <3>4. \A r \in R : \/ r \in held[am] /\ r.id # id
                           \/ \E s \in held[am] : s.id = id /\ r = [s EXCEPT !.left = Grace - age]
            BY <3>2 DEF Without
        <3>5. R \subseteq Held /\ (\A s, t \in R : s.id = t.id => s = t)
            <4>1. ASSUME NEW r \in R
                  PROVE  /\ r \in Held
                         /\ \E s \in held[am] :
                               /\ s.id = r.id
                               /\ r.id = id => r = [s EXCEPT !.left = Grace - age]
                               /\ r.id # id => r = s
                <5>1. CASE r \in held[am] /\ r.id # id
                    BY <5>1, <2>3
                <5>2. CASE \E s \in held[am] : s.id = id /\ r = [s EXCEPT !.left = Grace - age]
                    <6>1. PICK s \in held[am] : s.id = id /\ r = [s EXCEPT !.left = Grace - age]
                        BY <5>2
                    <6>2. r \in Held /\ r.id = id
                        BY <6>1, <3>3
                    <6> QED
                        BY <6>1, <6>2
                <5> QED
                    BY <5>1, <5>2, <3>4
            <4> QED
                BY <4>1, <2>3
        <3>6. \A s \in held[am] : \E t \in R : t.ours = s.ours /\ t.key = s.key
            <4> SUFFICES ASSUME NEW s \in held[am]
                         PROVE  \E t \in R : t.ours = s.ours /\ t.key = s.key
                OBVIOUS
            <4>1. CASE s.id = id
                <5>1. [s EXCEPT !.left = Grace - age] \in R
                    BY <3>2, <4>1
                <5> QED
                    BY <5>1, <3>3
            <4>2. CASE s.id # id
                BY <3>2, <4>2 DEF Without
            <4> QED
                BY <4>1, <4>2
        <3>7. \A j \in Desired : Covered(am, j) => \E t \in R : t.ours /\ t.key = j
            BY <3>6 DEF Covered, Ours
        <3>8. ~(lastOk[am] < Refresh)
            BY <2>5, SilencesAssumption DEF WalkInv
        <3>9. ASSUME UNCHANGED <<need, extra, am, age>>
              PROVE  (Superseded /\ Spared /\ Fresh /\ Fading)'
            BY <3>9, <2>2, <2>5, <1>1 DEF Superseded, Spared, Fresh, Fading
        <3> QED
            BY <2>2, <3>5, <3>7, <3>8, <3>9, CallStep
    <2> QED
        BY <2>4, <2>5
<1> QED
    BY <1>2, <1>3

(* Time wears silences and promises down alike (Alertmanager's expiry). *)
LEMMA AgeStep ==
    ASSUME CoverInv, Tick
    PROVE  CoverInv'
<1> USE DEF CoverInv
<1> DEFINE Older(s) == [s EXCEPT !.left = @ - 1]
<1>1. /\ am # NoAM => age + 1 < TTL
      /\ age' = IF am = NoAM THEN 0 ELSE age + 1
      /\ held' = [a \in AMs |-> {Older(s) : s \in {t \in held[a] : t.left > 1}}]
      /\ lastOk' = [a \in AMs |-> IF lastOk[a] < Refresh THEN lastOk[a] + 1 ELSE Refresh]
      /\ UNCHANGED <<urls, queue, silence, am, need, extra, gone, failed, at>>
    BY DEF Tick, SilencesAge
<1>2. /\ TTL \in Nat /\ Refresh \in Nat \ {0} /\ age \in Nat
      /\ \A a \in AMs : lastOk[a] \in 0 .. Refresh /\ held[a] \subseteq Held
      /\ am # NoAM => am \in AMs
    BY SilencesAssumption DEF SilencesTypeOK
<1>3. \A s \in Held : s.left > 1 =>
          /\ Older(s) \in Held /\ Older(s).left = s.left - 1
          /\ Older(s).id = s.id /\ Older(s).key = s.key /\ Older(s).ours = s.ours
    BY <1>2 DEF Held
<1>4. \A s \in Held : s.left \in Nat
    BY <1>2 DEF Held
<1>5. ASSUME NEW a \in AMs, NEW r \in held'[a]
      PROVE  \E s \in held[a] : /\ s.left > 1 /\ r = Older(s) /\ r \in Held /\ r.left = s.left - 1
                                /\ r.id = s.id /\ r.key = s.key /\ r.ours = s.ours
    <2>1. PICK s \in held[a] : s.left > 1 /\ r = Older(s)
        BY <1>1, <1>5
    <2> QED
        BY <2>1, <1>2, <1>3
<1>6. ASSUME NEW a \in AMs, NEW s \in held[a], s.left > 1
      PROVE  /\ Older(s) \in held'[a] /\ Older(s).left = s.left - 1
             /\ Older(s).id = s.id /\ Older(s).key = s.key /\ Older(s).ours = s.ours
    <2>1. Older(s) \in held'[a]
        BY <1>1, <1>6
    <2> QED
        BY <2>1, <1>2, <1>3, <1>6
<1>7. SilencesTypeOK'
    <2>1. \A a \in AMs : held'[a] \subseteq Held
        BY <1>5
    <2>2. held' \in [AMs -> SUBSET Held]
        BY <1>1, <2>1
    <2>3. \A a \in AMs : \A s, t \in held'[a] : s.id = t.id => s = t
        BY <1>5 DEF SilencesTypeOK
    <2>4. lastOk' \in [AMs -> 0 .. Refresh]
        BY <1>1, <1>2
    <2>5. age' \in 0 .. TTL
        BY <1>1, <1>2
    <2> QED
        BY <1>1, <2>2, <2>3, <2>4, <2>5 DEF SilencesTypeOK
<1>8. LastInv'
    <2> SUFFICES ASSUME NEW a \in AMs, lastOk'[a] < Refresh, NEW k \in Desired
                 PROVE  \E r \in held'[a] : r.ours /\ r.key = k /\ r.left + lastOk'[a] >= Refresh
        BY DEF LastInv, Ours
    <2>1. lastOk[a] < Refresh /\ lastOk'[a] = lastOk[a] + 1
        BY <1>1, <1>2
    <2>2. PICK s \in Ours(a) : s.key = k /\ s.left + lastOk[a] >= Refresh
        BY <2>1 DEF LastInv
    <2>3. s \in held[a] /\ s.ours /\ s.left \in Nat
        BY <1>2, <1>4 DEF Ours
    <2>4. s.left > 1
        BY <2>1, <2>2, <2>3, <1>2
    <2>5. /\ Older(s) \in held'[a] /\ Older(s).left = s.left - 1
          /\ Older(s).key = s.key /\ Older(s).ours = s.ours
        BY <1>6, <2>3, <2>4
    <2>6. lastOk[a] \in Nat
        BY <1>2
    <2>7. Older(s).left + lastOk'[a] >= Refresh
        BY <2>1, <2>2, <2>3, <2>5, <2>6, <1>2
    <2> QED
        BY <2>2, <2>3, <2>5, <2>7
<1>9. ASSUME am # NoAM
      PROVE  (Superseded /\ Spared /\ Fresh /\ Fading)'
    <2>1. am \in AMs /\ age' = age + 1
        BY <1>1, <1>2, <1>9
    <2>2. ASSUME NEW r \in Ours(am)'
          PROVE  \E s \in Ours(am) : s.left > 1 /\ r.left = s.left - 1 /\ r.id = s.id /\ r.key = s.key
        BY <1>1, <1>5, <2>1, <2>2 DEF Ours
    <2>3. ASSUME NEW s \in Ours(am), s.left > 1
          PROVE  \E r \in Ours(am)' : r.left = s.left - 1 /\ r.id = s.id /\ r.key = s.key
        <3>1. s \in held[am] /\ s.ours
            BY <2>3 DEF Ours
        <3>2. /\ Older(s) \in held'[am] /\ Older(s).left = s.left - 1
              /\ Older(s).id = s.id /\ Older(s).key = s.key /\ Older(s).ours = s.ours
            BY <1>6, <2>1, <2>3, <3>1
        <3>3. Older(s) \in Ours(am)'
            BY <1>1, <3>1, <3>2 DEF Ours
        <3> QED
            BY <3>2, <3>3
    <2>4. \A s \in Ours(am) : s.left \in Nat
        BY <1>2, <1>4, <2>1 DEF Ours
    <2>5. Superseded'
        <3> SUFFICES ASSUME NEW r \in Ours(am)', r.id \in extra
                     PROVE  \E u \in Ours(am)' : u.key = r.key /\ u.id \notin extra /\ u.left >= r.left
            BY <1>1 DEF Superseded
        <3>1. PICK s \in Ours(am) : s.left > 1 /\ r.left = s.left - 1 /\ r.id = s.id /\ r.key = s.key
            BY <2>2
        <3>2. PICK t \in Ours(am) : t.key = s.key /\ t.id \notin extra /\ t.left >= s.left
            BY <3>1, <1>9 DEF WalkInv, Superseded
        <3>3. PICK u \in Ours(am)' : u.left = t.left - 1 /\ u.id = t.id /\ u.key = t.key
            BY <2>3, <2>4, <3>1, <3>2
        <3> QED
            BY <2>4, <3>1, <3>2, <3>3
    <2>6. Spared'
        BY <1>1, <1>5, <1>9, <2>1 DEF WalkInv, Spared
    <2>7. Fresh'
        <3> SUFFICES ASSUME silence, age + 1 < Refresh, NEW k \in Desired \ need
                     PROVE  \E r \in Ours(am)' : r.key = k /\ r.id \notin extra /\ r.left + age' >= Refresh
            BY <1>1, <2>1 DEF Fresh
        <3>1. PICK s \in Ours(am) : s.key = k /\ s.id \notin extra /\ s.left + age >= Refresh
            <4>1. age < Refresh
                BY <1>2
            <4> QED
                BY <4>1, <1>9 DEF WalkInv, Fresh
        <3>2. s.left > 1
            <4>1. s.left \in Nat
                BY <3>1, <2>4
            <4> QED
                BY <3>1, <4>1, <1>2
        <3>3. PICK r \in Ours(am)' : r.left = s.left - 1 /\ r.id = s.id /\ r.key = s.key
            BY <3>2, <2>3
        <3>4. r.left + age' >= Refresh
            <4>1. s.left \in Nat
                BY <2>4
            <4> QED
                BY <3>1, <3>3, <4>1, <2>1, <1>2
        <3> QED
            BY <3>1, <3>3, <3>4
    <2>8. Fading'
        <3> SUFFICES ASSUME NEW r \in Ours(am)', r.key \in need
                     PROVE  r.left + age' < Refresh
            BY <1>1 DEF Fading
        <3>1. PICK s \in Ours(am) : s.left > 1 /\ r.left = s.left - 1 /\ r.id = s.id /\ r.key = s.key
            BY <2>2
        <3>2. s.left + age < Refresh
            BY <3>1, <1>9 DEF WalkInv, Fading
        <3> QED
            BY <3>1, <3>2, <2>1, <2>4, <1>2
    <2> QED
        BY <2>5, <2>6, <2>7, <2>8
<1> QED
    BY <1>1, <1>2, <1>7, <1>8, <1>9 DEF WalkInv

PlanOK == plan \in [up : BOOLEAN, shed : BOOLEAN] /\ up \in BOOLEAN /\ shed \in BOOLEAN

(* What apply carries from the reading to the silences is a yes or a no. *)
LEMMA PlanIsOK == Spec => []PlanOK
<1>1. Init => PlanOK
    BY DEF Init, PlanOK, NoPlan
<1>2. PlanOK /\ [Next]_vars => PlanOK'
    <2> SUFFICES ASSUME PlanOK, [Next]_vars
                 PROVE  PlanOK'
        OBVIOUS
    <2>1. /\ plan' = plan \/ plan' = [up |-> up, shed |-> shed] \/ plan' = NoPlan
          /\ up' = up \/ up' = ~up
          /\ shed' = shed \/ shed' = ~shed
        BY DEF Next, Loop, vars, Observe, List, ListUnanswered, Set, ToSilences, Silence,
               BeforePowerOff, EndTick, Change, ByHand, Tick
    <2>2. plan' \in [up : BOOLEAN, shed : BOOLEAN]
        <3>1. CASE plan' = plan
            BY <3>1 DEF PlanOK
        <3>2. CASE plan' = [up |-> up, shed |-> shed]
            <4>1. \A x, y \in BOOLEAN : [up |-> x, shed |-> y] \in [up : BOOLEAN, shed : BOOLEAN]
                OBVIOUS
            <4> QED
                BY <3>2, <4>1 DEF PlanOK
        <3>3. CASE plan' = NoPlan
            BY <3>3 DEF NoPlan
        <3> QED
            BY <2>1, <3>1, <3>2, <3>3
    <2> QED
        BY <2>1, <2>2 DEF PlanOK
<1> QED
    BY <1>1, <1>2, PTL DEF Spec

(* The inductive step: a call, the end of a walk, time, or nothing of it. *)
LEMMA CoverInvStep ==
    ASSUME CoverInv, PlanOK, [Next]_vars
    PROVE  CoverInv' /\ (Keeps \/ Tick)
<1>1. CASE UNCHANGED silences /\ (am # NoAM => at' = "silences")
    BY <1>1 DEF CoverInv, WalkInv, LastInv, SilencesTypeOK, Superseded, Spared, Fresh, Fading,
                Ours, Keeps, Covered, silences, walk
<1>2. CASE Tick
    BY <1>2, AgeStep
<1>3. CASE Silence
    <2>1. at = "silences" /\ at' = at
        BY <1>3 DEF Silence
    <2>2. ASSUME NEW a \in AMs, ListSilences(a)
          PROVE  CoverInv' /\ Keeps
        BY <2>1, <2>2, ListStep
    <2>3. ASSUME NEW a \in AMs, ListFails(a)
          PROVE  CoverInv' /\ Keeps
        BY <2>1, <2>3 DEF ListFails, CoverInv, WalkInv, LastInv, SilencesTypeOK, Superseded, Spared,
                          Fresh, Fading, Ours, Keeps, Covered
    <2>4. ASSUME NEW k \in Desired, Ensure(k)
          PROVE  CoverInv' /\ Keeps
        <3>1. am # NoAM
            BY <2>4 DEF Ensure, CoverInv, WalkInv
        <3> QED
            BY <2>1, <2>4, <3>1, EnsureStep
    <2>5. ASSUME NEW id \in Ids, DeleteExtra(id)
          PROVE  CoverInv' /\ Keeps
        BY <2>1, <2>5, DeleteStep DEF DeleteExtra, CoverInv
    <2>6. ASSUME NEW id \in Ids, Retire(id)
          PROVE  CoverInv' /\ Keeps
        BY <2>1, <2>6, RetireStep DEF Retire, CoverInv
    <2>7. CASE am # NoAM /\ CallFails
        BY <2>7, LeaveStep DEF CallFails, GiveUp, CoverInv
    <2>8. CASE Converged
        BY <2>8, LeaveStep DEF Converged, CoverInv
    <2> QED
        BY <1>3, <2>2, <2>3, <2>4, <2>5, <2>6, <2>7, <2>8 DEF Silence, SilenceSteps
<1>4. CASE ToSilences
    BY <1>4 DEF PlanOK, ToSilences, StartSilences, CoverInv, WalkInv, LastInv, SilencesTypeOK, Ours, Keeps, Covered
<1>5. CASE Observe \/ List \/ ListUnanswered \/ BeforePowerOff \/ EndTick
    <2>1. CASE EndTick
        BY <2>1 DEF EndTick, SilencesDone, CoverInv, WalkInv, LastInv, SilencesTypeOK, Superseded,
                    Spared, Fresh, Fading, Ours, Keeps, Covered, walk
    <2> QED
        BY <1>1, <1>5, <2>1 DEF Observe, List, ListUnanswered, BeforePowerOff, SilencesDone, CoverInv
<1>6. CASE Set \/ Change \/ (\E j \in Jobs : ByHand(j)) \/ UNCHANGED vars
    BY <1>1, <1>6 DEF Set, Change, ByHand, vars, CoverInv
<1> QED
    BY <1>2, <1>3, <1>4, <1>5, <1>6 DEF Next, Loop

(* Coverage outlives the watchdog and its outages by silenceRefresh: after  *)
(* a reconcile that wanted silences and came through, every configured      *)
(* silence stands that long, whatever fails then (reconcileSilencesAt).     *)
THEOREM CoverageOutlivesUs == Spec => []CoverageLasts
<1>1. Init => CoverInv
    BY CoverInvInit
<1>2. CoverInv /\ PlanOK /\ [Next]_vars => CoverInv'
    BY CoverInvStep
<1>3. CoverInv => CoverageLasts
    BY DEF CoverInv, LastInv, CoverageLasts, Covered
<1> QED
    BY <1>1, <1>2, <1>3, PlanIsOK, PTL DEF Spec

(* No call of a reconcile, and no failure of one, leaves an alert uncovered *)
(* that was covered: only time does (reconcileSilencesAt, "creates and      *)
(* extensions happen before any retire").                                   *)
THEOREM CoverageHasNoGap == Spec => NoGap
<1> DEFINE NoneDropped == \A a \in AMs : \A k \in Desired : Covered(a, k) /\ ~Covered(a, k)' => Tick
<1>1. Init => CoverInv
    BY CoverInvInit
<1>2. CoverInv /\ PlanOK /\ [Next]_vars => CoverInv' /\ NoneDropped
    BY CoverInvStep DEF Keeps
<1>3. CoverInv /\ PlanOK /\ [Next]_vars => [NoneDropped]_vars
    BY <1>2
<1>4. CoverInv /\ PlanOK /\ [Next]_vars => CoverInv'
    BY <1>2
<1>5. Spec => [][NoneDropped]_vars
    BY <1>1, <1>3, <1>4, PlanIsOK, PTL DEF Spec
<1> QED
    BY <1>5 DEF NoGap

(* The type invariant, for every setup: apply comes to each of its parts    *)
(* with the one before it finished (Controller.apply).                      *)
THEOREM TypeCorrect == Spec => []TypeOK
<1> DEFINE Inv == TypeOK /\ ReplicationInv /\ CoverInv /\ PlanOK
<1>1. Init => Inv
    <2> SUFFICES ASSUME Init
                 PROVE  Inv
        OBVIOUS
    <2>1. ReplicationInv /\ CoverInv
        BY ReplicationInvInit, CoverInvInit
    <2>2. PlanOK
        BY DEF Init, PlanOK, NoPlan
    <2>3. level \in {"alert", "full"} /\ managed \in BOOLEAN
        BY SetupsAssumption DEF Init
    <2>4. at = "idle" /\ todo = {} /\ queue = {} /\ am = NoAM /\ failed = FALSE
        BY DEF Init, ReplicationInit, SilencesInit
    <2>5. TypeOK
        BY <2>1, <2>2, <2>3, <2>4 DEF TypeOK, PlanOK, ReplicationInv, ListingInv, CoverInv
    <2> QED
        BY <2>1, <2>2, <2>5
<1>2. Inv /\ PlanOK' /\ [Next]_vars => Inv'
    <2> SUFFICES ASSUME Inv, PlanOK', [Next]_vars
                 PROVE  Inv'
        OBVIOUS
    <2>1. ReplicationInv' /\ CoverInv'
        BY ReplicationInvStep, CoverInvStep
    <2>2. UNCHANGED config
        BY DEF Next, Loop, vars, config, Observe, List, ListUnanswered, Set, ToSilences, Silence,
               BeforePowerOff, EndTick, Change, ByHand, Tick
    <2>3. /\ at' \in {"idle", "list", "jobs", "silences", "last"}
          /\ todo' # {} => at' \in {"jobs", "last"}
          /\ queue' # {} \/ am' # NoAM => at' = "silences"
          /\ failed' => at' = "silences"
        <3>1. CASE Observe \/ List \/ ListUnanswered \/ BeforePowerOff \/ EndTick \/ ToSilences
            BY <3>1 DEF TypeOK, Observe, List, ListUnanswered, BeforePowerOff, EndTick, ToSilences,
                        SilencesDone, StartSilences, ListJobs, silences, walk, replication
        <3>2. CASE Set
            BY <3>2 DEF TypeOK, Set, SetJob, silences, walk
        <3>3. CASE Silence
            BY <3>3 DEF TypeOK, Silence, replication
        <3>4. CASE Change \/ (\E j \in Jobs : ByHand(j)) \/ Tick \/ UNCHANGED vars
            BY <3>4 DEF TypeOK, Change, ByHand, Toggle, Reword, Tick, SilencesAge, vars,
                        silences, walk, replication
        <3> QED
            BY <3>1, <3>2, <3>3, <3>4 DEF Next, Loop
    <2>4. TypeOK'
        BY <2>1, <2>2, <2>3 DEF TypeOK, PlanOK, config, ReplicationInv, ListingInv, CoverInv
    <2> QED
        BY <2>1, <2>4
<1>3. Inv => TypeOK
    OBVIOUS
<1> QED
    BY <1>1, <1>2, <1>3, PlanIsOK, PTL DEF Spec
=============================================================================

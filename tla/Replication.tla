---------------------------- MODULE Replication ----------------------------
(***************************************************************************)
(* reconcileReplication (internal/controller/controller.go): the           *)
(* replication jobs into p1, listed once and then set one by one.  Nothing *)
(* about them is stored by the watchdog: a job it has disabled is          *)
(* recognised by a marker in front of the job's comment.  Whoever          *)
(* administers the cluster edits the same jobs meanwhile.                  *)
(***************************************************************************)
EXTENDS Integers

CONSTANTS
    Jobs,           \* the jobs that replicate into p1
    Comments, Trim, \* the comments people write; Trim is strings.TrimSpace
    Broken,         \* jobs whose PUT fails, every time
    Edited,         \* jobs people edit in this instance
    JobsAtFirst     \* what the jobs may be like to begin with

ASSUME JobsAssumption ==
    /\ Trim \in [Comments -> Comments]
    /\ \A c \in Comments : Trim[Trim[c]] = Trim[c]
    /\ Broken \subseteq Jobs /\ Edited \subseteq Jobs
    /\ JobsAtFirst \subseteq
          {f \in [Jobs -> [disabled : BOOLEAN, marked : BOOLEAN, text : Comments]] :
             \A j \in Jobs : f[j].marked => f[j].disabled}

VARIABLES
    job,      \* the jobs as Proxmox holds them
    listed,   \* the jobs as the running reconcile has listed them
    todo,     \* the listed jobs it has yet to come to
    disable,  \* what it wants of them
    byHand,   \* history: jobs disabled by hand, under no PUT to come
    own,      \* history: the comment people gave each job
    raced     \* history: jobs whose comment was edited under a PUT to come

replication == <<job, listed, todo, disable, byHand, own, raced>>

\* marked: the comment starts with replicationMarker; text is what follows it.
JobStates == [disabled : BOOLEAN, marked : BOOLEAN, text : Comments]

ReplicationTypeOK ==
    /\ job \in [Jobs -> JobStates] /\ listed \in [Jobs -> JobStates]
    /\ todo \subseteq Jobs /\ disable \in BOOLEAN
    /\ byHand \subseteq Jobs /\ own \in [Jobs -> Comments] /\ raced \subseteq Jobs

Forgotten == [disabled |-> FALSE, marked |-> FALSE, text |-> CHOOSE c \in Comments : Trim[c] = c]

(* Jobs as people left them, or as a watchdog that is gone left them. *)
ReplicationInit ==
    /\ job \in JobsAtFirst
    /\ listed = [j \in Jobs |-> Forgotten] /\ todo = {} /\ disable = FALSE
    /\ byHand = {j \in Jobs : job[j].disabled /\ ~job[j].marked}
    /\ own = [j \in Jobs |-> job[j].text] /\ raced = {}

(* unmarkComment *)
original(j) == IF listed[j].marked THEN Trim[listed[j].text] ELSE listed[j].text

(* Mutant: whatever is disabled while p1 is down is taken for ours. *)
leftAloneUnless(j) == ~listed[j].marked /\ ~disable /\ ~listed[j].disabled

(* Not ours, and not an enabled job we want off. *)
leftAlone(j) == ~listed[j].marked /\ (~disable \/ listed[j].disabled)

(* Mutant: the comment of a job that was not ours is not taken over. *)
TargetBare(j) ==
    [disabled |-> disable, marked |-> disable,
     text |-> IF listed[j].marked THEN original(j) ELSE Forgotten.text]

(* markComment, or the comment as it was. *)
Target(j) == [disabled |-> disable, marked |-> disable, text |-> original(j)]

(* Whether the reconcile under way has it in mind to set j. *)
Writes(j) == j \in todo /\ ~leftAlone(j) /\ listed[j] # Target(j)

ListJobs(off) ==
    /\ todo = {}
    /\ listed' = job /\ disable' = off /\ todo' = Jobs
    /\ UNCHANGED <<job, byHand, own, raced>>

(* Mutant: the first job that cannot be set ends the reconcile. *)
SetJobOrStop(j) ==
    /\ j \in todo
    /\ job' = IF Writes(j) /\ j \notin Broken THEN [job EXCEPT ![j] = Target(j)] ELSE job
    /\ todo' = IF Writes(j) /\ j \in Broken THEN {} ELSE todo \ {j}
    /\ listed' = [listed EXCEPT ![j] = Forgotten]
    /\ UNCHANGED <<disable, byHand, own, raced>>

(* One turn of the loop: SetReplicationJob overwrites flag and comment with *)
(* what the listing said; an error is kept, and the loop goes on.           *)
SetJob(j) ==
    /\ j \in todo
    /\ job' = IF Writes(j) /\ j \notin Broken THEN [job EXCEPT ![j] = Target(j)] ELSE job
    /\ todo' = todo \ {j}
    /\ listed' = [listed EXCEPT ![j] = Forgotten]
    /\ UNCHANGED <<disable, byHand, own, raced>>

-----------------------------------------------------------------------------
(* Whoever administers the cluster.                                        *)

(* The Enabled checkbox. *)
Toggle(j) ==
    /\ j \in Edited
    /\ job' = [job EXCEPT ![j].disabled = ~@]
    /\ byHand' = IF job'[j].disabled /\ ~job[j].marked /\ ~Writes(j)
                 THEN byHand \cup {j} ELSE byHand \ {j}
    /\ UNCHANGED <<listed, todo, disable, own, raced>>

(* The comment is edited; the marker is left where it is. *)
Reword(j, c) ==
    /\ j \in Edited
    /\ job' = [job EXCEPT ![j].text = c]
    /\ own' = [own EXCEPT ![j] = c]
    /\ raced' = IF Writes(j) THEN raced \cup {j} ELSE raced \ {j}
    /\ UNCHANGED <<listed, todo, disable, byHand>>

-----------------------------------------------------------------------------
(* Properties.                                                             *)

(* A job disabled by hand is not switched on again when p1 comes back, and  *)
(* its comment is not claimed - whatever p1 does meanwhile, and also when   *)
(* the hand falls into a reconcile that has listed the job and means to     *)
(* leave it.  The exception is the hand on a job that this reconcile had    *)
(* listed as one to set: the PUT undoes it and claims the job               *)
(* (controller.go:1019-1025, 1044-1052, 1085).                              *)
HandDisableStands == \A j \in byHand : job[j].disabled /\ ~job[j].marked

(* A job's own comment survives any number of disables, re-enables and      *)
(* failures in between, up to surrounding blanks (markComment and           *)
(* unmarkComment), unless it was edited after the listing of a reconcile    *)
(* that then sets the job.                                                  *)
CommentKept == \A j \in Jobs \ raced : Trim[job[j].text] = Trim[own[j]]
=============================================================================

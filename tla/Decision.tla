------------------------------ MODULE Decision ------------------------------
(***************************************************************************)
(* One decision, over every snapshot of Inputs: what Decide promises       *)
(* whatever the world looked like, and what the decision after it makes of *)
(* the world the first one left behind.                                    *)
(***************************************************************************)
EXTENDS Decide

CONSTANTS
    Inputs,          \* the snapshots to decide on
    Watts, Charges   \* the readings a held signal must not depend on

ASSUME InputsAssumption ==
    Inputs \subseteq Snapshots /\ Watts \subseteq Int /\ Charges \subseteq Int

VARIABLES in, decided, out
vars == <<in, decided, out>>

Init == in \in Inputs /\ decided = FALSE /\ out = Stay(in)
Step == ~decided /\ decided' = TRUE /\ out' = Decide(in) /\ in' = in
Next == Step
Spec == Init /\ [][Next]_vars

(* The plan is one execute() can carry out. *)
TypeOK == in \in Snapshots /\ decided \in BOOLEAN /\ out \in Plans

-----------------------------------------------------------------------------
(* The world after the plan, up to what users do meanwhile.                *)

After == [in EXCEPT !.mode = out.next, !.grace = out.grace, !.done = out.done]
Asking(v) == [in.wake EXCEPT ![v] = 0]
NobodyAsks == [v \in Asked |-> Never]

(* The off is ordered and p1 still reads up; v's user presses Start. *)
GoingDown(v) ==
    [After EXCEPT !.inFlight = TRUE, !.wake = Asking(v),
                  !.running = in.running \ (out.migrate \cup out.stop)]
(* The off has landed. *)
Landed == [After EXCEPT !.up = FALSE, !.uptime = 0, !.running = {}, !.inFlight = FALSE]
(* The wake has landed; the request it was for may have been withdrawn. *)
Woken(wake) == [After EXCEPT !.up = TRUE, !.uptime = 0, !.running = {}, !.wake = wake]

-----------------------------------------------------------------------------
(* Nobody is switched off: a power-off is never decided for a p1 on which a *)
(* desktop VM runs, or for which an unserved live request waits (README,    *)
(* Modes and Desktop VMs; decide.go:197-212, 257-276).                      *)
PowerOffSparesUsers ==
    decided /\ out.poweroff =>
        /\ in.up /\ in.running \cap GamingGuard = {}
        /\ \A v \in Asked : in.wake[v] < GamingGrace /\ in.wake[v] < in.done[v] => v \in in.running

(* A request is acted on in the very tick that reads it - p1 is woken or    *)
(* kept up and the VM is started - unless p1 is on its way down, or the     *)
(* loop first has to correct a mode that says p1 is up (decide.go:217-298). *)
RequestAnswered ==
    decided =>
        \A v \in Asked \ in.running :
            /\ in.wake[v] < GamingGrace /\ in.wake[v] < in.done[v]
            /\ ~in.inFlight /\ (in.up \/ in.mode = "shed")
            => v \in out.start /\ (in.up \/ out.wake) /\ ~out.poweroff

(* A request is spent once its VM was seen running: whatever mode the loop  *)
(* moved to, the next decision does not start that VM again after its user  *)
(* shut it down (resolveWake, decide.go:107-134).                           *)
ServedOnce ==
    decided =>
        \A v \in Asked \cap in.running :
            v \notin Decide([After EXCEPT !.running = @ \ {v}]).start

(* The manual holds are a pinned signal: with one in force the plan is the  *)
(* same under every sun and every battery (decide.go:149-164).              *)
HoldsPinTheSignal ==
    decided /\ (in.shed \/ in.on) =>
        \A w \in Watts, c \in Charges :
            Decide([in EXCEPT !.surplus = w, !.soc = c]) = out

(* minRuntime defers the shed of a running p1 and does nothing else: in     *)
(* gaming, or when it makes no difference to the signal, the plan is that   *)
(* of a p1 that has been up long enough; what it defers, it defers whole    *)
(* (README, Minimum runtime; decide.go:80-86, 159-163).                     *)
MinRuntimeOnlyDefers ==
    decided /\ minRuntimeHold(in) /\ in.mode # "shed" =>
        LET free == Decide([in EXCEPT !.uptime = MinRuntime]) IN
        \/ out = free
        \/ /\ in.mode = "running" /\ ~in.shed /\ free.next \in {"shed", "gaming"}
           /\ out.next = "running" /\ out.migrate = {} /\ out.stop = {} /\ ~out.poweroff

(* Power does not flap: under an unchanged sun the decision after a         *)
(* power-off neither wakes p1 nor starts or restores anything on it while   *)
(* it goes down, whoever presses Start, and does not wake it once it is     *)
(* down; the decision after a wake does not power off, even when the        *)
(* request behind the wake is gone by then (decide.go:217-298).             *)
NoThrash ==
    decided =>
        /\ out.poweroff =>
              /\ \A v \in Asked :
                    LET next == Decide(GoingDown(v))
                    IN  ~next.wake /\ ~next.restore /\ next.start = {}
              /\ ~Decide(Landed).wake
        /\ out.wake => ~Decide(Woken(in.wake)).poweroff /\ ~Decide(Woken(NobodyAsks)).poweroff
=============================================================================

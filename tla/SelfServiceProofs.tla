------------------------- MODULE SelfServiceProofs -------------------------
(***************************************************************************)
(* Theorems about the self-service API, for any number of users, VMs and   *)
(* clicks, and every disturbance.                                          *)
(***************************************************************************)
EXTENDS SelfService, TLAPS

(* Ages, requests, and the idle states have their types. *)
LEMMA Basics ==
    ASSUME Asked # {}
    PROVE  /\ 0 \in Ages /\ Never \in Ages
           /\ NoRequests \in [Asked -> Ages] /\ NoIntent \in Intents
           /\ Idle \in Clicks /\ NoTick \in Ticks /\ NoView \in Views
<1>1. 0 \in Ages /\ Never \in Ages
  BY DurationsAssumption DEF Ages, Never
<1>2. NoRequests \in [Asked -> Ages]
  BY <1>1 DEF NoRequests
<1>3. NoIntent \in Intents
  BY <1>2 DEF NoIntent, Intents
<1>4. (CHOOSE v \in Asked : TRUE) \in Asked
  OBVIOUS
<1>5. Idle \in Clicks
  BY <1>3, <1>4 DEF Idle, Clicks
<1>6. NoTick \in Ticks
  BY <1>2 DEF NoTick, Ticks
<1>7. NoView \in Views
  BY DEF NoView, Views
<1> QED
  BY <1>1, <1>2, <1>3, <1>5, <1>6, <1>7

(* Time leaves ages ages. *)
LEMMA OlderType == ASSUME NEW f \in [Asked -> Ages] PROVE OlderAges(f) \in [Asked -> Ages]
<1>1. \A a \in Ages : Older(a) \in Ages
  BY DurationsAssumption DEF Older, Ages, Never
<1> QED
  BY <1>1 DEF OlderAges

(* A handler that saves leaves an intent that can be stored. *)
LEMMA IntentTypes ==
    ASSUME Asked # {}, NEW i \in Intents, NEW v \in Asked, NEW h \in {"solar", "shed", "on"}
    PROVE  /\ withRequest(i, v) \in Intents /\ withoutRequest(i, v) \in Intents
           /\ [i EXCEPT !.hold = h] \in Intents
<1>1. i.wake \in [Asked -> Ages] /\ i.hold \in {"solar", "shed", "on"}
  BY DEF Intents
<1>2. /\ [w \in Asked |-> IF w = v THEN 0 ELSE i.wake[w]] \in [Asked -> Ages]
      /\ [w \in Asked |-> IF w = v THEN Never ELSE i.wake[w]] \in [Asked -> Ages]
  BY <1>1, Basics
<1> QED
  BY <1>1, <1>2 DEF withRequest, withoutRequest, Intents

(* What a click means is an intent, too. *)
LEMMA MeantType ==
    ASSUME Asked # {}, wanted \in Intents, NEW c \in Clicks
    PROVE  Meant(c) \in Intents
<1>1. wanted.wake \in [Asked -> Ages] /\ wanted.hold \in {"solar", "shed", "on"}
  BY DEF Intents
<1>2. c.hold \in {"solar", "shed", "on"} /\ c.vm \in Asked
  BY DEF Clicks
<1> QED
  BY <1>1, <1>2, Basics DEF Meant, Intents

(* A save marks the copies of the others as stale. *)
LEMMA SaveOthers ==
    ASSUME TypeOK, NEW u \in Users, NEW new, NEW next, SaveIntent(u, new, next),
           NEW w \in Users \ {u}
    PROVE  /\ click'[w] \in Clicks
           /\ click'[w].at = click[w].at /\ click'[w].op = click[w].op
           /\ click'[w].vm = click[w].vm /\ click'[w].intent = click[w].intent
           /\ click'[w].stale = (click[w].stale \/ click[w].at # "idle")
           /\ click'[w].served = (click[w].served /\ (click[u].op = "start" => click[u].vm # click[w].vm))
<1>1. PICK b \in BOOLEAN : b = (click[w].stale \/ click[w].at # "idle")
  OBVIOUS
<1>2. PICK d \in BOOLEAN : d = (click[w].served /\ (click[u].op = "start" => click[u].vm # click[w].vm))
  OBVIOUS
<1>3. click'[w] = [click[w] EXCEPT !.stale = b, !.served = d]
  BY <1>1, <1>2 DEF SaveIntent
<1>4. click[w] \in Clicks
  BY DEF TypeOK
<1> QED
  BY <1>1, <1>2, <1>3, <1>4 DEF Clicks

(* A save hands on intents and clicks. *)
LEMMA SaveType ==
    ASSUME Asked # {}, TypeOK, NEW u \in Users, NEW new \in Intents, NEW next \in Clicks,
           SaveIntent(u, new, next)
    PROVE  /\ intent' \in Intents /\ wanted' \in Intents /\ overlapped' \in BOOLEAN
           /\ click' \in [Users -> Clicks]
<1>1. Meant(click[u]) \in Intents /\ NoIntent \in Intents
  BY MeantType, Basics DEF TypeOK
<1>2. click'[u] = next /\ DOMAIN click' = Users /\ click' = [w \in Users |-> click'[w]]
  BY DEF SaveIntent
<1>3. \A w \in Users : click'[w] \in Clicks
  BY <1>2, SaveOthers
<1>4. click' \in [Users -> Clicks]
  BY <1>2, <1>3
<1> QED
  BY <1>1, <1>4 DEF SaveIntent, TypeOK

(* A view is a view, and the GPUs are those of Proxmox or unknown. *)
LEMMA ViewType ==
    ASSUME TypeOK, View
    PROVE  cached' \in Views /\ gpu' \in {Passthrough, [v \in Asked |-> NoGPU]}
<1>1. [fresh |-> TRUE, ok |-> TRUE, up |-> up, running |-> running] \in Views
  BY DEF TypeOK, Views
<1>2. [NoView EXCEPT !.fresh = TRUE, !.ok = FALSE, !.up = @ \/ up] \in Views
  BY DEF TypeOK, NoView, Views
<1> QED
  BY <1>1, <1>2 DEF View, server, TypeOK

-----------------------------------------------------------------------------
(* Every step keeps the types. *)
LEMMA TypeStep == ASSUME Asked # {}, TypeOK, [Next]_vars PROVE TypeOK'
<1> USE DEF TypeOK, store, cluster, server, history
<1>1. ASSUME NEW u \in Users, NEW v \in Asked, StartLoad(u, v) PROVE TypeOK'
  <2>1. [Reading("check") EXCEPT !.op = "start", !.vm = v] \in Clicks
    BY Basics DEF Reading, Clicks, Idle
  <2>2. click' \in [Users -> Clicks] /\ clicks' \in 0 .. MaxClicks
    BY <1>1, <2>1, UsersAssumption DEF StartLoad, NewClick
  <2> QED
    BY <1>1, <2>2 DEF StartLoad
<1>2. ASSUME NEW u \in Users, NEW v \in Asked, NEW op \in Actions, PowerView(u, v, op) PROVE TypeOK'
  <2>1. op \in {"shutdown", "stop", "reboot", "reset"}
    BY UsersAssumption
  <2>2. [Idle EXCEPT !.op = op, !.vm = v,
            !.at = IF op \in {"shutdown", "stop"} THEN "load" ELSE "power"] \in Clicks
    BY <2>1, Basics DEF Clicks, Idle
  <2>3. click' \in [Users -> Clicks] /\ clicks' \in 0 .. MaxClicks
    BY <1>2, <2>2, Basics, UsersAssumption DEF PowerView, NewClick
  <2>4. cached' \in Views /\ gpu' \in {Passthrough, [w \in Asked |-> NoGPU]}
    BY <1>2, ViewType DEF PowerView
  <2> QED
    BY <1>2, <2>3, <2>4 DEF PowerView
<1>3. ASSUME NEW u \in Users, StartCheck(u) PROVE TypeOK'
  <2>1. [click[u] EXCEPT !.at = "save"] \in Clicks
    BY DEF Clicks
  <2>2. click' \in [Users -> Clicks]
    BY <1>3, <2>1, Basics DEF StartCheck
  <2>3. cached' \in Views /\ gpu' \in {Passthrough, [w \in Asked |-> NoGPU]}
    BY <1>3, ViewType DEF StartCheck
  <2>4. unchecked' \subseteq Asked
    <3>1. click[u].vm \in Asked
      BY DEF Clicks
    <3> QED
      BY <1>3, <3>1 DEF StartCheck
  <2> QED
    BY <1>3, <2>2, <2>3, <2>4 DEF StartCheck
<1>4. ASSUME NEW u \in Users, StartSave(u) PROVE TypeOK'
  <2>1. click[u].intent \in Intents /\ click[u].vm \in Asked
    BY DEF Clicks
  <2>2. withRequest(click[u].intent, click[u].vm) \in Intents
    BY <2>1, IntentTypes
  <2>3. /\ intent' \in Intents /\ wanted' \in Intents /\ overlapped' \in BOOLEAN
        /\ click' \in [Users -> Clicks]
    BY <1>4, <2>2, SaveType, Basics DEF StartSave
  <2>4. rushed' \subseteq Asked
    BY <1>4, <2>1 DEF StartSave
  <2> QED
    BY <1>4, <2>3, <2>4 DEF StartSave
<1>5. ASSUME NEW u \in Users, DropLoad(u) PROVE TypeOK'
  <2>1. click[u].vm \in Asked /\ click[u].op \in {"none", "start", "hold"} \cup {"shutdown", "stop", "reboot", "reset"}
    BY DEF Clicks
  <2> DEFINE s == Live(intent.wake[click[u].vm]) /\ done[click[u].vm] <= intent.wake[click[u].vm]
  <2>2. s \in BOOLEAN
    BY DEF Live
  <2> HIDE DEF s
  <2>3. [Reading("save") EXCEPT !.op = click[u].op, !.vm = click[u].vm, !.served = s] \in Clicks
    BY <2>1, <2>2, Basics DEF Reading, Clicks, Idle
  <2>4. click' = [click EXCEPT ![u] = [Reading("save") EXCEPT !.op = click[u].op, !.vm = click[u].vm, !.served = s]]
    BY <1>5 DEF DropLoad, s
  <2>5. click' \in [Users -> Clicks]
    BY <2>3, <2>4
  <2> QED
    BY <1>5, <2>5 DEF DropLoad
<1>6. ASSUME NEW u \in Users, DropSave(u) PROVE TypeOK'
  <2>1. click[u].intent \in Intents /\ click[u].vm \in Asked
    BY DEF Clicks
  <2>2. withoutRequest(click[u].intent, click[u].vm) \in Intents
    BY <2>1, IntentTypes
  <2>3. [click[u] EXCEPT !.at = "power", !.intent = NoIntent, !.stale = FALSE] \in Clicks
    BY Basics DEF Clicks
  <2>4. /\ intent' \in Intents /\ wanted' \in Intents /\ overlapped' \in BOOLEAN
        /\ click' \in [Users -> Clicks]
    BY <1>6, <2>2, <2>3, SaveType DEF DropSave
  <2> QED
    BY <1>6, <2>4 DEF DropSave
<1>7. ASSUME NEW u \in Users, Power(u) PROVE TypeOK'
  <2>1. click[u].vm \in Asked
    BY DEF Clicks
  <2>2. cached' \in Views /\ shutDown' \subseteq Asked /\ click' \in [Users -> Clicks]
    BY <1>7, <2>1, Basics DEF Power
  <2> QED
    BY <1>7, <2>2 DEF Power
<1>8. ASSUME NEW u \in Users, HoldSave(u) PROVE TypeOK'
  <2>1. click[u].intent \in Intents /\ click[u].hold \in {"solar", "shed", "on"} /\ click[u].vm \in Asked
    BY DEF Clicks
  <2>2. [click[u].intent EXCEPT !.hold = click[u].hold] \in Intents
    BY <2>1, IntentTypes
  <2>3. /\ intent' \in Intents /\ wanted' \in Intents /\ overlapped' \in BOOLEAN
        /\ click' \in [Users -> Clicks]
    BY <1>8, <2>2, SaveType, Basics DEF HoldSave
  <2> QED
    BY <1>8, <2>3 DEF HoldSave
<1>9. ASSUME NEW u \in Users, SaveFails(u) PROVE TypeOK'
  BY <1>9, Basics DEF SaveFails
<1>10. ASSUME NEW u \in Users, NEW h \in Positions, HoldLoad(u, h) PROVE TypeOK'
  <2>1. h \in {"solar", "shed", "on"}
    BY UsersAssumption
  <2>2. [Reading("save") EXCEPT !.op = "hold", !.hold = h] \in Clicks
    BY <2>1, Basics DEF Reading, Clicks, Idle
  <2>3. click' \in [Users -> Clicks] /\ clicks' \in 0 .. MaxClicks
    BY <1>10, <2>2, UsersAssumption DEF HoldLoad, NewClick
  <2> QED
    BY <1>10, <2>3 DEF HoldLoad
<1>11. CASE Status
  BY <1>11, ViewType DEF Status
<1>12. CASE TickRead
  <2>1. [v \in Asked |-> IF failed[v] = intent.wake[v] THEN Never ELSE intent.wake[v]] \in [Asked -> Ages]
    BY Basics DEF Intents
  <2>2. tick' \in Ticks
    BY <1>12, <2>1, Basics DEF TickRead, NoTick, Ticks
  <2> QED
    BY <1>12, <2>2 DEF TickRead
<1>13. CASE TickObserve
  <2> DEFINE s == [wake |-> tick.wake, done |-> done, running |-> running]
  <2>1. s.wake \in [Asked -> Ages] /\ s.done \in [Asked -> Ages]
    BY DEF Ticks
  <2>2. WakeDone(s) \in [Asked -> Ages] /\ Pending(s) \in SUBSET Asked
    BY <2>1, Basics DEF WakeDone, Pending
  <2>3. tick'.at \in {"save", "start"} /\ tick'.wake \in [Asked -> Ages]
    BY <1>13, Basics DEF TickObserve, Ticks
  <2>4. tick' = [at |-> tick'.at, wake |-> tick'.wake, done |-> WakeDone(s), start |-> Pending(s)]
    BY <1>13 DEF TickObserve
  <2> HIDE DEF s
  <2>5. tick' \in Ticks
    BY <2>2, <2>3, <2>4 DEF Ticks
  <2> QED
    BY <1>13, <2>5 DEF TickObserve
<1>14. CASE TickStart
  <2>1. running' \subseteq Asked /\ running \subseteq running' /\ up' = TRUE
    BY <1>14 DEF TickStart, Ticks
  <2>2. failed' \in [Asked -> Ages]
    BY <1>14, Basics DEF TickStart, Ticks
  <2>3. tick' \in Ticks
    BY <1>14, Basics DEF TickStart, Ticks
  <2> QED
    BY <1>14, <2>1, <2>2, <2>3 DEF TickStart
<1>15. CASE TickSave
  <2>1. tick' \in Ticks /\ done' \in [Asked -> Ages]
    BY <1>15, Basics DEF TickSave, Ticks
  <2> QED
    BY <1>15, <2>1 DEF TickSave
<1>16. ASSUME NEW v \in Asked, VMStops(v) PROVE TypeOK'
  BY <1>16 DEF VMStops
<1>17. ASSUME NEW v \in Asked, VMStarts(v) PROVE TypeOK'
  BY <1>17 DEF VMStarts
<1>18. CASE HostOff
  BY <1>18 DEF HostOff
<1>19. CASE Restart
  BY <1>19, Basics DEF Restart
<1>20. CASE Tick
  <2>1. ASSUME NEW i \in Intents PROVE OlderIntent(i) \in Intents
    <3>1. i.wake \in [Asked -> Ages]
      BY DEF Intents
    <3>2. OlderAges(i.wake) \in [Asked -> Ages]
      BY <3>1, OlderType
    <3> QED
      BY <3>2 DEF OlderIntent, Intents
  <2>2. ASSUME NEW c \in Clicks, NEW i \in Intents PROVE [c EXCEPT !.intent = i] \in Clicks
    BY DEF Clicks
  <2>3. click' \in [Users -> Clicks]
    <3> DEFINE older(u) == [click[u] EXCEPT !.intent = OlderIntent(click[u].intent)]
    <3>1. ASSUME NEW u \in Users PROVE older(u) \in Clicks
      <4>1. click[u] \in Clicks /\ click[u].intent \in Intents
        BY DEF Clicks
      <4> QED
        BY <2>1, <2>2, <4>1
    <3>2. click' = [u \in Users |-> older(u)]
      BY <1>20 DEF Tick
    <3> HIDE DEF older
    <3> QED
      BY <3>1, <3>2
  <2>4. tick' \in Ticks
    BY <1>20, OlderType DEF Tick, Ticks
  <2>5. done' \in [Asked -> Ages] /\ failed' \in [Asked -> Ages]
    BY <1>20, OlderType DEF Tick
  <2>6. intent' \in Intents /\ wanted' \in Intents
    BY <1>20, <2>1 DEF Tick
  <2> QED
    BY <1>20, <2>3, <2>4, <2>5, <2>6, Basics DEF Tick
<1>21. CASE UNCHANGED vars
  BY <1>21 DEF vars
<1> QED
  BY <1>1, <1>2, <1>3, <1>4, <1>5, <1>6, <1>7, <1>8, <1>9, <1>10, <1>11, <1>12, <1>13, <1>14, <1>15, <1>16, <1>17, <1>18, <1>19, <1>20, <1>21
     DEF Next

(* Whatever handlers, ticks and failures interleave, the stored intent, the *)
(* copies the handlers hold, the caches and the markers stay well-formed.   *)
THEOREM TypeCorrect == ASSUME Asked # {} PROVE Spec => []TypeOK
<1>1. Init => TypeOK
  <2> SUFFICES ASSUME Init PROVE TypeOK
    OBVIOUS
  <2>1. 0 \in 0 .. MaxClicks
    BY UsersAssumption
  <2> QED
    BY <2>1, Basics DEF Init, TypeOK
<1>2. TypeOK /\ [Next]_vars => TypeOK'
  BY TypeStep
<1> QED
  BY <1>1, <1>2, PTL DEF Spec

-----------------------------------------------------------------------------
(* Lost clicks.                                                            *)

(* As long as nobody has saved over what somebody else had saved meanwhile, *)
(* the copy of a handler nobody overtook is the intent itself.              *)
Serial ==
    ~overlapped =>
       /\ intent = wanted
       /\ \A u \in Users :
             click[u].at \in {"check", "save"} /\ ~click[u].stale => click[u].intent = intent

(* A save keeps it: what it writes is what its click means.                 *)
LEMMA SaveSerial ==
    ASSUME TypeOK, Serial, NEW u \in Users, NEW new \in Intents, NEW next \in Clicks,
           SaveIntent(u, new, next), next.at \notin {"check", "save"},
           click[u].at = "save", click[u].intent = wanted => new = Meant(click[u])
    PROVE  Serial'
<1> SUFFICES ASSUME ~overlapped'
             PROVE  /\ intent' = wanted'
                    /\ \A w \in Users :
                          click'[w].at \in {"check", "save"} /\ ~click'[w].stale
                             => click'[w].intent = intent'
  BY DEF Serial
<1>1. ~overlapped /\ ~click[u].stale
  BY DEF SaveIntent, TypeOK
<1>2. click[u].intent = wanted
  BY <1>1 DEF Serial
<1>3. intent' = wanted'
  BY <1>2 DEF SaveIntent
<1>4. ASSUME NEW w \in Users, click'[w].at \in {"check", "save"} PROVE click'[w].stale
  <2>1. CASE w = u
    BY <1>4, <2>1 DEF SaveIntent
  <2>2. CASE w # u
    BY <1>4, <2>2, SaveOthers
  <2> QED
    BY <2>1, <2>2
<1> QED
  BY <1>3, <1>4

(* Every step keeps Serial. *)
LEMMA SerialStep == ASSUME Asked # {}, TypeOK, Serial, [Next]_vars PROVE Serial'
<1> USE DEF Serial, store, cluster, server, history
<1>1. ASSUME NEW u \in Users, NEW v \in Asked, StartLoad(u, v) PROVE Serial'
  BY <1>1 DEF StartLoad, Reading, Idle, TypeOK
<1>2. ASSUME NEW u \in Users, NEW v \in Asked, NEW op \in Actions, PowerView(u, v, op) PROVE Serial'
  BY <1>2 DEF PowerView, Idle, TypeOK
<1>3. ASSUME NEW u \in Users, StartCheck(u) PROVE Serial'
  <2> DEFINE granted == [click[u] EXCEPT !.at = "save"]
  <2>1. PICK c \in {Idle, granted} : click' = [click EXCEPT ![u] = c]
    <3>1. (IF gpuBlocked(u) THEN Idle ELSE granted) \in {Idle, granted}
      OBVIOUS
    <3> QED
      BY <1>3, <3>1 DEF StartCheck
  <2>2. intent' = intent /\ wanted' = wanted /\ overlapped' = overlapped /\ click[u].at = "check"
    BY <1>3 DEF StartCheck
  <2>3. granted.intent = click[u].intent /\ granted.stale = click[u].stale
    BY DEF TypeOK, Clicks
  <2>4. Idle.at = "idle"
    BY DEF Idle
  <2> HIDE DEF granted
  <2>5. \/ click'[u].at = "idle"
        \/ click'[u].intent = click[u].intent /\ click'[u].stale = click[u].stale
    BY <2>1, <2>3, <2>4 DEF TypeOK
  <2>6. \A w \in Users \ {u} : click'[w] = click[w]
    BY <2>1 DEF TypeOK
  <2> QED
    BY <2>2, <2>5, <2>6
<1>4. ASSUME NEW u \in Users, StartSave(u) PROVE Serial'
  <2> DEFINE c == click[u]
  <2>1. c \in Clicks /\ c.intent \in Intents /\ c.vm \in Asked /\ wanted \in Intents
    BY DEF TypeOK, Clicks
  <2>2. c.at = "save" /\ c.op = "start"
        /\ SaveIntent(u, withRequest(c.intent, c.vm), Idle)
    BY <1>4 DEF StartSave
  <2>3. withRequest(c.intent, c.vm) \in Intents
    BY <2>1, IntentTypes
  <2>4. withRequest(wanted, c.vm) = Meant(c)
    BY <2>1, <2>2 DEF withRequest, Meant, Intents
  <2>5. Idle \in Clicks /\ Idle.at \notin {"check", "save"}
    BY Basics DEF Idle
  <2> HIDE DEF c
  <2>6. c.intent = wanted => withRequest(c.intent, c.vm) = Meant(c)
    BY <2>4
  <2> QED
    BY <2>2, <2>3, <2>5, <2>6, SaveSerial DEF c
<1>5. ASSUME NEW u \in Users, DropLoad(u) PROVE Serial'
  BY <1>5 DEF DropLoad, Reading, Idle, TypeOK
<1>6. ASSUME NEW u \in Users, DropSave(u) PROVE Serial'
  <2> DEFINE c == click[u]
             next == [c EXCEPT !.at = "power", !.intent = NoIntent, !.stale = FALSE]
  <2>1. c \in Clicks /\ c.intent \in Intents /\ c.vm \in Asked /\ wanted \in Intents
    BY DEF TypeOK, Clicks
  <2>2. c.at = "save" /\ c.op \in {"shutdown", "stop"}
        /\ SaveIntent(u, withoutRequest(c.intent, c.vm), next)
    BY <1>6 DEF DropSave
  <2>3. withoutRequest(c.intent, c.vm) \in Intents
    BY <2>1, IntentTypes
  <2>4. withoutRequest(wanted, c.vm) = Meant(c)
    BY <2>1, <2>2 DEF withoutRequest, Meant, Intents
  <2>5. next \in Clicks /\ next.at \notin {"check", "save"}
    BY <2>1, Basics DEF Clicks
  <2> HIDE DEF c, next
  <2>6. c.intent = wanted => withoutRequest(c.intent, c.vm) = Meant(c)
    BY <2>4
  <2> QED
    BY <2>2, <2>3, <2>5, <2>6, SaveSerial DEF c
<1>7. ASSUME NEW u \in Users, Power(u) PROVE Serial'
  BY <1>7 DEF Power, Idle, TypeOK
<1>8. ASSUME NEW u \in Users, HoldSave(u) PROVE Serial'
  <2> DEFINE c == click[u]
             new == [c.intent EXCEPT !.hold = c.hold]
  <2>1. c \in Clicks /\ c.intent \in Intents /\ c.hold \in {"solar", "shed", "on"}
        /\ c.vm \in Asked /\ wanted \in Intents
    BY DEF TypeOK, Clicks
  <2>2. c.at = "save" /\ c.op = "hold" /\ SaveIntent(u, new, Idle)
    BY <1>8 DEF HoldSave
  <2>3. new \in Intents
    BY <2>1, IntentTypes
  <2>4. [wanted EXCEPT !.hold = c.hold] = Meant(c)
    BY <2>1, <2>2 DEF Meant, Intents
  <2>5. Idle \in Clicks /\ Idle.at \notin {"check", "save"}
    BY Basics DEF Idle
  <2>6. c.intent = wanted => new = Meant(c)
    BY <2>4
  <2> HIDE DEF c, new
  <2> QED
    BY <2>2, <2>3, <2>5, <2>6, SaveSerial DEF c
<1>9. ASSUME NEW u \in Users, SaveFails(u) PROVE Serial'
  BY <1>9 DEF SaveFails, Idle, TypeOK
<1>10. ASSUME NEW u \in Users, NEW h \in Positions, HoldLoad(u, h) PROVE Serial'
  BY <1>10 DEF HoldLoad, Reading, Idle, TypeOK
<1>11. CASE Status
  BY <1>11 DEF Status
<1>12. CASE TickRead
  BY <1>12 DEF TickRead
<1>13. CASE TickObserve
  BY <1>13 DEF TickObserve
<1>14. CASE TickStart
  BY <1>14 DEF TickStart
<1>15. CASE TickSave
  BY <1>15 DEF TickSave
<1>16. ASSUME NEW v \in Asked, VMStops(v) PROVE Serial'
  BY <1>16 DEF VMStops
<1>17. ASSUME NEW v \in Asked, VMStarts(v) PROVE Serial'
  BY <1>17 DEF VMStarts
<1>18. CASE HostOff
  BY <1>18 DEF HostOff
<1>19. CASE Restart
  BY <1>19 DEF Restart, Idle
<1>20. CASE Tick
  <2>1. intent' = OlderIntent(intent) /\ wanted' = OlderIntent(wanted) /\ overlapped' = overlapped
    BY <1>20 DEF Tick
  <2>2. ASSUME NEW u \in Users
        PROVE  /\ click'[u].at = click[u].at /\ click'[u].stale = click[u].stale
               /\ click'[u].intent = OlderIntent(click[u].intent)
    <3>1. click[u] \in Clicks
      BY DEF TypeOK
    <3>2. click'[u] = [click[u] EXCEPT !.intent = OlderIntent(click[u].intent)]
      BY <1>20 DEF Tick
    <3> QED
      BY <3>1, <3>2 DEF Clicks
  <2> QED
    BY <2>1, <2>2
<1>21. CASE UNCHANGED vars
  BY <1>21 DEF vars
<1> QED
  BY <1>1, <1>2, <1>3, <1>4, <1>5, <1>6, <1>7, <1>8, <1>9, <1>10, <1>11, <1>12, <1>13, <1>14, <1>15, <1>16, <1>17, <1>18, <1>19, <1>20, <1>21
     DEF Next

(* Clicks are lost only when two handlers overlap, with any number of users *)
(* and VMs: until a handler saves over a save it has not read, the stored   *)
(* intent is all clicks applied one after the other.                        *)
THEOREM ClicksSerialise == ASSUME Asked # {} PROVE Spec => []LostOnlyByOverlap
<1>1. Init => Serial
  BY DEF Init, Serial, Idle
<1>2. TypeOK /\ Serial /\ [Next]_vars => Serial'
  BY SerialStep
<1>3. Serial => LostOnlyByOverlap
  BY DEF Serial, LostOnlyByOverlap
<1> QED
  BY <1>1, <1>2, <1>3, TypeCorrect, PTL DEF Spec

-----------------------------------------------------------------------------
(* GPUs.                                                                   *)

(* A fresh view knows every VM that has been up since before it was taken. *)
ViewKnows == cached.fresh /\ cached.ok => settled \subseteq cached.running

(* Taking a view keeps it. *)
LEMMA ViewSees == ASSUME TypeOK, ViewKnows, View
    PROVE  cached'.fresh /\ (cached'.ok => settled \subseteq cached'.running)
<1>1. CASE cached.fresh
  BY <1>1 DEF View, ViewKnows, server
<1>2. CASE cached' = [fresh |-> TRUE, ok |-> TRUE, up |-> up, running |-> running]
  BY <1>2 DEF TypeOK
<1>3. CASE cached' = [NoView EXCEPT !.fresh = TRUE, !.ok = FALSE, !.up = @ \/ up]
  BY <1>3 DEF NoView
<1> QED
  BY <1>1, <1>2, <1>3 DEF View

(* Every step keeps it. *)
LEMMA ViewKnowsStep == ASSUME TypeOK, ViewKnows, [Next]_vars PROVE ViewKnows'
<1> USE DEF ViewKnows, store, cluster, server, history
<1>1. ASSUME NEW u \in Users, NEW v \in Asked, StartLoad(u, v) PROVE ViewKnows'
  BY <1>1 DEF StartLoad
<1>2. ASSUME NEW u \in Users, NEW v \in Asked, NEW op \in Actions, PowerView(u, v, op) PROVE ViewKnows'
  BY <1>2, ViewSees DEF PowerView
<1>3. ASSUME NEW u \in Users, StartCheck(u) PROVE ViewKnows'
  BY <1>3, ViewSees DEF StartCheck
<1>4. ASSUME NEW u \in Users, StartSave(u) PROVE ViewKnows'
  BY <1>4 DEF StartSave
<1>5. ASSUME NEW u \in Users, DropLoad(u) PROVE ViewKnows'
  BY <1>5 DEF DropLoad
<1>6. ASSUME NEW u \in Users, DropSave(u) PROVE ViewKnows'
  BY <1>6 DEF DropSave
<1>7. ASSUME NEW u \in Users, Power(u) PROVE ViewKnows'
  BY <1>7 DEF Power, NoView
<1>8. ASSUME NEW u \in Users, HoldSave(u) PROVE ViewKnows'
  BY <1>8 DEF HoldSave
<1>9. ASSUME NEW u \in Users, SaveFails(u) PROVE ViewKnows'
  BY <1>9 DEF SaveFails
<1>10. ASSUME NEW u \in Users, NEW h \in Positions, HoldLoad(u, h) PROVE ViewKnows'
  BY <1>10 DEF HoldLoad
<1>11. CASE Status
  BY <1>11, ViewSees DEF Status
<1>12. CASE TickRead
  BY <1>12 DEF TickRead
<1>13. CASE TickObserve
  BY <1>13 DEF TickObserve
<1>14. CASE TickStart
  BY <1>14 DEF TickStart
<1>15. CASE TickSave
  BY <1>15 DEF TickSave
<1>16. ASSUME NEW v \in Asked, VMStops(v) PROVE ViewKnows'
  BY <1>16 DEF VMStops
<1>17. ASSUME NEW v \in Asked, VMStarts(v) PROVE ViewKnows'
  BY <1>17 DEF VMStarts
<1>18. CASE HostOff
  BY <1>18 DEF HostOff
<1>19. CASE Restart
  BY <1>19 DEF Restart, NoView
<1>20. CASE Tick
  BY <1>20 DEF Tick, NoView
<1>21. CASE UNCHANGED vars
  BY <1>21 DEF vars
<1> QED
  BY <1>1, <1>2, <1>3, <1>4, <1>5, <1>6, <1>7, <1>8, <1>9, <1>10, <1>11, <1>12, <1>13, <1>14, <1>15, <1>16, <1>17, <1>18, <1>19, <1>20, <1>21
     DEF Next

(* Only a check that finds the GPU free lets a start through. *)
LEMMA AcceptStep ==
    ASSUME TypeOK, ViewKnows, [Next]_vars, NEW u \in Users, Accepted(u), cached'.ok,
           NEW w \in Asked, SameGPU(click[u].vm, w)
    PROVE  w \notin settled
<1>1. click[u].at = "check" /\ click'[u].at = "save"
  BY DEF Accepted
<1>2. StartCheck(u)
  <2> USE DEF store, cluster, server, history
  <2>1. ASSUME NEW x \in Users, NEW y \in Asked, StartLoad(x, y) PROVE FALSE
    BY <1>1, <2>1 DEF StartLoad, NewClick, Reading, Idle, TypeOK
  <2>2. ASSUME NEW x \in Users, NEW y \in Asked, NEW op \in Actions, PowerView(x, y, op) PROVE FALSE
    BY <1>1, <2>2 DEF PowerView, NewClick, Idle, TypeOK
  <2>3. ASSUME NEW x \in Users, StartCheck(x) PROVE x = u
    BY <1>1, <2>3 DEF StartCheck, Idle, TypeOK
  <2>4. ASSUME NEW x \in Users, StartSave(x) PROVE FALSE
    <3>1. click'[u] \in {click[u], Idle} \/ click'[u].at = "power" \/ click'[u].at = click[u].at
      BY <2>4, Basics DEF StartSave, SaveIntent, TypeOK, Clicks
    <3> QED
      BY <1>1, <3>1 DEF Idle
  <2>5. ASSUME NEW x \in Users, DropLoad(x) PROVE FALSE
    BY <1>1, <2>5 DEF DropLoad, Idle, TypeOK
  <2>6. ASSUME NEW x \in Users, DropSave(x) PROVE FALSE
    <3>1. click'[u] \in {click[u], Idle} \/ click'[u].at = "power" \/ click'[u].at = click[u].at
      BY <2>6, Basics DEF DropSave, SaveIntent, TypeOK, Clicks
    <3> QED
      BY <1>1, <3>1 DEF Idle
  <2>7. ASSUME NEW x \in Users, Power(x) PROVE FALSE
    BY <1>1, <2>7 DEF Power, Idle, TypeOK
  <2>8. ASSUME NEW x \in Users, HoldSave(x) PROVE FALSE
    <3>1. click'[u] \in {click[u], Idle} \/ click'[u].at = "power" \/ click'[u].at = click[u].at
      BY <2>8, Basics DEF HoldSave, SaveIntent, TypeOK, Clicks
    <3> QED
      BY <1>1, <3>1 DEF Idle
  <2>9. ASSUME NEW x \in Users, SaveFails(x) PROVE FALSE
    BY <1>1, <2>9 DEF SaveFails, Idle, TypeOK
  <2>10. ASSUME NEW x \in Users, NEW h \in Positions, HoldLoad(x, h) PROVE FALSE
    BY <1>1, <2>10 DEF HoldLoad, NewClick, Idle, TypeOK
  <2>11. ASSUME Status PROVE FALSE
    BY <1>1, <2>11 DEF Status
  <2>12. ASSUME TickRead PROVE FALSE
    BY <1>1, <2>12 DEF TickRead
  <2>13. ASSUME TickObserve PROVE FALSE
    BY <1>1, <2>13 DEF TickObserve
  <2>14. ASSUME TickStart PROVE FALSE
    BY <1>1, <2>14 DEF TickStart
  <2>15. ASSUME TickSave PROVE FALSE
    BY <1>1, <2>15 DEF TickSave
  <2>16. ASSUME NEW y \in Asked, VMStops(y) PROVE FALSE
    BY <1>1, <2>16 DEF VMStops
  <2>17. ASSUME NEW y \in Asked, VMStarts(y) PROVE FALSE
    BY <1>1, <2>17 DEF VMStarts
  <2>18. ASSUME HostOff PROVE FALSE
    BY <1>1, <2>18 DEF HostOff
  <2>19. ASSUME Restart PROVE FALSE
    BY <1>1, <2>19 DEF Restart, Idle
  <2>20. ASSUME Tick PROVE FALSE
    <3>1. click[u] \in Clicks /\ click'[u] = [click[u] EXCEPT !.intent = OlderIntent(click[u].intent)]
      BY <2>20 DEF Tick, TypeOK
    <3>2. click'[u].at = click[u].at
      BY <3>1 DEF Clicks
    <3> QED
      BY <1>1, <3>2
  <2>21. ASSUME UNCHANGED vars PROVE FALSE
    BY <1>1, <2>21 DEF vars
  <2> QED
    BY <2>1, <2>2, <2>3, <2>4, <2>5, <2>6, <2>7, <2>8, <2>9, <2>10, <2>11, <2>12, <2>13, <2>14, <2>15, <2>16, <2>17, <2>18, <2>19, <2>20, <2>21 DEF Next
<1>3. ~gpuBlocked(u)
  BY <1>1, <1>2 DEF StartCheck, Idle, TypeOK
<1>4. settled \subseteq cached'.running
  BY <1>2, ViewSees DEF StartCheck
<1> QED
  BY <1>3, <1>4 DEF gpuBlocked

(* No start is accepted for a VM whose GPU is held by one that has been up  *)
(* for longer than a view may be old, for any number of VMs and cards, as   *)
(* long as p1 can be read and the cards have been read since the watchdog   *)
(* started.                                                                 *)
THEOREM GpuIsRespected == ASSUME Asked # {} PROVE Spec => GpuRespected
<1>1. Init => ViewKnows
  BY DEF Init, ViewKnows, NoView
<1>2. TypeOK /\ ViewKnows /\ [Next]_vars => ViewKnows'
  BY ViewKnowsStep
<1>3. TypeOK /\ ViewKnows /\ [Next]_vars =>
        [\A u \in Users : Accepted(u) /\ cached'.ok =>
          \A w \in Asked : SameGPU(click[u].vm, w) => w \notin settled]_vars
  BY AcceptStep
<1> QED
  BY <1>1, <1>2, <1>3, TypeCorrect, PTL DEF Spec, GpuRespected

-----------------------------------------------------------------------------
(* Requests, markers, and withdrawals.                                     *)

(* Time keeps the order of ages, and tells two ages apart while they count. *)
LEMMA OlderOrder ==
    ASSUME NEW a \in Ages, NEW b \in Ages
    PROVE  /\ Live(Older(a)) => Live(a)
           /\ a <= b => Older(a) <= Older(b)
           /\ Live(Older(a)) /\ Older(a) = Older(b) => a = b
           /\ Older(Never) = Never
  BY DurationsAssumption DEF Ages, Never, Older, Live

(* What is recorded of the requests for v is never ahead of its request:    *)
(* the marker, the marker the running tick is about to save, and the        *)
(* request it read.                                                         *)
InOrder(v) ==
    Live(intent.wake[v]) =>
       /\ intent.wake[v] <= done[v]
       /\ tick.at = "observe" => intent.wake[v] <= tick.wake[v]
       /\ tick.at = "start" => intent.wake[v] <= tick.wake[v]
       /\ tick.at \in {"start", "save"} => intent.wake[v] <= tick.done[v]

(* The marker of v's request is saved, or is about to be.                   *)
Marked(v) ==
    \/ done[v] = intent.wake[v]
    \/ tick.at \in {"start", "save"} /\ tick.done[v] = intent.wake[v]

(* A request that was served is not among those given up on, and the tick   *)
(* under way has read it and keeps its marker.                              *)
Remembered(v) ==
    /\ tick.at = "observe" /\ Live(tick.wake[v]) => failed[v] # tick.wake[v]
    /\ tick.at = "start" /\ v \in tick.start => tick.done[v] = Never
    /\ Live(intent.wake[v]) /\ Marked(v) => failed[v] # intent.wake[v]
    /\ Live(intent.wake[v]) /\ done[v] = intent.wake[v] =>
          /\ tick.at = "observe" => tick.wake[v] = intent.wake[v]
          /\ tick.at \in {"start", "save"} => tick.done[v] = intent.wake[v]

(* Both hold of every VM until a stale copy has been written back, or the   *)
(* VM has been asked for twice in a second.                                 *)
Books == ~overlapped => \A v \in Asked \ rushed : InOrder(v) /\ Remembered(v)

(* A save made from a fresh copy changes the request it is about only: made *)
(* now, or withdrawn.                                                       *)
LEMMA FreshSave ==
    ASSUME Asked # {}, TypeOK, Serial, NEW u \in Users, ~overlapped',
           StartSave(u) \/ DropSave(u) \/ HoldSave(u)
    PROVE  /\ ~overlapped /\ ~click[u].stale
           /\ UNCHANGED <<done, failed, tick>> /\ rushed \subseteq rushed'
           /\ \A v \in Asked :
                 \/ intent'.wake[v] = intent.wake[v] /\ (v # click[u].vm \/ HoldSave(u))
                 \/ v = click[u].vm /\ intent'.wake[v] = 0 /\ StartSave(u)
                 \/ v = click[u].vm /\ intent'.wake[v] = Never /\ DropSave(u)
<1> DEFINE c == click[u]
<1>1. c \in Clicks /\ c.intent \in Intents /\ c.at = "save"
  BY DEF TypeOK, Clicks, StartSave, DropSave, HoldSave
<1>2. ~overlapped /\ ~c.stale
  BY DEF StartSave, DropSave, HoldSave, SaveIntent, TypeOK
<1>3. c.intent = intent
  BY <1>1, <1>2 DEF Serial
<1>4. UNCHANGED <<done, failed, tick>> /\ rushed \subseteq rushed'
  BY DEF StartSave, DropSave, HoldSave, cluster, server
<1>5. CASE StartSave(u)
  BY <1>2, <1>3, <1>4, <1>5 DEF StartSave, SaveIntent, withRequest, Intents, TypeOK
<1>6. CASE DropSave(u)
  BY <1>2, <1>3, <1>4, <1>6 DEF DropSave, SaveIntent, withoutRequest, Intents, TypeOK
<1>7. CASE HoldSave(u)
  BY <1>2, <1>3, <1>4, <1>7 DEF HoldSave, SaveIntent, Intents, TypeOK
<1> QED
  BY <1>5, <1>6, <1>7

(* The steps that touch neither the store nor the tick.                     *)
Aside == UNCHANGED <<intent, done, failed, tick, overlapped, rushed>> /\ unchecked \subseteq unchecked'

(* Every step is one of the loop, of time, a save, or aside.                *)
LEMMA StepKinds ==
    ASSUME [Next]_vars
    PROVE  \/ TickRead \/ TickObserve \/ TickStart \/ TickSave \/ Restart \/ Tick
           \/ \E u \in Users : StartSave(u) \/ DropSave(u) \/ HoldSave(u)
           \/ Aside
<1> USE DEF Aside, store, cluster, server, history
<1>1. ASSUME NEW u \in Users, NEW v \in Asked, StartLoad(u, v) PROVE Aside
  BY <1>1 DEF StartLoad
<1>2. ASSUME NEW u \in Users, NEW v \in Asked, NEW op \in Actions, PowerView(u, v, op) PROVE Aside
  BY <1>2 DEF PowerView
<1>3. ASSUME NEW u \in Users, StartCheck(u) \/ DropLoad(u) \/ Power(u) \/ SaveFails(u) PROVE Aside
  BY <1>3 DEF StartCheck, DropLoad, Power, SaveFails
<1>4. ASSUME NEW u \in Users, NEW h \in Positions, HoldLoad(u, h) PROVE Aside
  BY <1>4 DEF HoldLoad
<1>5. ASSUME Status \/ HostOff PROVE Aside
  BY <1>5 DEF Status, HostOff
<1>6. ASSUME NEW v \in Asked, VMStops(v) \/ VMStarts(v) PROVE Aside
  BY <1>6 DEF VMStops, VMStarts
<1>7. ASSUME UNCHANGED vars PROVE Aside
  BY <1>7 DEF vars
<1> QED
  BY <1>1, <1>2, <1>3, <1>4, <1>5, <1>6, <1>7 DEF Next

(* What TickObserve makes of the request it read.                           *)
LEMMA ObserveMarks ==
    ASSUME TypeOK, TickObserve, NEW v \in Asked
    PROVE  /\ UNCHANGED <<intent, done, failed, overlapped, rushed>>
           /\ tick.at = "observe" /\ tick'.at \in {"start", "save"}
           /\ tick'.at = "start" => tick'.wake = tick.wake
           /\ v \in tick'.start => /\ Live(tick.wake[v]) /\ tick.wake[v] < done[v]
                                   /\ tick'.done[v] = Never
           /\ tick'.done[v] = IF ~Live(tick.wake[v]) THEN Never
                              ELSE IF tick.wake[v] >= done[v] THEN done[v]
                              ELSE IF v \in running THEN tick.wake[v] ELSE Never
<1> DEFINE s == [wake |-> tick.wake, done |-> done, running |-> running]
<1>1. /\ UNCHANGED <<intent, done, failed, overlapped, rushed>> /\ tick.at = "observe"
      /\ tick' = [at |-> IF Pending(s) = {} THEN "save" ELSE "start",
                  wake |-> IF Pending(s) = {} THEN NoRequests ELSE tick.wake,
                  done |-> WakeDone(s), start |-> Pending(s)]
  BY DEF TickObserve, store, history
<1>2. s.wake = tick.wake /\ s.done = done /\ s.running = running
  OBVIOUS
<1>3. tick.wake[v] \in Ages /\ done[v] \in Ages
  BY DEF TypeOK, Ticks
<1> HIDE DEF s
<1>4. tick'.done[v] = IF ~Live(tick.wake[v]) THEN Never
                      ELSE IF tick.wake[v] >= done[v] THEN done[v]
                      ELSE IF v \in running THEN tick.wake[v] ELSE Never
  BY <1>1, <1>2 DEF WakeDone, Spent
<1>5. v \in tick'.start => /\ Live(tick.wake[v]) /\ tick.wake[v] < done[v]
                           /\ v \notin running
  BY <1>1, <1>2, <1>3 DEF Pending, Spent, Ages
<1>6. v \in tick'.start => tick'.done[v] = Never
  BY <1>3, <1>4, <1>5 DEF Ages
<1> QED
  BY <1>1, <1>4, <1>5, <1>6

(* Every step keeps the books.                                              *)
LEMMA BooksStep ==
    ASSUME Asked # {}, TypeOK, Serial, Books, [Next]_vars
    PROVE  Books'
<1> SUFFICES ASSUME ~overlapped', NEW v \in Asked, v \notin rushed'
             PROVE  InOrder(v)' /\ Remembered(v)'
  BY DEF Books
<1> USE DEF InOrder, Remembered, Marked
<1>a. TypeOK'
  BY TypeStep
<1>b. /\ intent.wake[v] \in Ages /\ done[v] \in Ages /\ failed[v] \in Ages
      /\ tick.wake[v] \in Ages /\ tick.done[v] \in Ages
      /\ intent'.wake[v] \in Ages /\ done'[v] \in Ages /\ failed'[v] \in Ages
      /\ tick'.wake[v] \in Ages /\ tick'.done[v] \in Ages
  BY <1>a DEF TypeOK, Intents, Ticks
<1>c. ~Live(Never) /\ \A a \in Ages : a \in Nat /\ a <= Never
  BY DurationsAssumption DEF Live, Never, Ages
<1>1. CASE TickRead
  <2>1. overlapped' = overlapped /\ rushed' = rushed /\ intent' = intent /\ done' = done /\ failed' = failed
        /\ tick'.at = "observe"
        /\ tick'.wake[v] = IF failed[v] = intent.wake[v] THEN Never ELSE intent.wake[v]
    BY <1>1 DEF TickRead, store, history, NoTick
  <2>2. InOrder(v) /\ Remembered(v)
    BY <2>1 DEF Books
  <2>3. tick.at = "idle"
    BY <1>1 DEF TickRead
  <2> QED
    BY <1>b, <1>c, <2>1, <2>2, <2>3
<1>2. CASE TickObserve
  <2>1. InOrder(v) /\ Remembered(v)
    BY <1>2, ObserveMarks DEF Books
  <2> QED
    BY <1>2, <1>b, <1>c, <2>1, ObserveMarks DEF Ages
<1>3. CASE TickStart
  <2>1. overlapped' = overlapped /\ rushed' = rushed /\ intent' = intent /\ done' = done
        /\ tick.at = "start" /\ tick'.at = "save" /\ tick'.done = tick.done
        /\ (failed'[v] \in {Never, failed[v]} \/ (v \in tick.start /\ failed'[v] = tick.wake[v]))
    BY <1>3 DEF TickStart, store, history
  <2>2. InOrder(v) /\ Remembered(v)
    BY <2>1 DEF Books
  <2> QED
    BY <1>b, <1>c, <2>1, <2>2 DEF Ages
<1>4. CASE TickSave
  <2>1. overlapped' = overlapped /\ rushed' = rushed /\ intent' = intent /\ failed' = failed
        /\ tick.at = "save" /\ tick'.at = "idle" /\ (done' = tick.done \/ done' = done)
    BY <1>4 DEF TickSave, history, NoTick
  <2>2. InOrder(v) /\ Remembered(v)
    BY <2>1 DEF Books
  <2> QED
    BY <1>b, <1>c, <2>1, <2>2 DEF Ages
<1>5. CASE Restart
  <2>1. overlapped' = overlapped /\ rushed' = rushed /\ intent' = intent /\ done' = done
        /\ tick'.at = "idle" /\ failed'[v] = Never
    BY <1>5 DEF Restart, store, history, NoTick, NoRequests
  <2>2. InOrder(v) /\ Remembered(v)
    BY <2>1 DEF Books
  <2> QED
    BY <1>b, <1>c, <2>1, <2>2 DEF Ages
<1>6. CASE Tick
  <2>1. /\ overlapped' = overlapped /\ rushed' = rushed /\ intent'.wake[v] = Older(intent.wake[v])
        /\ done'[v] = Older(done[v]) /\ failed'[v] = Older(failed[v])
        /\ tick'.at = tick.at /\ tick'.wake[v] = Older(tick.wake[v])
        /\ tick'.done[v] = Older(tick.done[v]) /\ tick'.start = tick.start
    BY <1>6 DEF Tick, OlderIntent, OlderAges, TypeOK, Intents, Ticks
  <2>2. InOrder(v) /\ Remembered(v)
    BY <2>1 DEF Books
  <2>3. Never \in Ages
    BY Basics
  <2>4. InOrder(v)'
    BY <1>b, <2>1, <2>2, OlderOrder
  <2>5. tick'.at = "observe" /\ Live(tick'.wake[v]) => failed'[v] # tick'.wake[v]
    BY <1>b, <2>1, <2>2, OlderOrder
  <2>6. tick'.at = "start" /\ v \in tick'.start => tick'.done[v] = Never
    BY <2>1, <2>2, <2>3, OlderOrder
  <2>7. Live(intent'.wake[v]) /\ Marked(v)' => failed'[v] # intent'.wake[v]
    BY <1>b, <2>1, <2>2, OlderOrder
  <2>8. Live(intent'.wake[v]) /\ done'[v] = intent'.wake[v] =>
          /\ tick'.at = "observe" => tick'.wake[v] = intent'.wake[v]
          /\ tick'.at \in {"start", "save"} => tick'.done[v] = intent'.wake[v]
    <3> SUFFICES ASSUME Live(intent'.wake[v]), done'[v] = intent'.wake[v]
                 PROVE  /\ tick'.at = "observe" => tick'.wake[v] = intent'.wake[v]
                        /\ tick'.at \in {"start", "save"} => tick'.done[v] = intent'.wake[v]
      OBVIOUS
    <3>1. Live(intent.wake[v]) /\ done[v] = intent.wake[v]
      BY <1>b, <2>1, OlderOrder
    <3> QED
      BY <2>1, <2>2, <3>1
  <2> QED
    BY <2>4, <2>5, <2>6, <2>7, <2>8
<1>7. ASSUME NEW u \in Users, StartSave(u) \/ DropSave(u) \/ HoldSave(u)
      PROVE  InOrder(v)' /\ Remembered(v)'
  <2>1. ~overlapped /\ v \notin rushed /\ UNCHANGED <<done, failed, tick>>
    BY <1>7, FreshSave
  <2>2. InOrder(v) /\ Remembered(v)
    BY <2>1 DEF Books
  <2>3. CASE intent'.wake[v] = intent.wake[v]
    BY <2>1, <2>2, <2>3
  <2>4. CASE intent'.wake[v] = Never
    BY <1>c, <2>1, <2>2, <2>4
  <2>5. CASE v = click[u].vm /\ intent'.wake[v] = 0 /\ StartSave(u)
    <3>1. \/ intent'.wake[v] = intent.wake[v]
          \/ done[v] # 0 /\ failed[v] # 0 /\ tick.wake[v] # 0 /\ tick.done[v] # 0
      BY <2>5 DEF StartSave, Again
    <3> QED
      BY <1>b, <1>c, <2>1, <2>2, <2>3, <2>5, <3>1
  <2> QED
    BY <1>7, <2>3, <2>4, <2>5, FreshSave
<1>8. CASE Aside
  BY <1>8 DEF Aside, Books
<1> QED
  BY <1>1, <1>2, <1>3, <1>4, <1>5, <1>6, <1>7, <1>8, StepKinds

(* The tick under way will not start v: it reads v's request as spent, or   *)
(* has found nothing to start.                                              *)
Resolved(v) ==
    /\ tick.at = "observe" /\ Live(tick.wake[v]) => done[v] <= tick.wake[v]
    /\ tick.at = "start" => v \notin tick.start

(* v's request is being withdrawn: if it counts at all, it is spent.        *)
Going(v) == v \in rushed \/ ((Live(intent.wake[v]) => done[v] <= intent.wake[v]) /\ Resolved(v))

(* v's request is withdrawn.                                                *)
Gone(v) == v \in rushed \/ (intent.wake[v] = Never /\ Resolved(v))

(* Between the two steps of a withdrawal the request stays spent, unless    *)
(* somebody saves; after the second it is gone, until somebody asks again.  *)
Withdrawing(u) ==
    LET c == click[u] IN
    /\ c.served => c.at \in {"save", "power"}
    /\ c.served /\ c.at = "save" /\ ~c.stale => Going(c.vm)
    /\ c.served /\ c.at = "power" => Gone(c.vm)

(* That holds of every click and of every VM shut down, until a stale copy  *)
(* has been written back.                                                   *)
Withdrawn ==
    ~overlapped => (\A u \in Users : Withdrawing(u)) /\ (\A v \in shutDown : Gone(v))

(* The loop, time and a restart leave a request that goes, or has gone, so. *)
LEMMA GoesOn ==
    ASSUME Asked # {}, TypeOK, Books, ~overlapped', NEW v \in Asked,
           TickRead \/ TickObserve \/ TickStart \/ TickSave \/ Restart \/ Tick \/ Aside
    PROVE  ~overlapped /\ (Going(v) => Going(v)') /\ (Gone(v) => Gone(v)')
<1> USE DEF Going, Gone, Resolved
<1>b. /\ intent.wake[v] \in Ages /\ done[v] \in Ages /\ failed[v] \in Ages
      /\ tick.wake[v] \in Ages /\ tick.done[v] \in Ages
  BY DEF TypeOK, Intents, Ticks
<1>c. ~Live(Never) /\ \A a \in Ages : a \in Nat /\ a <= Never
  BY DurationsAssumption DEF Live, Never, Ages
<1>1. CASE TickRead
  <2>1. overlapped' = overlapped /\ rushed' = rushed /\ intent' = intent /\ done' = done
        /\ tick'.at = "observe"
        /\ tick'.wake[v] = IF failed[v] = intent.wake[v] THEN Never ELSE intent.wake[v]
    BY <1>1 DEF TickRead, store, history, NoTick
  <2> QED
    BY <1>c, <2>1
<1>2. CASE TickObserve
  <2> QED
    BY <1>2, <1>b, ObserveMarks DEF Ages
<1>3. CASE TickStart
  <2>1. overlapped' = overlapped /\ rushed' = rushed /\ intent' = intent /\ done' = done /\ tick'.at = "save"
    BY <1>3 DEF TickStart, store, history
  <2> QED
    BY <2>1
<1>4. CASE TickSave
  <2>1. overlapped' = overlapped /\ rushed' = rushed /\ intent' = intent
        /\ tick.at = "save" /\ tick'.at = "idle" /\ (done' = tick.done \/ done' = done)
    BY <1>4 DEF TickSave, history, NoTick
  <2>2. v \notin rushed => InOrder(v) /\ Remembered(v)
    BY <2>1 DEF Books
  <2>3. ASSUME v \notin rushed, Live(intent.wake[v]), done[v] <= intent.wake[v]
        PROVE  done'[v] <= intent.wake[v]
    <3>1. done[v] = intent.wake[v]
      BY <1>b, <2>2, <2>3 DEF InOrder, Ages
    <3>2. tick.done[v] = intent.wake[v]
      BY <2>1, <2>2, <2>3, <3>1 DEF Remembered
    <3> QED
      BY <1>b, <2>1, <3>1, <3>2 DEF Ages
  <2> QED
    BY <2>1, <2>3
<1>5. CASE Restart
  <2>1. overlapped' = overlapped /\ rushed' = rushed /\ intent' = intent /\ done' = done /\ tick'.at = "idle"
    BY <1>5 DEF Restart, store, history, NoTick
  <2> QED
    BY <2>1
<1>6. CASE Tick
  <2>1. /\ overlapped' = overlapped /\ rushed' = rushed /\ intent'.wake[v] = Older(intent.wake[v])
        /\ done'[v] = Older(done[v])
        /\ tick'.at = tick.at /\ tick'.wake[v] = Older(tick.wake[v])
        /\ tick'.start = tick.start
    BY <1>6 DEF Tick, OlderIntent, OlderAges, TypeOK, Intents, Ticks
  <2>2. Never \in Ages
    BY Basics
  <2> QED
    BY <1>b, <2>1, <2>2, OlderOrder
<1>7. CASE Aside
  BY <1>7 DEF Aside
<1> QED
  BY <1>1, <1>2, <1>3, <1>4, <1>5, <1>6, <1>7

(* A save made from a fresh copy leaves a request that is gone so, unless   *)
(* it is the click that asks again.                                         *)
LEMMA SaveLeavesGone ==
    ASSUME Asked # {}, TypeOK, Serial, NEW u \in Users, ~overlapped',
           StartSave(u) \/ DropSave(u) \/ HoldSave(u),
           NEW v \in Asked, Gone(v), StartSave(u) => v # click[u].vm
    PROVE  Gone(v)'
<1>1. (v \notin rushed => intent'.wake[v] = Never) /\ rushed \subseteq rushed' /\ UNCHANGED <<done, tick>>
  BY FreshSave DEF Gone
<1> QED
  BY <1>1 DEF Gone, Resolved

(* What DropLoad finds spent is going.                                      *)
LEMMA SpentGoes ==
    ASSUME TypeOK, NEW v \in Asked, v \in rushed \/ (InOrder(v) /\ Remembered(v)),
           Live(intent.wake[v]), done[v] <= intent.wake[v]
    PROVE  Going(v)
<1> SUFFICES ASSUME v \notin rushed PROVE Going(v)
  BY DEF Going
<1>1. intent.wake[v] \in Ages /\ done[v] \in Ages
  BY DEF TypeOK, Intents
<1>2. done[v] = intent.wake[v]
  BY <1>1 DEF InOrder, Ages
<1>3. tick.at = "start" => v \notin tick.start
  BY <1>2, DurationsAssumption DEF Remembered, Live, Never
<1> QED
  BY <1>1, <1>2, <1>3 DEF Going, Resolved, Remembered, Ages

(* A click left alone, or dropped, stays within what is said of it.         *)
LEMMA LeftAlone ==
    ASSUME NEW u \in Users, Withdrawing(u), NEW v \in Asked, v = click[u].vm,
           \/ click'[u].served = FALSE
           \/ /\ click'[u].served = click[u].served /\ click'[u].at = click[u].at
              /\ click'[u].op = click[u].op /\ click'[u].vm = click[u].vm
              /\ click'[u].stale = click[u].stale,
           Going(v) => Going(v)', Gone(v) => Gone(v)'
    PROVE  Withdrawing(u)'
<1>1. CASE click'[u].served = FALSE
  BY <1>1 DEF Withdrawing
<1>2. CASE click'[u].served # FALSE
  <2>1. click'[u].vm = v
    BY <1>2
  <2> QED
    BY <1>2, <2>1 DEF Withdrawing
<1> QED
  BY <1>1, <1>2

(* Every step keeps it.                                                     *)
LEMMA WithdrawnStep ==
    ASSUME Asked # {}, TypeOK, Serial, Books, Withdrawn, [Next]_vars
    PROVE  Withdrawn'
<1> SUFFICES ASSUME ~overlapped'
             PROVE  (\A u \in Users : Withdrawing(u)') /\ (\A v \in shutDown' : Gone(v)')
  BY DEF Withdrawn
<1> USE DEF store, cluster, server, history
<1>a. TypeOK'
  BY TypeStep
<1>b. \A u \in Users : click[u] \in Clicks /\ click[u].vm \in Asked /\ click[u].served \in BOOLEAN
  BY DEF TypeOK, Clicks
<1>c. ASSUME UNCHANGED <<click, shutDown>>, TickRead \/ TickObserve \/ TickStart \/ TickSave \/ Aside
      PROVE  (\A u \in Users : Withdrawing(u)') /\ (\A v \in shutDown' : Gone(v)')
  <2>1. ~overlapped /\ \A v \in Asked : (Going(v) => Going(v)') /\ (Gone(v) => Gone(v)')
    BY <1>a, <1>c, GoesOn DEF TypeOK, Aside, TickRead, TickObserve, TickStart, TickSave
  <2>2. \A u \in Users : Withdrawing(u)'
    BY <1>b, <1>c, <2>1, LeftAlone DEF Withdrawn
  <2> QED
    BY <1>c, <2>1, <2>2 DEF Withdrawn, TypeOK
<1>d. ASSUME Aside
      PROVE  ~overlapped /\ \A v \in Asked : (Going(v) => Going(v)') /\ (Gone(v) => Gone(v)')
  BY <1>d, GoesOn DEF Aside
<1>e. ASSUME NEW u \in Users, NEW c \in Clicks, ~c.served, click' = [click EXCEPT ![u] = c],
             Aside, shutDown' = shutDown
      PROVE  (\A w \in Users : Withdrawing(w)') /\ (\A v \in shutDown' : Gone(v)')
  <2>1. ~overlapped /\ \A v \in Asked : (Going(v) => Going(v)') /\ (Gone(v) => Gone(v)')
    BY <1>d, <1>e
  <2>2. \A w \in Users : \/ click'[w] = click[w]
                         \/ click'[w].served = FALSE
    BY <1>e DEF TypeOK, Clicks
  <2>3. \A w \in Users : Withdrawing(w)'
    BY <1>b, <2>1, <2>2, LeftAlone DEF Withdrawn
  <2> QED
    BY <1>e, <2>1, <2>3 DEF Withdrawn, TypeOK
<1> DEFINE Goal == (\A u \in Users : Withdrawing(u)') /\ (\A v \in shutDown' : Gone(v)')
<1>1. ASSUME NEW u \in Users, NEW v \in Asked, StartLoad(u, v) PROVE Goal
  <2>1. click' = [click EXCEPT ![u] = [Reading("check") EXCEPT !.op = "start", !.vm = v]]
        /\ Aside /\ shutDown' = shutDown
    BY <1>1 DEF StartLoad, Aside
  <2>2. [Reading("check") EXCEPT !.op = "start", !.vm = v] \in Clicks
        /\ ~[Reading("check") EXCEPT !.op = "start", !.vm = v].served
    BY Basics DEF Reading, Clicks, Idle, TypeOK
  <2> QED
    BY <1>e, <2>1, <2>2
<1>2. ASSUME NEW u \in Users, NEW v \in Asked, NEW op \in Actions, PowerView(u, v, op) PROVE Goal
  <2>1. PICK c : /\ c = IF ~cached'.up \/ ~cached'.ok THEN Idle
                        ELSE [Idle EXCEPT !.op = op, !.vm = v,
                                !.at = IF op \in {"shutdown", "stop"} THEN "load" ELSE "power"]
                 /\ click' = [click EXCEPT ![u] = c]
    BY <1>2 DEF PowerView
  <2>2. Aside /\ shutDown' = shutDown
    BY <1>2 DEF PowerView, Aside
  <2>3. ~c.served
    BY <2>1 DEF Idle
  <2>4. click'[u] = c
    BY <2>1 DEF TypeOK
  <2>5. c \in Clicks
    BY <1>a, <2>4 DEF TypeOK
  <2> QED
    BY <1>e, <2>1, <2>2, <2>3, <2>5
<1>3. ASSUME NEW u \in Users, StartCheck(u) PROVE Goal
  <2>1. PICK c : /\ c = IF gpuBlocked(u) THEN Idle ELSE [click[u] EXCEPT !.at = "save"]
                 /\ click' = [click EXCEPT ![u] = c]
    BY <1>3 DEF StartCheck
  <2>2. Aside /\ shutDown' = shutDown /\ click[u].at = "check"
    BY <1>3 DEF StartCheck, Aside
  <2>3. ~click[u].served
    BY <1>d, <2>2 DEF Withdrawn, Withdrawing
  <2>4. ~c.served
    BY <1>b, <2>1, <2>3 DEF Idle, Clicks
  <2>5. click'[u] = c
    BY <2>1 DEF TypeOK
  <2>6. c \in Clicks
    BY <1>a, <2>5 DEF TypeOK
  <2> QED
    BY <1>e, <2>1, <2>2, <2>4, <2>6
<1>4. ASSUME NEW u \in Users, StartSave(u) \/ DropSave(u) \/ HoldSave(u) PROVE Goal
  <2>1. ~overlapped /\ ~click[u].stale /\ UNCHANGED <<done, failed, tick>> /\ rushed \subseteq rushed'
    BY <1>4, FreshSave
  <2>2. \A v \in Asked : Gone(v) /\ (StartSave(u) => v # click[u].vm) => Gone(v)'
    BY <1>4, SaveLeavesGone
  <2>3. PICK new, next : /\ SaveIntent(u, new, next)
                         /\ \/ next = Idle
                            \/ /\ next = [click[u] EXCEPT !.at = "power", !.intent = NoIntent, !.stale = FALSE]
                               /\ DropSave(u)
    BY <1>4 DEF StartSave, DropSave, HoldSave
  <2>4. click'[u] = next
    BY <2>3 DEF SaveIntent
  <2>5. ASSUME NEW w \in Users \ {u} PROVE Withdrawing(w)'
    <3>1. /\ click'[w].at = click[w].at /\ click'[w].op = click[w].op
          /\ click'[w].vm = click[w].vm
          /\ click'[w].stale = (click[w].stale \/ click[w].at # "idle")
          /\ click'[w].served = (click[w].served /\ (click[u].op = "start" => click[u].vm # click[w].vm))
      BY <2>3, SaveOthers
    <3>2. PICK v \in Asked : v = click[w].vm
      BY <1>b
    <3>6. Withdrawing(w)
      BY <2>1 DEF Withdrawn
    <3>3. StartSave(u) => click[u].op = "start"
      BY DEF StartSave
    <3>4. Gone(v) /\ click'[w].served => Gone(v)'
      BY <2>2, <3>1, <3>2, <3>3
    <3>5. click'[w].vm = v
      BY <3>1, <3>2
    <3> QED
      BY <3>1, <3>2, <3>4, <3>5, <3>6 DEF Withdrawing
  <2>6. Withdrawing(u)'
    <3>1. CASE next = Idle
      BY <2>4, <3>1 DEF Withdrawing, Idle
    <3>2. CASE /\ next = [click[u] EXCEPT !.at = "power", !.intent = NoIntent, !.stale = FALSE]
               /\ DropSave(u)
      <4>1. /\ click'[u].at = "power" /\ click'[u].op = click[u].op
            /\ click'[u].vm = click[u].vm /\ click'[u].served = click[u].served
        BY <1>b, <2>4, <3>2 DEF Clicks
      <4>8. PICK v \in Asked : v = click[u].vm
        BY <1>b
      <4>2. click[u].at = "save" /\ click[u].op # "start"
        BY <3>2 DEF DropSave
      <4>3. click[u].served => Going(v)
        BY <2>1, <4>2, <4>8 DEF Withdrawn, Withdrawing
      <4>4. ~StartSave(u) /\ ~HoldSave(u)
        BY <3>2 DEF StartSave, DropSave, HoldSave
      <4>5. intent'.wake[v] = Never
        BY <3>2, <4>4, <4>8, FreshSave
      <4>6. click[u].served => Gone(v)'
        BY <2>1, <4>3, <4>5 DEF Going, Gone, Resolved
      <4>7. click'[u].vm = v
        BY <4>1, <4>8
      <4> QED
        BY <4>1, <4>2, <4>6, <4>7 DEF Withdrawing
    <3> QED
      BY <2>3, <3>1, <3>2
  <2>7. \A v \in shutDown' : v \in shutDown /\ (StartSave(u) => v # click[u].vm)
    <3>1. CASE StartSave(u)
      BY <3>1 DEF StartSave
    <3>2. CASE ~StartSave(u)
      BY <1>4, <3>2 DEF DropSave, HoldSave
    <3> QED
      BY <3>1, <3>2
  <2>8. \A v \in shutDown' : Gone(v)'
    BY <2>1, <2>2, <2>7 DEF Withdrawn, TypeOK
  <2> QED
    BY <2>5, <2>6, <2>8
<1>5. ASSUME NEW u \in Users, DropLoad(u) PROVE Goal
  <2> DEFINE s == Live(intent.wake[click[u].vm]) /\ done[click[u].vm] <= intent.wake[click[u].vm]
             c == [Reading("save") EXCEPT !.op = click[u].op, !.vm = click[u].vm, !.served = s]
  <2>1. Aside /\ shutDown' = shutDown /\ click' = [click EXCEPT ![u] = c] /\ click[u].at = "load"
    BY <1>5 DEF DropLoad, Aside
  <2>2. ~overlapped /\ \A v \in Asked : (Going(v) => Going(v)') /\ (Gone(v) => Gone(v)')
    BY <1>d, <2>1
  <2>3. \A w \in Users \ {u} : Withdrawing(w)'
    BY <1>b, <2>1, <2>2, LeftAlone DEF Withdrawn, TypeOK
  <2>9. PICK x \in Asked : x = click[u].vm
    BY <1>b
  <2>4. s => Going(x)
    BY <2>2, <2>9, SpentGoes DEF Books
  <2>5. /\ click'[u].at = "save" /\ click'[u].op = click[u].op
        /\ click'[u].vm = click[u].vm /\ click'[u].served = s
    BY <2>1 DEF Reading, Idle, TypeOK
  <2>6. click'[u].vm = x
    BY <2>5, <2>9
  <2>7. Withdrawing(u)'
    BY <2>2, <2>4, <2>5, <2>6 DEF Withdrawing
  <2>8. \A v \in shutDown' : Gone(v)'
    BY <2>1, <2>2 DEF Withdrawn, TypeOK
  <2> QED
    BY <2>3, <2>7, <2>8
<1>6. ASSUME NEW u \in Users, Power(u) PROVE Goal
  <2>1. /\ Aside /\ click' = [click EXCEPT ![u] = Idle] /\ click[u].at = "power"
        /\ \/ shutDown' = shutDown
           \/ click[u].served /\ shutDown' = shutDown \cup {click[u].vm}
    BY <1>6 DEF Power, Aside
  <2>2. ~overlapped /\ \A v \in Asked : (Going(v) => Going(v)') /\ (Gone(v) => Gone(v)')
    BY <1>d, <2>1
  <2>3. \A w \in Users : click'[w] = click[w] \/ click'[w].served = FALSE
    BY <2>1 DEF TypeOK, Idle
  <2>4. \A w \in Users : Withdrawing(w)'
    BY <1>b, <2>2, <2>3, LeftAlone DEF Withdrawn
  <2>5. \A v \in shutDown' : Gone(v) /\ v \in Asked
    BY <1>b, <2>1, <2>2 DEF Withdrawn, Withdrawing, TypeOK
  <2> QED
    BY <2>2, <2>4, <2>5
<1>7. ASSUME NEW u \in Users, SaveFails(u) PROVE Goal
  BY <1>7, <1>e, Basics DEF SaveFails, Aside, Idle
<1>8. ASSUME NEW u \in Users, NEW h \in Positions, HoldLoad(u, h) PROVE Goal
  <2>1. click' = [click EXCEPT ![u] = [Reading("save") EXCEPT !.op = "hold", !.hold = h]]
        /\ Aside /\ shutDown' = shutDown
    BY <1>8 DEF HoldLoad, Aside
  <2>2. ~[Reading("save") EXCEPT !.op = "hold", !.hold = h].served
    BY DEF Reading, Idle
  <2>3. click'[u] = [Reading("save") EXCEPT !.op = "hold", !.hold = h]
    BY <2>1 DEF TypeOK
  <2>4. [Reading("save") EXCEPT !.op = "hold", !.hold = h] \in Clicks
    BY <1>a, <2>3 DEF TypeOK
  <2> QED
    BY <1>e, <2>1, <2>2, <2>4
<1>9. CASE Status \/ HostOff
  BY <1>9, <1>c DEF Status, HostOff, Aside
<1>10. CASE TickRead \/ TickObserve \/ TickStart \/ TickSave
  <2>1. UNCHANGED <<click, shutDown>>
    BY <1>10 DEF TickRead, TickObserve, TickStart, TickSave
  <2> QED
    BY <1>10, <1>c, <2>1
<1>11. ASSUME NEW v \in Asked, VMStops(v) PROVE Goal
  BY <1>11, <1>c DEF VMStops, Aside
<1>12. ASSUME NEW v \in Asked, VMStarts(v) PROVE Goal
  <2>1. Aside /\ click' = click /\ shutDown' \subseteq shutDown
    BY <1>12 DEF VMStarts, Aside
  <2>2. ~overlapped /\ \A x \in Asked : (Going(x) => Going(x)') /\ (Gone(x) => Gone(x)')
    BY <1>d, <2>1
  <2>3. \A u \in Users : Withdrawing(u)'
    BY <1>b, <2>1, <2>2, LeftAlone DEF Withdrawn
  <2> QED
    BY <2>1, <2>2, <2>3 DEF Withdrawn, TypeOK
<1>13. CASE Restart
  <2>1. shutDown' = shutDown /\ \A u \in Users : click'[u].served = FALSE
    BY <1>13 DEF Restart, Idle
  <2>3. \A u \in Users : Withdrawing(u)'
    BY <2>1 DEF Withdrawing
  <2>2. ~overlapped /\ \A v \in Asked : (Going(v) => Going(v)') /\ (Gone(v) => Gone(v)')
    BY <1>13, GoesOn
  <2> QED
    BY <2>1, <2>2, <2>3 DEF Withdrawn, TypeOK
<1>14. CASE Tick
  <2>1. shutDown' = shutDown
    BY <1>14 DEF Tick
  <2>2. ~overlapped /\ \A v \in Asked : (Going(v) => Going(v)') /\ (Gone(v) => Gone(v)')
    BY <1>14, GoesOn
  <2>3. ASSUME NEW u \in Users PROVE Withdrawing(u)'
    <3>1. click'[u] = [click[u] EXCEPT !.intent = OlderIntent(click[u].intent)]
      BY <1>14 DEF Tick
    <3>2. /\ click'[u].served = click[u].served /\ click'[u].at = click[u].at
          /\ click'[u].op = click[u].op /\ click'[u].vm = click[u].vm
          /\ click'[u].stale = click[u].stale
      BY <1>b, <3>1 DEF Clicks
    <3> QED
      BY <1>b, <2>2, <3>2, LeftAlone DEF Withdrawn
  <2> QED
    BY <2>1, <2>2, <2>3 DEF Withdrawn, TypeOK
<1>15. CASE UNCHANGED vars
  BY <1>15, <1>c DEF vars, Aside
<1> QED
  BY <1>1, <1>2, <1>3, <1>4, <1>5, <1>6, <1>7, <1>8, <1>9, <1>10, <1>11, <1>12, <1>13, <1>14, <1>15
     DEF Next

(* No tick starts a VM that was shut down.                                  *)
LEMMA StartStep ==
    ASSUME TypeOK, Withdrawn, [Next]_vars, NEW v \in shutDown, Started(v)
    PROVE  overlapped \/ v \in rushed
<1>1. tick.at = "start" /\ tick'.at = "save" /\ v \in running' \ running
  BY DEF Started
<1>2. TickStart
  <2>1. tick' # tick
    BY <1>1
  <2>2. ~TickRead /\ ~TickObserve /\ ~TickSave
    BY <1>1 DEF TickRead, TickObserve, TickSave
  <2>3. ~Restart
    BY <1>1 DEF Restart, NoTick
  <2>4. ~Tick
    BY <1>1 DEF Tick
  <2>5. \A u \in Users : ~StartSave(u) /\ ~DropSave(u) /\ ~HoldSave(u)
    BY <2>1 DEF StartSave, DropSave, HoldSave
  <2> QED
    BY <2>1, <2>2, <2>3, <2>4, <2>5, StepKinds DEF Aside
<1>3. v \in tick.start
  BY <1>1, <1>2 DEF TickStart
<1> QED
  BY <1>1, <1>3 DEF Withdrawn, Gone, Resolved

(* A VM that was seen running after it had been asked for, and is then shut *)
(* down through the page, stays down until somebody asks for it again: for  *)
(* any number of users who may control it, through failing saves, starts    *)
(* and restarts of the watchdog, and ticks that lag behind the clicks - as  *)
(* long as no handler writes a stale copy of the intent back, and the VM is *)
(* not asked for twice within a second.                                     *)
THEOREM ShutDownIsFinal == ASSUME Asked # {} PROVE Spec => ShutDownStaysDown
<1>1. Init => Serial /\ Books /\ Withdrawn
  <2> SUFFICES ASSUME Init PROVE Serial /\ Books /\ Withdrawn
    OBVIOUS
  <2>1. Serial
    BY DEF Init, Serial, Idle
  <2>2. ~Live(Never)
    BY DurationsAssumption DEF Live, Never
  <2>3. Books
    BY <2>2, DurationsAssumption DEF Init, Books, InOrder, Remembered, NoIntent, NoRequests, NoTick
  <2>4. Withdrawn
    BY DEF Init, Withdrawn, Withdrawing, Idle
  <2> QED
    BY <2>1, <2>3, <2>4
<1>2. TypeOK /\ Serial /\ Books /\ Withdrawn /\ [Next]_vars => Serial' /\ Books' /\ Withdrawn'
  BY SerialStep, BooksStep, WithdrawnStep
<1>3. TypeOK /\ Withdrawn /\ [Next]_vars
        => [\A v \in shutDown : Started(v) => overlapped \/ v \in rushed]_vars
  BY StartStep
<1> QED
  BY <1>1, <1>2, <1>3, TypeCorrect, PTL DEF Spec, ShutDownStaysDown

-----------------------------------------------------------------------------
(* One request for each GPU.                                               *)

Clash(v, w) == v # w /\ Passthrough[v] = Passthrough[w] /\ Passthrough[v] # NoGPU
Checked == Asked \ (unchecked \cup rushed)
Asks(v) == Outstanding(intent.wake, v)

(* A handler that has found the GPU free, with nobody having saved since.   *)
Cleared(u) == click[u].at = "save" /\ click[u].op = "start" /\ ~click[u].stale

(* What a tick has given up on is no newer than what is asked for, and what *)
(* it is about to start is no newer than that, and not given up on.         *)
GivenUp(v) ==
    /\ Live(intent.wake[v]) => intent.wake[v] <= failed[v]
    /\ tick.at = "observe" /\ Live(tick.wake[v]) => tick.wake[v] <= failed[v]
    /\ tick.at = "start" /\ v \in tick.start =>
          tick.wake[v] <= failed[v] /\ (Live(tick.wake[v]) => failed[v] # tick.wake[v])

Ledger == ~overlapped => \A v \in Asked \ rushed : GivenUp(v)

(* What has been found free stays so until it is taken.                     *)
Apart ==
    /\ \A u \in Users : click[u].at = "load" => click[u].op # "start"
    /\ ~overlapped =>
          /\ \A v, w \in Checked : Clash(v, w) /\ Asks(v) => ~Asks(w)
          /\ \A u \in Users : \A w \in Checked :
                Cleared(u) /\ click[u].vm \in Checked /\ Clash(click[u].vm, w) => ~Asks(w)

(* Every step keeps the ledger.                                             *)
LEMMA LedgerStep ==
    ASSUME Asked # {}, TypeOK, Serial, Books, Ledger, [Next]_vars
    PROVE  Ledger'
<1> SUFFICES ASSUME ~overlapped', NEW v \in Asked, v \notin rushed'
             PROVE  GivenUp(v)'
  BY DEF Ledger
<1> USE DEF GivenUp
<1>a. TypeOK'
  BY TypeStep
<1>b. /\ intent.wake[v] \in Ages /\ failed[v] \in Ages /\ tick.wake[v] \in Ages
      /\ intent'.wake[v] \in Ages /\ failed'[v] \in Ages /\ tick'.wake[v] \in Ages
  BY <1>a DEF TypeOK, Intents, Ticks
<1>c. ~Live(Never) /\ \A a \in Ages : a \in Nat /\ a <= Never
  BY DurationsAssumption DEF Live, Never, Ages
<1>d. ASSUME overlapped' = overlapped, rushed' = rushed
      PROVE  GivenUp(v) /\ InOrder(v) /\ Remembered(v)
  BY <1>d DEF Books, Ledger
<1>1. CASE TickRead
  <2>1. overlapped' = overlapped /\ rushed' = rushed /\ intent' = intent /\ failed' = failed
        /\ tick'.at = "observe"
        /\ tick'.wake[v] = IF failed[v] = intent.wake[v] THEN Never ELSE intent.wake[v]
    BY <1>1 DEF TickRead, store, history, NoTick
  <2> QED
    BY <1>b, <1>c, <1>d, <2>1
<1>2. CASE TickObserve
  <2>1. /\ UNCHANGED <<intent, failed, overlapped, rushed>>
        /\ tick.at = "observe" /\ tick'.at \in {"start", "save"}
        /\ tick'.at = "start" => tick'.wake = tick.wake
        /\ v \in tick'.start => Live(tick.wake[v])
    BY <1>2, ObserveMarks
  <2>2. tick.at = "observe" /\ Live(tick.wake[v]) => failed[v] # tick.wake[v]
    BY <1>d, <2>1 DEF Remembered
  <2> QED
    BY <1>d, <2>1, <2>2
<1>3. CASE TickStart
  <2>1. overlapped' = overlapped /\ rushed' = rushed /\ intent' = intent
        /\ tick.at = "start" /\ tick'.at = "save"
        /\ (failed'[v] \in {Never, failed[v]} \/ (v \in tick.start /\ failed'[v] = tick.wake[v]))
    BY <1>3 DEF TickStart, store, history
  <2>2. Live(intent.wake[v]) => intent.wake[v] <= tick.wake[v]
    BY <1>d, <2>1 DEF InOrder
  <2> QED
    BY <1>b, <1>c, <1>d, <2>1, <2>2
<1>4. CASE TickSave
  <2>1. overlapped' = overlapped /\ rushed' = rushed /\ intent' = intent /\ failed' = failed
        /\ tick'.at = "idle"
    BY <1>4 DEF TickSave, history, NoTick
  <2> QED
    BY <1>d, <2>1
<1>5. CASE Restart
  <2>1. overlapped' = overlapped /\ rushed' = rushed /\ intent' = intent
        /\ tick'.at = "idle" /\ failed'[v] = Never
    BY <1>5 DEF Restart, store, NoTick, NoRequests
  <2> QED
    BY <1>b, <1>c, <2>1
<1>6. CASE Tick
  <2>1. /\ overlapped' = overlapped /\ rushed' = rushed
        /\ intent'.wake[v] = Older(intent.wake[v])
        /\ failed'[v] = Older(failed[v])
        /\ tick'.at = tick.at /\ tick'.wake[v] = Older(tick.wake[v])
        /\ tick'.start = tick.start
    BY <1>6 DEF Tick, OlderIntent, OlderAges, TypeOK, Intents, Ticks
  <2>2. Live(intent'.wake[v]) => intent'.wake[v] <= failed'[v]
    BY <1>b, <1>d, <2>1, OlderOrder
  <2>3. tick'.at = "observe" /\ Live(tick'.wake[v]) => tick'.wake[v] <= failed'[v]
    BY <1>b, <1>d, <2>1, OlderOrder
  <2>4. tick'.at = "start" /\ v \in tick'.start => tick'.wake[v] <= failed'[v]
    BY <1>b, <1>d, <2>1, OlderOrder
  <2>5. tick'.at = "start" /\ v \in tick'.start /\ Live(tick'.wake[v]) => failed'[v] # tick'.wake[v]
    BY <1>b, <1>d, <2>1, OlderOrder
  <2> QED
    BY <2>2, <2>3, <2>4, <2>5
<1>7. ASSUME NEW u \in Users, StartSave(u) \/ DropSave(u) \/ HoldSave(u)
      PROVE  GivenUp(v)'
  <2>1. ~overlapped /\ v \notin rushed /\ UNCHANGED <<done, failed, tick>>
    BY <1>7, FreshSave
  <2>2. intent'.wake[v] \in {intent.wake[v], Never, 0}
    BY <1>7, FreshSave
  <2>3. 0 <= failed[v]
    BY <1>b, <1>c
  <2> QED
    BY <1>b, <1>c, <2>1, <2>2, <2>3 DEF Ledger
<1>8. CASE Aside
  BY <1>8 DEF Aside, Ledger
<1> QED
  BY <1>1, <1>2, <1>3, <1>4, <1>5, <1>6, <1>7, <1>8, StepKinds

(* A request that does not count is brought back by no tick, no time and no *)
(* restart, other than as one that a restart has forgotten the end of.      *)
LEMMA NoneReturns ==
    ASSUME Asked # {}, TypeOK, Books, Ledger, ~overlapped', NEW v \in Asked, v \in Checked', Asks(v)',
           TickRead \/ TickObserve \/ TickStart \/ TickSave \/ Restart \/ Tick \/ Aside
    PROVE  ~overlapped /\ v \in Checked /\ Asks(v)
<1> USE DEF Asks, Outstanding, Checked
<1>b. /\ intent.wake[v] \in Ages /\ done[v] \in Ages /\ failed[v] \in Ages
      /\ tick.wake[v] \in Ages /\ tick.done[v] \in Ages
  BY DEF TypeOK, Intents, Ticks
<1>c. ~Live(Never) /\ \A a \in Ages : a \in Nat /\ a <= Never
  BY DurationsAssumption DEF Live, Never, Ages
<1>d. ASSUME overlapped' = overlapped, rushed' = rushed
      PROVE  v \notin rushed /\ GivenUp(v) /\ InOrder(v) /\ Remembered(v)
  BY <1>d DEF Books, Ledger
<1>1. CASE TickRead \/ TickObserve
  BY <1>1 DEF TickRead, TickObserve, store, history
<1>2. CASE TickStart
  <2>1. overlapped' = overlapped /\ rushed' = rushed /\ intent' = intent /\ done' = done
        /\ unchecked' = unchecked /\ tick.at = "start"
        /\ (failed'[v] = failed[v] \/ v \in tick.start)
    BY <1>2 DEF TickStart, store, history
  <2>2. ASSUME v \in tick.start, failed[v] = intent.wake[v], Live(intent.wake[v])
        PROVE  FALSE
    <3>1. intent.wake[v] <= tick.wake[v] /\ tick.wake[v] <= failed[v]
      BY <1>d, <2>1, <2>2 DEF InOrder, GivenUp
    <3>2. tick.wake[v] = intent.wake[v]
      BY <1>b, <1>c, <2>2, <3>1
    <3> QED
      BY <1>d, <2>1, <2>2, <3>2 DEF GivenUp
  <2> QED
    BY <2>1, <2>2
<1>3. CASE TickSave
  <2>1. overlapped' = overlapped /\ rushed' = rushed /\ intent' = intent /\ failed' = failed
        /\ unchecked' = unchecked /\ tick.at = "save" /\ (done' = tick.done \/ done' = done)
    BY <1>3 DEF TickSave, history
  <2>2. Live(intent.wake[v]) /\ intent.wake[v] <= done[v]
    BY <1>d, <2>1 DEF InOrder
  <2>3. done[v] = intent.wake[v] => tick.done[v] = intent.wake[v]
    BY <1>d, <2>1, <2>2 DEF Remembered
  <2> QED
    BY <1>b, <1>c, <2>1, <2>2, <2>3
<1>4. CASE Restart
  BY <1>4 DEF Restart, store
<1>5. CASE Tick
  <2>1. /\ overlapped' = overlapped /\ rushed' = rushed
        /\ intent'.wake[v] = Older(intent.wake[v])
        /\ done'[v] = Older(done[v]) /\ failed'[v] = Older(failed[v])
    BY <1>5 DEF Tick, OlderIntent, OlderAges, TypeOK, Intents
  <2>2. Live(intent'.wake[v])
    OBVIOUS
  <2>3. v \in unchecked => v \in unchecked'
    BY <1>5, <2>2 DEF Tick
  <2>4. Live(intent.wake[v]) /\ failed[v] # intent.wake[v]
    BY <1>b, <2>1, OlderOrder
  <2>5. ~(done[v] <= intent.wake[v])
    <3>1. Older(intent.wake[v]) \in Nat /\ Older(done[v]) \in Nat
      BY <1>b, <1>c DEF Older
    <3>2. done[v] <= intent.wake[v] => Older(done[v]) <= Older(intent.wake[v])
      BY <1>b, OlderOrder
    <3> QED
      BY <2>1, <3>1, <3>2
  <2> QED
    BY <1>b, <1>c, <2>1, <2>3, <2>4, <2>5
<1>6. CASE Aside
  BY <1>6 DEF Aside
<1> QED
  BY <1>1, <1>2, <1>3, <1>4, <1>5, <1>6

(* A save leaves no handler cleared: not itself, and nobody else.           *)
LEMMA SaveUnclears ==
    ASSUME TypeOK, NEW x \in Users, StartSave(x) \/ DropSave(x) \/ HoldSave(x), NEW u \in Users
    PROVE  /\ ~Cleared(u)'
           /\ click'[u].at = "load" => click[u].at = "load" /\ click'[u].op = click[u].op
<1>1. PICK new, next : SaveIntent(x, new, next) /\ next.at \in {"idle", "power"}
  <2>1. click[x] \in Clicks
    BY DEF TypeOK
  <2>2. Idle.at = "idle" /\ [click[x] EXCEPT !.at = "power", !.intent = NoIntent, !.stale = FALSE].at = "power"
    BY <2>1 DEF Idle, Clicks
  <2> QED
    BY <2>2 DEF StartSave, DropSave, HoldSave
<1>2. CASE u = x
  BY <1>1, <1>2 DEF SaveIntent, Cleared
<1>3. CASE u # x
  BY <1>1, <1>3, SaveOthers DEF Cleared
<1> QED
  BY <1>2, <1>3

(* Only its own check clears a handler (handleStart: LoadIntent, gpuBlocker,*)
(* SaveIntent).                                                             *)
LEMMA ClickKeeps ==
    ASSUME Asked # {}, TypeOK, [Next]_vars, \A x \in Users : click[x].at = "load" => click[x].op # "start",
           NEW u \in Users
    PROVE  /\ click'[u].at = "load" => click'[u].op # "start"
           /\ Cleared(u)' => \/ StartCheck(u) /\ click[u].at = "check" /\ ~click[u].stale /\ ~gpuBlocked(u)
                                /\ click'[u].vm = click[u].vm
                             \/ Cleared(u) /\ click'[u].vm = click[u].vm
<1> DEFINE Goal ==
      /\ click'[u].at = "load" => click'[u].op # "start"
      /\ Cleared(u)' => \/ StartCheck(u) /\ click[u].at = "check" /\ ~click[u].stale /\ ~gpuBlocked(u)
                           /\ click'[u].vm = click[u].vm
                        \/ Cleared(u) /\ click'[u].vm = click[u].vm
<1>0. click[u] \in Clicks /\ DOMAIN click = Users
  BY DEF TypeOK
<1>t. ASSUME click'[u] = click[u] PROVE Goal
  BY <1>t DEF Cleared
<1>u. ASSUME NEW x \in Users, NEW c, click' = [click EXCEPT ![x] = c],
             x = u => c.at \notin {"load", "save"} \/ c.op # "start"
      PROVE  Goal
  <2>1. CASE x = u
    BY <1>0, <1>u, <2>1 DEF Cleared
  <2>2. CASE x # u
    BY <1>0, <1>t, <1>u, <2>2
  <2> QED
    BY <2>1, <2>2
<1>1. ASSUME NEW x \in Users, NEW v \in Asked, StartLoad(x, v) PROVE Goal
  <2>1. PICK c : /\ c = [Reading("check") EXCEPT !.op = "start", !.vm = v]
                 /\ click' = [click EXCEPT ![x] = c]
    BY <1>1 DEF StartLoad
  <2>2. c.at = "check"
    BY <2>1 DEF Reading, Idle
  <2> QED
    BY <1>u, <2>1, <2>2
<1>2. ASSUME NEW x \in Users, NEW v \in Asked, NEW op \in Actions, PowerView(x, v, op) PROVE Goal
  <2>1. op # "start"
    BY UsersAssumption
  <2>2. PICK c : /\ c = IF ~cached'.up \/ ~cached'.ok THEN Idle
                        ELSE [Idle EXCEPT !.op = op, !.vm = v,
                                !.at = IF op \in {"shutdown", "stop"} THEN "load" ELSE "power"]
                 /\ click' = [click EXCEPT ![x] = c]
    BY <1>2 DEF PowerView
  <2>3. c.at = "idle" \/ c.op = op
    BY <2>2 DEF Idle
  <2> QED
    BY <1>u, <2>1, <2>2, <2>3
<1>3. ASSUME NEW x \in Users, StartCheck(x) PROVE Goal
  <2>1. PICK c : c = (IF gpuBlocked(x) THEN Idle ELSE [click[x] EXCEPT !.at = "save"])
                 /\ click' = [click EXCEPT ![x] = c] /\ click[x].at = "check"
    BY <1>3 DEF StartCheck
  <2>2. CASE x = u /\ ~gpuBlocked(u)
    <3>1. /\ click'[u].at = "save" /\ click'[u].vm = click[u].vm
          /\ click'[u].stale = click[u].stale
      BY <1>0, <2>1, <2>2 DEF Clicks
    <3> QED
      BY <1>3, <2>1, <2>2, <3>1 DEF Cleared
  <2>3. CASE gpuBlocked(x)
    BY <1>u, <2>1, <2>3 DEF Idle
  <2>4. CASE x # u
    BY <1>u, <2>1, <2>4
  <2> QED
    BY <2>2, <2>3, <2>4
<1>4. ASSUME NEW x \in Users, StartSave(x) \/ DropSave(x) \/ HoldSave(x) PROVE Goal
  BY <1>4, SaveUnclears
<1>5. ASSUME NEW x \in Users, DropLoad(x) PROVE Goal
  <2>1. x = u => click[u].op # "start"
    BY <1>5 DEF DropLoad
  <2>2. PICK c : /\ c = [Reading("save") EXCEPT !.op = click[x].op, !.vm = click[x].vm,
                           !.served = /\ Live(intent.wake[click[x].vm])
                                      /\ done[click[x].vm] <= intent.wake[click[x].vm]]
                 /\ click' = [click EXCEPT ![x] = c]
    BY <1>5 DEF DropLoad
  <2>3. c.op = click[x].op
    BY <2>2 DEF Reading, Idle
  <2> QED
    BY <1>u, <2>1, <2>2, <2>3
<1>6. ASSUME NEW x \in Users, Power(x) \/ SaveFails(x) PROVE Goal
  <2>1. click' = [click EXCEPT ![x] = Idle] /\ Idle.at = "idle"
    BY <1>6 DEF Power, SaveFails, Idle
  <2> QED
    BY <1>u, <2>1
<1>8. ASSUME NEW x \in Users, NEW h \in Positions, HoldLoad(x, h) PROVE Goal
  <2>1. PICK c : /\ c = [Reading("save") EXCEPT !.op = "hold", !.hold = h]
                 /\ click' = [click EXCEPT ![x] = c]
    BY <1>8 DEF HoldLoad
  <2>2. c.op = "hold"
    BY <2>1 DEF Reading, Idle
  <2> QED
    BY <1>u, <2>1, <2>2
<1>9. ASSUME UNCHANGED click PROVE Goal
  BY <1>9, <1>t
<1>10. CASE Status \/ TickRead \/ TickObserve \/ TickStart \/ TickSave \/ HostOff \/ UNCHANGED vars
  BY <1>9, <1>10 DEF Status, TickRead, TickObserve, TickStart, TickSave, HostOff, vars
<1>11. ASSUME NEW v \in Asked, VMStops(v) \/ VMStarts(v) PROVE Goal
  BY <1>9, <1>11 DEF VMStops, VMStarts
<1>12. CASE Restart
  BY <1>12 DEF Restart, Idle, Cleared
<1>13. CASE Tick
  <2>1. click'[u] = [click[u] EXCEPT !.intent = OlderIntent(click[u].intent)]
    BY <1>13 DEF Tick
  <2>2. /\ click'[u].at = click[u].at /\ click'[u].op = click[u].op
        /\ click'[u].vm = click[u].vm /\ click'[u].stale = click[u].stale
    BY <1>0, <2>1 DEF Clicks
  <2> QED
    BY <2>2 DEF Cleared
<1> QED
  BY <1>1, <1>2, <1>3, <1>4, <1>5, <1>6, <1>8, <1>10, <1>11, <1>12, <1>13 DEF Next

(* Every step keeps the requests apart.                                     *)
LEMMA ApartStep ==
    ASSUME Asked # {}, TypeOK, Serial, Books, Ledger, Apart, [Next]_vars
    PROVE  Apart'
<1>0. \A x \in Users : click[x].at = "load" => click[x].op # "start"
  BY DEF Apart
<1>1. \A u \in Users : click'[u].at = "load" => click'[u].op # "start"
  BY <1>0, ClickKeeps
<1> SUFFICES ASSUME ~overlapped'
             PROVE  /\ \A v, w \in Checked' : Clash(v, w) /\ Asks(v)' => ~Asks(w)'
                    /\ \A u \in Users : \A w \in Checked' :
                          Cleared(u)' /\ click'[u].vm \in Checked' /\ Clash(click'[u].vm, w) => ~Asks(w)'
  BY <1>1 DEF Apart, Clash
<1>2. CASE \E u \in Users : StartSave(u) \/ DropSave(u) \/ HoldSave(u)
  <2>1. PICK u \in Users : StartSave(u) \/ DropSave(u) \/ HoldSave(u)
    BY <1>2
  <2>2. \A x \in Users : ~Cleared(x)'
    BY <2>1, SaveUnclears
  <2>3. ~overlapped /\ ~click[u].stale /\ UNCHANGED <<done, failed>> /\ rushed \subseteq rushed'
    BY <2>1, FreshSave
  <2>4. ASSUME NEW v \in Checked', Asks(v)'
        PROVE  /\ v \in Checked
               /\ Asks(v) \/ (StartSave(u) /\ v = click[u].vm)
    <3>1. ~Live(Never) /\ v \in Asked
      BY DurationsAssumption DEF Live, Never, Checked
    <3>2. \/ intent'.wake[v] = intent.wake[v] /\ (v # click[u].vm \/ HoldSave(u))
          \/ v = click[u].vm /\ intent'.wake[v] = 0 /\ StartSave(u)
      BY <2>1, <2>4, <3>1, FreshSave DEF Asks, Outstanding
    <3>3. v \notin unchecked /\ v \notin rushed
      BY <2>1, <2>3, <2>4, <3>2 DEF Checked, StartSave, DropSave, HoldSave
    <3> QED
      BY <2>3, <2>4, <3>1, <3>2, <3>3 DEF Checked, Asks, Outstanding
  <2>5. StartSave(u) => Cleared(u)
    BY <2>3 DEF StartSave, Cleared
  <2>6. ASSUME NEW v \in Checked', NEW w \in Checked', Clash(v, w), Asks(v)', Asks(w)'
        PROVE  FALSE
    <3>1. v # w /\ Clash(w, v)
      BY <2>6 DEF Clash
    <3> QED
      BY <2>3, <2>4, <2>5, <2>6, <3>1 DEF Apart
  <2> QED
    BY <2>2, <2>6
<1>3. CASE TickRead \/ TickObserve \/ TickStart \/ TickSave \/ Restart \/ Tick \/ Aside
  <2>1. ~overlapped
    BY <1>3, ObserveMarks DEF TickRead, TickStart, TickSave, TickObserve, Restart, Tick, Aside, store, history
  <2>2. ASSUME NEW v \in Checked', Asks(v)'
        PROVE  v \in Checked /\ Asks(v) /\ v \in Asked
    <3>1. v \in Asked
      BY DEF Checked
    <3> QED
      BY <1>3, <2>2, <3>1, NoneReturns
  <2>3. \A v, w \in Checked' : Clash(v, w) /\ Asks(v)' => ~Asks(w)'
    BY <2>1, <2>2 DEF Apart
  <2>4. ASSUME NEW u \in Users, NEW w \in Checked', Cleared(u)', click'[u].vm \in Checked',
               Clash(click'[u].vm, w), Asks(w)'
        PROVE  FALSE
    <3>1. w \in Checked /\ Asks(w) /\ w \in Asked
      BY <2>2, <2>4
    <3>2. PICK v \in Checked' : v = click'[u].vm /\ v \in Asked
      BY <2>4 DEF Checked
    <3>3. CASE StartCheck(u) /\ click[u].at = "check" /\ ~click[u].stale /\ ~gpuBlocked(u)
               /\ click'[u].vm = click[u].vm
      <4>1. click[u].intent = intent
        BY <2>1, <3>3 DEF Serial
      <4>2. v = click[u].vm /\ Clash(v, w)
        BY <2>4, <3>2, <3>3
      <4>3. gpu'[v] = Passthrough[v]
        BY <3>2, <3>3, <4>2 DEF StartCheck, Checked
      <4>4. gpu' \in {Passthrough, [x \in Asked |-> NoGPU]}
        BY <3>3, ViewType DEF StartCheck
      <4>5. gpu' = Passthrough
        BY <3>2, <4>2, <4>3, <4>4 DEF Clash
      <4>6. SameGPU(v, w)
        BY <4>2, <4>5 DEF SameGPU, Clash
      <4>7. ~Outstanding(intent.wake, w)
        BY <3>1, <3>3, <4>1, <4>2, <4>6 DEF gpuBlocked
      <4> QED
        BY <3>1, <4>7 DEF Asks
    <3>4. CASE Cleared(u) /\ click'[u].vm = click[u].vm
      <4>1. v \in Checked
        <5>1. v \in unchecked => v \in unchecked'
          <6>1. CASE Tick
            BY <3>2, <3>4, <6>1 DEF Tick, Starting, Cleared, TypeOK, Clicks
          <6>2. CASE Restart
            BY <2>4, <6>2 DEF Restart, Cleared, Idle
          <6>3. CASE TickRead \/ TickObserve \/ TickStart \/ TickSave
            BY <6>3 DEF TickRead, TickObserve, TickStart, TickSave, history
          <6>4. CASE Aside
            BY <6>4 DEF Aside
          <6> QED
            BY <1>3, <6>1, <6>2, <6>3, <6>4
        <5>2. v \in rushed => v \in rushed'
          BY <1>3 DEF TickRead, TickObserve, TickStart, TickSave, Restart, Tick, Aside, history
        <5> QED
          BY <3>2, <5>1, <5>2 DEF Checked
      <4> QED
        BY <2>1, <2>4, <3>1, <3>2, <3>4, <4>1 DEF Apart
    <3> QED
      BY <1>0, <2>4, <3>3, <3>4, ClickKeeps
  <2> QED
    BY <2>3, <2>4
<1> QED
  BY <1>2, <1>3, StepKinds

(* No two VMs ever have a request outstanding for the one GPU, for any      *)
(* number of users, VMs and cards: over every failure of Proxmox, of a save *)
(* or of a start, and whatever the loop serves, forgets and gives up on     *)
(* between a handler's check and its save.                                  *)
THEOREM RequestsShareNoGPU == ASSUME Asked # {} PROVE Spec => []OneRequestPerGPU
<1> DEFINE Inv == Serial /\ Books /\ Ledger /\ Apart
<1>1. Init => Inv
  <2> SUFFICES ASSUME Init PROVE Inv
    OBVIOUS
  <2>1. Serial
    BY DEF Init, Serial, Idle
  <2>2. ~Live(Never)
    BY DurationsAssumption DEF Live, Never
  <2>3. Books
    BY <2>2, DurationsAssumption DEF Init, Books, InOrder, Remembered, NoIntent, NoRequests, NoTick
  <2>4. Ledger
    BY <2>2 DEF Init, Ledger, GivenUp, NoIntent, NoRequests, NoTick
  <2>5. Apart
    BY <2>2 DEF Init, Apart, Asks, Outstanding, Checked, Cleared, NoIntent, NoRequests, Idle
  <2> QED
    BY <2>1, <2>3, <2>4, <2>5
<1>2. TypeOK /\ Inv /\ [Next]_vars => Inv'
  BY SerialStep, BooksStep, LedgerStep, ApartStep
<1>3. Inv => OneRequestPerGPU
  BY DEF Apart, OneRequestPerGPU, Checked, Clash, Asks
<1> QED
  BY <1>1, <1>2, <1>3, TypeCorrect, PTL DEF Spec
=============================================================================

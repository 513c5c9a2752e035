--------------------------- MODULE TunSettleProofs ---------------------------
(* Proofs about the settling of the TUN and the egress pin, for any number *)
(* of checks, operations, timers and interfaces.                           *)
EXTENDS TunSettle, FiniteSetTheorems, TLAPS

OpPlaces == {"idle", "bump", "listeners", "tun", "swap", "releaseInner", "done", "bumped", "released"}

OpTypeOK ==
    /\ op \in [name : {"none", "apply", "update", "start"}, at : OpPlaces]
    /\ config \in BOOLEAN \cup {None}
    /\ isRunning \in BOOLEAN /\ tunEnabled \in BOOLEAN
    /\ outer \in BOOLEAN /\ inner \in BOOLEAN
    /\ epoch \in Nat /\ gen \in Nat

(* The holds of an operation and the config it brings up, by its place.    *)
OpInv ==
    /\ OpTypeOK
    /\ op.at = "idle" <=> op = Idle
    /\ op.at = "idle" <=> op.name = "none"
    /\ op.at \notin {"tun", "swap", "releaseInner"} => ~inner
    /\ op.at \in {"idle", "released"} => ~outer
    /\ op.at \in {"tun", "swap"} => config \in BOOLEAN
    /\ op.at = "released" => op.name = "start"

CheckRecords ==
    [at : {"idle", "look", "onStart", "onToggle", "go", "stamped", "answered"},
     direct : BOOLEAN, toggle : Nat \cup {None}, start : Nat \cup {None},
     stamp : Nat \cup {None}, gen : Nat \cup {None}]

CheckTypeOK == check \in [Checks -> CheckRecords]

-----------------------------------------------------------------------------
(* A pin stands for a binding, unless an apply took that away.             *)
PinBound == pin # None => iface # None \/ stalePin

(* The places of an operation that has brought its listeners up.           *)
ListenersUp == {"idle", "releaseInner", "done", "bumped", "released"}

(* With one interface the sockets are bound to what the pin names, and an  *)
(* operation that is past its listeners has let go of both.                *)
OnePin ==
    /\ pin \in Egress \cup {None} /\ iface \in Egress \cup {None}
    /\ iface # None => pin = iface
    /\ op.at \in ListenersUp /\ isRunning /\ config # None => pin = None /\ iface = None

(* While the core does not run, a start has yet to bump the epoch, or the  *)
(* routes have moved and the epoch has not, an answer may be out of date.  *)
Unsettled ==
    \/ ~isRunning
    \/ op.name = "start" /\ op.at \notin {"bumped", "released"}
    \/ op.at = "swap" /\ config # tunEnabled

Fresh ==
    \A c \in Checks :
        /\ check[c].at \in {"stamped", "answered"} => check[c].stamp \in 0..epoch
        /\ ~Unsettled /\ check[c].at = "answered" /\ check[c].stamp = epoch => check[c].gen = gen

-----------------------------------------------------------------------------
Held(b) == IF b THEN 1 ELSE 0

(* Every hold is the operation's, its listeners' or an aftershock's.       *)
HoldsCounted ==
    /\ shocked \in Nat
    /\ IsFiniteSet(shocks) /\ shocks \subseteq 1..shocked
    /\ holders = Cardinality(shocks) + Held(outer) + Held(inner)
    /\ done = None <=> holders = 0

(* The channels of the two kinds are apart, and one of a toggle is open    *)
(* for as long as it is the one in force.                                  *)
ChansApart ==
    /\ chans \in Nat
    /\ closed \subseteq 1..chans
    /\ done # None => done \in 1..chans /\ done \notin closed
    /\ startDone # None => startDone \in 1..chans /\ startDone \notin closed /\ startDone # done
    /\ \A c \in Checks :
        /\ check[c].toggle # None =>
            /\ check[c].toggle \in 1..chans /\ check[c].toggle # startDone
            /\ check[c].toggle # done => check[c].toggle \in closed
        /\ check[c].at = "onToggle" => check[c].toggle # None

(* The hold of a start has its own timer, and whatever else has fired had  *)
(* done so before it began.                                                *)
TimersApart ==
    /\ startDone = None <=> timer = None
    /\ armed \subseteq {timer} /\ None \notin armed
    /\ timers \in Nat
    /\ startDone # None => fired \subseteq raced \cup {timer}

(* Whoever has a toggle or a reset ahead of it holds the checks.           *)
PendingIsHeld == ResetPending => outer \/ inner

NothingEarly == early = {} /\ ~escaped

HoldInv == CheckTypeOK /\ HoldsCounted /\ ChansApart

EarlyInv == TimersApart /\ PendingIsHeld /\ NothingEarly

(* No operation under way in the beginning.                                *)
LEMMA InitOpInv == Init => OpInv /\ HoldInv /\ EarlyInv /\ Fresh /\ PinBound /\ OnePin
<1> SUFFICES ASSUME Init PROVE OpInv /\ HoldInv /\ EarlyInv /\ Fresh /\ PinBound /\ OnePin
  OBVIOUS
<1> USE SettleAssumption DEF Init, Idle
<1>1. OpInv
  BY DEF OpInv, OpTypeOK, OpPlaces
<1>2. Fresh
  BY DEF Fresh, NoCheck
<1>3. PinBound /\ OnePin
  BY DEF PinBound, OnePin
<1>4. HoldInv
  <2>1. NoCheck \in CheckRecords
    BY DEF NoCheck, CheckRecords
  <2>2. CheckTypeOK
    BY <2>1 DEF CheckTypeOK
  <2>3. HoldsCounted
    BY FS_EmptySet DEF HoldsCounted, Held
  <2>4. ChansApart
    BY DEF ChansApart, NoCheck
  <2> QED BY <2>2, <2>3, <2>4 DEF HoldInv
<1>5. EarlyInv
  BY DEF EarlyInv, TimersApart, PendingIsHeld, ResetPending, NothingEarly
<1> QED BY <1>1, <1>2, <1>3, <1>4, <1>5

(* An operation that begins takes its hold with the TUN it is to toggle.   *)
LEMMA BeginKeepsOpInv ==
    ASSUME OpInv,
           \/ \E tun \in BOOLEAN, found \in Egress : ApplyConfig(tun, found)
           \/ \E tun \in BOOLEAN : UpdateConfig(tun)
           \/ StartListener
    PROVE  OpInv'
<1> USE SettleAssumption DEF Begin, TunWillToggle, Idle, OpPlaces
<1>1. CASE \E tun \in BOOLEAN, found \in Egress : ApplyConfig(tun, found)
  BY <1>1 DEF ApplyConfig, OpInv, OpTypeOK, routeVars
<1>2. CASE \E tun \in BOOLEAN : UpdateConfig(tun)
  BY <1>2 DEF UpdateConfig, OpInv, OpTypeOK, routeVars, settleVars
<1>3. CASE StartListener
  BY <1>3 DEF StartListener, OpInv, OpTypeOK, routeVars
<1> QED BY <1>1, <1>2, <1>3

(* The steps of an operation.                                              *)
LEMMA OperatingKeepsOpInv ==
    ASSUME OpInv, Operating
    PROVE  OpInv'
<1> USE SettleAssumption DEF Goto, At, Idle, OpPlaces, settleVars, routeVars
<1>1. CASE ApplyBumps \/ ReCreateTun \/ OperationBumps
  BY <1>1 DEF ApplyBumps, ReCreateTun, OperationBumps, OpInv, OpTypeOK
<1>2. CASE \E found \in Egress : EnterListeners(found)
  BY <1>2 DEF EnterListeners, TunWillToggle, OpInv, OpTypeOK
<1>3. CASE FinishListeners
  BY <1>3 DEF FinishListeners, ToggleEpoch, OpInv, OpTypeOK
<1>4. CASE ReleaseInner
  BY <1>4 DEF ReleaseInner, OpInv, OpTypeOK
<1>5. CASE ReleaseOuter
  <2>1. CASE op.name = "start"
    <3>1. op' = [op EXCEPT !.at = "released"] /\ op.at \in {"done", "bumped"}
      BY <1>5, <2>1 DEF ReleaseOuter
    <3>2. outer' = FALSE /\ UNCHANGED <<config, isRunning, tunEnabled, inner, epoch, gen>>
      BY <1>5 DEF ReleaseOuter
    <3> QED BY <2>1, <3>1, <3>2 DEF OpInv, OpTypeOK
  <2>2. CASE op.name # "start"
    <3>1. op' = Idle /\ op.at \in {"done", "bumped"}
      BY <1>5, <2>2 DEF ReleaseOuter
    <3>2. outer' = FALSE /\ UNCHANGED <<config, isRunning, tunEnabled, inner, epoch, gen>>
      BY <1>5 DEF ReleaseOuter
    <3> QED BY <3>1, <3>2 DEF OpInv, OpTypeOK
  <2> QED BY <2>1, <2>2
<1>6. CASE StartEnds
  BY <1>6 DEF StartEnds, OpInv, OpTypeOK
<1> QED BY <1>1, <1>2, <1>3, <1>4, <1>5, <1>6 DEF Operating

(* The checks change nothing but themselves.                               *)
LEMMA ChecksAlone ==
    ASSUME NEW c \in Checks,
           (\E direct \in BOOLEAN : LookAtToggle(c, direct)) \/ Checking(c) \/ LimitPassed(c) \/ AskAgain(c)
    PROVE  OthersUnchanged
  BY DEF Checking, LookAtToggle, LookAtStart, StartWasEnded, ToggleSettled, Stamp, Dial, LimitPassed, AskAgain

(* Every step keeps it.                                                    *)
LEMMA NextKeepsOpInv == OpInv /\ [Next]_vars => OpInv'
<1> SUFFICES ASSUME OpInv, [Next]_vars PROVE OpInv'
  OBVIOUS
<1>1. CASE \/ \E tun \in BOOLEAN, found \in Egress : ApplyConfig(tun, found)
           \/ \E tun \in BOOLEAN : UpdateConfig(tun)
           \/ StartListener
  BY <1>1, BeginKeepsOpInv
<1>2. CASE Operating
  BY <1>2, OperatingKeepsOpInv
<1>3. CASE StopListener \/ Shutdown
  <2>1. /\ op = Idle /\ isRunning' = FALSE /\ tunEnabled' = FALSE
        /\ gen' = IF tunEnabled THEN gen + 1 ELSE gen
        /\ UNCHANGED <<op, outer, inner, epoch>>
        /\ config' \in {config, None}
    BY <1>3 DEF StopListener, Shutdown, TakeDown, settleVars
  <2>2. OpTypeOK'
    <3>1. gen' \in Nat /\ config' \in BOOLEAN \cup {None}
      BY <2>1 DEF OpInv, OpTypeOK
    <3> QED BY <2>1, <3>1 DEF OpInv, OpTypeOK
  <2> QED BY <2>1, <2>2 DEF OpInv, Idle
<1>4. CASE \E s \in shocks : Aftershock(s)
  BY <1>4 DEF Aftershock, opVars, OpInv, OpTypeOK, Idle
<1>5. CASE (\E t \in armed : StartTimerFires(t)) \/ (\E t \in fired : StartLimitPassed(t)) \/ UNCHANGED vars
  BY <1>5 DEF StartTimerFires, StartLimitPassed, vars, opVars, settleVars, routeVars, OpInv, OpTypeOK, Idle
<1>6. CASE OthersUnchanged
  BY <1>6 DEF OthersUnchanged, opVars, settleVars, routeVars, OpInv, OpTypeOK, Idle
<1> QED BY <1>1, <1>2, <1>3, <1>4, <1>5, <1>6, ChecksAlone DEF Next

(* The steps that leave the pin and the binding alone.                     *)
LEMMA EgressMoves ==
    ASSUME [Next]_vars
    PROVE  \/ UNCHANGED egressVars
           \/ \E tun \in BOOLEAN, found \in Egress : ApplyConfig(tun, found)
           \/ \E found \in Egress : EnterListeners(found)
           \/ FinishListeners \/ StopListener
<1>1. CASE (\E tun \in BOOLEAN : UpdateConfig(tun)) \/ StartListener \/ Shutdown
  BY <1>1 DEF UpdateConfig, StartListener, Shutdown
<1>2. CASE Operating
  BY <1>2 DEF Operating, ApplyBumps, ReCreateTun, ReleaseInner, OperationBumps, ReleaseOuter, StartEnds
<1>3. CASE (\E s \in shocks : Aftershock(s)) \/ (\E t \in armed : StartTimerFires(t)) \/ \E t \in fired : StartLimitPassed(t)
  BY <1>3 DEF Aftershock, StartTimerFires, StartLimitPassed
<1>4. CASE OthersUnchanged
  BY <1>4 DEF OthersUnchanged
<1>5. CASE UNCHANGED vars
  BY <1>5 DEF vars
<1> QED BY <1>1, <1>2, <1>3, <1>4, <1>5, ChecksAlone DEF Next

(* Whoever pins also binds, and whoever unbinds and leaves the pin says so.*)
LEMMA NextKeepsPinBound == PinBound /\ [Next]_vars => PinBound'
<1> SUFFICES ASSUME PinBound, [Next]_vars PROVE PinBound'
  OBVIOUS
<1>1. CASE UNCHANGED egressVars
  BY <1>1 DEF egressVars, PinBound
<1>2. ASSUME NEW tun \in BOOLEAN, NEW found \in Egress, ApplyConfig(tun, found) PROVE PinBound'
  <2>1. CASE WantsEgressPin(tun) /\ found # None
    BY <1>2, <2>1 DEF ApplyConfig, PinBound
  <2>2. CASE ~(WantsEgressPin(tun) /\ found # None)
    <3>1. pin' = pin /\ iface' = None /\ (pin # None => stalePin')
      BY <1>2, <2>2 DEF ApplyConfig
    <3> QED BY <3>1 DEF PinBound
  <2> QED BY <2>1, <2>2
<1>3. ASSUME NEW found \in Egress, EnterListeners(found) PROVE PinBound'
  BY <1>3 DEF EnterListeners, PinEgressNow, BindNow, egressVars, PinBound
<1>4. CASE FinishListeners \/ StopListener
  BY <1>4 DEF FinishListeners, StopListener, ReleaseEgress, PinBound
<1> QED BY <1>1, <1>2, <1>3, <1>4, EgressMoves

(* A TUN that is given no aftershock came up with its sockets bound.       *)
THEOREM SkippedShockIsBound == Spec => []SkippedMeansBound
<1>1. Init => PinBound
  BY InitOpInv
<1>2. PinBound => SkippedMeansBound
  BY DEF PinBound, SkippedMeansBound
<1> QED BY <1>1, <1>2, NextKeepsPinBound, PTL DEF Spec

(* With one interface no pin and binding come to differ.                   *)
LEMMA NextKeepsOnePin ==
    ASSUME \A a, b \in Egress \ {None} : a = b, OpInv, OnePin, [Next]_vars
    PROVE  OnePin'
<1>1. ASSUME UNCHANGED egressVars, ~FinishListeners,
             ~\E tun \in BOOLEAN, found \in Egress : ApplyConfig(tun, found)
      PROVE  OnePin'
  <2>1. op'.at \in ListenersUp /\ isRunning' /\ config' # None =>
            op.at \in ListenersUp /\ isRunning /\ config # None
    <3> USE SettleAssumption DEF ListenersUp, Idle, Begin, Goto, At, OpInv, OpTypeOK
    <3>1. CASE (\E tun \in BOOLEAN : UpdateConfig(tun)) \/ StartListener
      <4>1. op' = [name |-> "update", at |-> "listeners"] \/ op' = [name |-> "start", at |-> "listeners"]
        BY <3>1 DEF UpdateConfig, StartListener
      <4> QED BY <4>1
    <3>2. CASE ApplyBumps \/ ReCreateTun
      BY <3>2 DEF ApplyBumps, ReCreateTun
    <3>3. CASE \E found \in Egress : EnterListeners(found)
      BY <3>3 DEF EnterListeners
    <3>4. CASE ReleaseInner \/ OperationBumps \/ ReleaseOuter \/ StartEnds
      BY <3>4 DEF ReleaseInner, OperationBumps, ReleaseOuter, StartEnds
    <3>5. CASE StopListener \/ Shutdown
      BY <3>5 DEF StopListener, Shutdown, TakeDown
    <3>6. CASE UNCHANGED opVars
      BY <3>6 DEF opVars
    <3> QED BY <1>1, <3>1, <3>2, <3>3, <3>4, <3>5, <3>6, ChecksAlone
            DEF Next, Operating, Aftershock, StartTimerFires, StartLimitPassed, OthersUnchanged, vars
  <2> QED BY <1>1, <2>1 DEF egressVars, OnePin
<1>2. ASSUME NEW tun \in BOOLEAN, NEW found \in Egress, ApplyConfig(tun, found) PROVE OnePin'
  BY <1>2 DEF ApplyConfig, Begin, ListenersUp, OnePin
<1>3. ASSUME NEW found \in Egress, EnterListeners(found) PROVE OnePin'
  BY <1>3 DEF EnterListeners, PinEgressNow, BindNow, egressVars, At, Goto, OpInv, OpTypeOK, ListenersUp, OnePin
<1>4. CASE FinishListeners \/ StopListener
  BY <1>4 DEF FinishListeners, StopListener, ReleaseEgress, OnePin
<1> QED BY <1>1, <1>2, <1>3, <1>4, EgressMoves

(* With one interface to find nothing stays pinned: where two are, a       *)
(* binding of one survives the release of the other.                       *)
THEOREM PinIsReleased ==
    ASSUME \A a, b \in Egress \ {None} : a = b
    PROVE  Spec => []PinReleased
<1>1. OpInv /\ OnePin /\ [Next]_vars => OpInv' /\ OnePin'
  BY NextKeepsOpInv, NextKeepsOnePin
<1>2. OpInv /\ OnePin => PinReleased
  BY DEF OpInv, OnePin, ListenersUp, PinReleased
<1> QED BY <1>1, <1>2, InitOpInv, PTL DEF Spec

-----------------------------------------------------------------------------
(* The holds.  No holder is left when and only when no aftershock pends    *)
(* and the operation holds nothing.                                        *)
LEMMA CountedShocks ==
    ASSUME HoldsCounted
    PROVE  /\ Cardinality(shocks) \in Nat /\ (Cardinality(shocks) = 0 <=> shocks = {})
           /\ Held(outer) \in {0, 1} /\ Held(inner) \in {0, 1}
           /\ holders \in Nat
<1>1. Cardinality(shocks) \in Nat /\ (Cardinality(shocks) = 0 <=> shocks = {})
  BY FS_CardinalityType, FS_EmptySet DEF HoldsCounted
<1>2. Held(outer) \in {0, 1} /\ Held(inner) \in {0, 1}
  BY DEF Held
<1> QED BY <1>1, <1>2 DEF HoldsCounted

(* A hold that is taken opens a channel of its own if it is the first.     *)
LEMMA HoldKeepsChans ==
    ASSUME HoldsCounted, ChansApart, NEW n \in {0, 1}, HoldTunSettle(n),
           UNCHANGED <<check, startDone>>
    PROVE  ChansApart' /\ holders' = holders + n /\ (done' = None <=> holders' = 0)
<1> USE SettleAssumption
<1>1. holders \in Nat /\ chans \in Nat /\ (done = None <=> holders = 0)
  BY CountedShocks DEF HoldsCounted, ChansApart
<1>2. CASE holders = 0 /\ n > 0
  <2>1. chans' = chans + 1 /\ done' = chans + 1 /\ closed' = closed /\ holders' = 1
    BY <1>1, <1>2 DEF HoldTunSettle
  <2> QED BY <1>1, <1>2, <2>1 DEF ChansApart
<1>3. CASE ~(holders = 0 /\ n > 0)
  <2>1. UNCHANGED <<chans, done, closed>> /\ holders' = holders + n
    BY <1>3 DEF HoldTunSettle
  <2> QED BY <1>1, <1>3, <2>1 DEF ChansApart
<1> QED BY <1>2, <1>3

(* The last holder of all closes the channel.                              *)
LEMMA ReleaseKeepsChans ==
    ASSUME HoldsCounted, ChansApart, NEW held \in BOOLEAN, Release(held),
           held => holders > 0,
           UNCHANGED <<check, startDone>>
    PROVE  ChansApart' /\ holders' = holders - Held(held) /\ (done' = None <=> holders' = 0)
<1> USE SettleAssumption
<1>1. holders \in Nat /\ chans \in Nat /\ (done = None <=> holders = 0)
  BY CountedShocks DEF HoldsCounted, ChansApart
<1>2. CASE held /\ holders = 1
  <2>1. done' = None /\ chans' = chans /\ holders' = 0 /\ closed' = closed \cup {done}
    BY <1>2 DEF Release, ReleaseTunSettle, LastHolder, Close, chanVars
  <2>2. done \in 1..chans /\ done # startDone
    BY <1>1, <1>2 DEF ChansApart
  <2> QED BY <1>1, <1>2, <2>1, <2>2 DEF ChansApart, Held
<1>3. CASE ~(held /\ holders = 1)
  <2>1. UNCHANGED <<chans, done, closed>> /\ holders' = holders - Held(held)
    BY <1>1, <1>3 DEF Release, ReleaseTunSettle, LastHolder, chanVars, Held
  <2> QED BY <1>1, <1>3, <2>1 DEF ChansApart, Held
<1> QED BY <1>2, <1>3

(* The channel of a start is never one that a check awaits as a toggle's.  *)
LEMMA StartKeepsChans ==
    ASSUME ChansApart, HoldForTunStart \/ \E b \in BOOLEAN : EndTunStart(b), UNCHANGED <<check, done>>
    PROVE  ChansApart'
<1> USE SettleAssumption
<1>1. CASE startDone = None /\ HoldForTunStart
  <2>1. chans' = chans + 1 /\ startDone' = chans + 1 /\ closed' = closed
    BY <1>1 DEF HoldForTunStart
  <2> QED BY <2>1 DEF ChansApart
<1>2. CASE startDone # None /\ \E b \in BOOLEAN : EndTunStart(b)
  <2>1. chans' = chans /\ startDone' = None /\ closed' = closed \cup {startDone}
    BY <1>2 DEF EndTunStart, Close
  <2> QED BY <1>2, <2>1 DEF ChansApart
<1>3. CASE (startDone = None /\ \E b \in BOOLEAN : EndTunStart(b)) \/ (startDone # None /\ HoldForTunStart)
  <2>1. UNCHANGED <<chans, startDone, closed>>
    BY <1>3 DEF EndTunStart, HoldForTunStart
  <2> QED BY <2>1 DEF ChansApart
<1> QED BY <1>1, <1>2, <1>3

(* What a step of a check leaves behind.                                   *)
LEMMA CheckStep ==
    ASSUME OpInv, CheckTypeOK, ChansApart, NEW c \in Checks,
           (\E direct \in BOOLEAN : LookAtToggle(c, direct)) \/ Checking(c) \/ LimitPassed(c) \/ AskAgain(c)
    PROVE  /\ CheckTypeOK'
           /\ \A d \in Checks \ {c} : check'[d] = check[d]
           /\ check'[c].toggle \in {check[c].toggle, done, None}
           /\ check'[c].at = "onToggle" => check'[c].toggle # None
           /\ \/ check'[c].at \notin {"stamped", "answered"}
              \/ check'[c].at = "stamped" /\ check'[c].stamp = epoch
              \/ /\ check[c].at = "stamped" /\ check'[c].stamp = check[c].stamp
                 /\ check'[c].gen = gen
<1>1. PICK r : Step(c, r) /\ r \in CheckRecords
               /\ r.toggle \in {check[c].toggle, done, None}
               /\ (r.at = "onToggle" => r.toggle # None)
               /\ \/ r.at \notin {"stamped", "answered"}
                  \/ r.at = "stamped" /\ r.stamp = epoch
                  \/ check[c].at = "stamped" /\ r.stamp = check[c].stamp /\ r.gen = gen
  <2>1. check[c] \in CheckRecords /\ done \in Nat \cup {None} /\ startDone \in Nat \cup {None}
    BY DEF CheckTypeOK, ChansApart
  <2>2. check[c].at = "onToggle" => check[c].toggle # None
    BY DEF ChansApart
  <2>3. epoch \in Nat /\ gen \in Nat
    BY DEF OpInv, OpTypeOK
  <2> HIDE DEF CheckTypeOK, ChansApart, OpInv
  <2>4. CASE \E direct \in BOOLEAN : LookAtToggle(c, direct)
    <3>1. PICK direct \in BOOLEAN : LookAtToggle(c, direct)
      BY <2>4
    <3> DEFINE r == [NoCheck EXCEPT !.at = "look", !.direct = direct, !.toggle = done]
    <3>2. Step(c, r)
      BY <3>1 DEF LookAtToggle
    <3>3. r \in CheckRecords /\ r.toggle = done /\ r.at = "look"
      BY <2>1 DEF CheckRecords, NoCheck
    <3> QED BY <3>2, <3>3
  <2>5. CASE LookAtStart(c)
    <3> DEFINE start == IF check[c].direct THEN None ELSE startDone
               r == [check[c] EXCEPT !.start = start,
                        !.at = IF start # None THEN "onStart" ELSE IF check[c].toggle # None THEN "onToggle" ELSE "go"]
    <3>1. Step(c, r)
      BY <2>5 DEF LookAtStart
    <3>2. start \in Nat \cup {None}
      BY <2>1
    <3> HIDE DEF start
    <3>3. r \in CheckRecords /\ r.toggle = check[c].toggle /\ (r.at = "onToggle" => r.toggle # None)
          /\ r.at \notin {"stamped", "answered"}
      BY <2>1, <3>2 DEF CheckRecords
    <3> QED BY <3>1, <3>3
  <2>6. CASE StartWasEnded(c)
    <3> DEFINE r == [check[c] EXCEPT !.toggle = done, !.at = IF done = None THEN "go" ELSE "onToggle"]
    <3>1. Step(c, r)
      BY <2>6 DEF StartWasEnded, ToggleAfterStart
    <3>2. r \in CheckRecords /\ r.toggle = done /\ (r.at = "onToggle" => r.toggle # None)
          /\ r.at \notin {"stamped", "answered"}
      BY <2>1 DEF CheckRecords
    <3> QED BY <3>1, <3>2
  <2>7. CASE ToggleSettled(c) \/ LimitPassed(c)
    <3> DEFINE r == [check[c] EXCEPT !.at = "go"]
    <3>1. Step(c, r)
      BY <2>7 DEF ToggleSettled, LimitPassed
    <3>2. r \in CheckRecords /\ r.toggle = check[c].toggle /\ r.at = "go"
      BY <2>1 DEF CheckRecords
    <3> QED BY <3>1, <3>2
  <2>8. CASE Stamp(c)
    <3> DEFINE r == [check[c] EXCEPT !.at = "stamped", !.stamp = epoch]
    <3>1. Step(c, r)
      BY <2>8 DEF Stamp
    <3>2. r \in CheckRecords /\ r.toggle = check[c].toggle /\ r.at = "stamped" /\ r.stamp = epoch
      BY <2>1, <2>3 DEF CheckRecords
    <3> QED BY <3>1, <3>2
  <2>9. CASE Dial(c)
    <3> DEFINE r == [check[c] EXCEPT !.at = "answered", !.gen = gen]
    <3>1. Step(c, r) /\ check[c].at = "stamped"
      BY <2>9 DEF Dial
    <3>2. r \in CheckRecords /\ r.toggle = check[c].toggle /\ r.at = "answered"
          /\ r.stamp = check[c].stamp /\ r.gen = gen
      BY <2>1, <2>3 DEF CheckRecords
    <3> QED BY <3>1, <3>2
  <2>10. CASE AskAgain(c)
    <3>1. Step(c, NoCheck) /\ NoCheck \in CheckRecords /\ NoCheck.toggle = None /\ NoCheck.at = "idle"
      BY <2>10 DEF AskAgain, NoCheck, CheckRecords
    <3> QED BY <3>1
  <2> QED BY <2>4, <2>5, <2>6, <2>7, <2>8, <2>9, <2>10 DEF Checking
<1>2. check' = [check EXCEPT ![c] = r] /\ check'[c] = r /\ check \in [Checks -> CheckRecords]
  BY <1>1 DEF Step, CheckTypeOK
<1> QED BY <1>1, <1>2 DEF CheckTypeOK

(* The steps of an operation under which its holds come and go.            *)
LEMMA HoldersKeepHoldInv ==
    ASSUME OpInv, HoldInv,
           \/ \E tun \in BOOLEAN, found \in Egress : ApplyConfig(tun, found)
           \/ StartListener
           \/ \E found \in Egress : EnterListeners(found)
           \/ FinishListeners \/ ReleaseInner \/ ReleaseOuter
    PROVE  HoldInv'
<1>1. /\ HoldsCounted /\ ChansApart /\ CheckTypeOK
      /\ outer \in BOOLEAN /\ inner \in BOOLEAN
      /\ holders = Cardinality(shocks) + Held(outer) + Held(inner)
      /\ done = None <=> holders = 0
  BY DEF HoldInv, HoldsCounted, OpInv, OpTypeOK
<1>2. /\ Cardinality(shocks) \in Nat /\ (Cardinality(shocks) = 0 <=> shocks = {})
      /\ holders \in Nat
  BY <1>1, CountedShocks
<1>3. UNCHANGED checkVars
  BY DEF ApplyConfig, StartListener, EnterListeners, FinishListeners, ReleaseInner, ReleaseOuter
<1>4. CheckTypeOK' /\ UNCHANGED check
  BY <1>1, <1>3 DEF checkVars, CheckTypeOK
<1>5. ASSUME UNCHANGED <<shocks, shocked>>, ChansApart', done' = None <=> holders' = 0,
             holders' \in Nat,
             holders' - holders = (Held(outer') - Held(outer)) + (Held(inner') - Held(inner))
      PROVE  HoldInv'
  <2>1. /\ shocked' \in Nat /\ IsFiniteSet(shocks') /\ shocks' \subseteq 1..shocked'
        /\ Cardinality(shocks') = Cardinality(shocks)
    BY <1>1, <1>5 DEF HoldsCounted
  <2>2. /\ Held(outer') \in Nat /\ Held(inner') \in Nat /\ Held(outer) \in Nat /\ Held(inner) \in Nat
    BY DEF Held
  <2>3. holders' \in Nat
    BY <1>5
  <2>4. holders' = Cardinality(shocks') + Held(outer') + Held(inner')
    BY <1>1, <1>2, <1>5, <2>1, <2>2, <2>3
  <2> QED BY <1>4, <1>5, <2>1, <2>4 DEF HoldInv, HoldsCounted
<1>6. ASSUME NEW tun \in BOOLEAN, NEW found \in Egress, ApplyConfig(tun, found)
      PROVE  HoldInv'
  <2>1. /\ UNCHANGED <<shocks, shocked, inner>> /\ outer = FALSE
        /\ outer' = (isRunning /\ tun # tunEnabled)
    BY <1>6 DEF ApplyConfig, Begin, Idle, OpInv, TunWillToggle
  <2>2. CASE isRunning
    <3> DEFINE n == IF outer' THEN 1 ELSE 0
    <3>1. HoldTunSettle(n) /\ UNCHANGED startDone /\ n \in {0, 1}
      BY <1>6, <2>1, <2>2 DEF ApplyConfig, TunWillToggle, startVars
    <3>2. ChansApart' /\ holders' = holders + n /\ (done' = None <=> holders' = 0)
      BY <1>1, <1>4, <3>1, HoldKeepsChans
    <3> QED BY <1>2, <1>5, <2>1, <3>2 DEF Held
  <2>3. CASE ~isRunning
    <3>1. UNCHANGED <<holders, done>> /\ outer' = FALSE
      BY <1>6, <2>1, <2>3 DEF ApplyConfig
    <3>2. HoldForTunStart \/ UNCHANGED <<startDone, chanVars>>
      BY <1>6, <2>3 DEF ApplyConfig, startVars
    <3>3. ChansApart'
      BY <1>1, <1>4, <3>1, <3>2, StartKeepsChans DEF ChansApart, chanVars
    <3> QED BY <1>1, <1>2, <1>5, <2>1, <3>1, <3>3 DEF Held
  <2> QED BY <2>2, <2>3
<1>7. CASE StartListener
  <2> DEFINE n == IF outer' THEN 1 ELSE 0
  <2>1. /\ UNCHANGED <<shocks, shocked, inner, startDone>> /\ outer = FALSE
        /\ HoldTunSettle(n) /\ n \in {0, 1}
    <3>1. op.at = "idle"
      BY <1>7 DEF StartListener, Begin, Idle
    <3> QED BY <1>1, <1>7, <3>1 DEF StartListener, OpInv, startVars
  <2>2. ChansApart' /\ holders' = holders + n /\ (done' = None <=> holders' = 0)
    BY <1>1, <1>4, <2>1, HoldKeepsChans
  <2> QED BY <1>2, <1>5, <2>1, <2>2 DEF Held
<1>8. ASSUME NEW found \in Egress, EnterListeners(found)
      PROVE  HoldInv'
  <2>1. UNCHANGED <<shocks, shocked, outer, startDone>> /\ inner = FALSE
    BY <1>8 DEF EnterListeners, At, OpInv, startVars
  <2>2. CASE config = None \/ ~isRunning
    <3>1. UNCHANGED <<inner, holders, done, chans, closed>>
      BY <1>8, <2>2 DEF EnterListeners, chanVars
    <3>2. ChansApart'
      BY <1>1, <1>4, <2>1, <3>1 DEF ChansApart
    <3> QED BY <1>1, <1>2, <1>5, <2>1, <3>1, <3>2 DEF Held
  <2>3. CASE ~(config = None \/ ~isRunning)
    <3> DEFINE n == IF inner' THEN 1 ELSE 0
    <3>1. HoldTunSettle(n) /\ n \in {0, 1}
      BY <1>8, <2>3 DEF EnterListeners
    <3>2. ChansApart' /\ holders' = holders + n /\ (done' = None <=> holders' = 0)
      BY <1>1, <1>4, <2>1, <3>1, HoldKeepsChans
    <3> QED BY <1>2, <1>5, <2>1, <3>2 DEF Held
  <2> QED BY <2>2, <2>3
<1>9. CASE FinishListeners
  <2>1. UNCHANGED <<outer, inner, startDone>>
    BY <1>9 DEF FinishListeners, startVars
  <2>2. CASE ScheduleAftershock
    <3>1. /\ HoldTunSettle(1) /\ shocks' = shocks \cup {shocked + 1} /\ shocked' = shocked + 1
          /\ shocked \in Nat /\ shocks \subseteq 1..shocked /\ IsFiniteSet(shocks)
      BY <1>1, <2>2 DEF ScheduleAftershock, HoldsCounted
    <3>2. ChansApart' /\ holders' = holders + 1 /\ (done' = None <=> holders' = 0)
      BY <1>1, <1>4, <2>1, <3>1, HoldKeepsChans
    <3>3. shocked + 1 \notin shocks /\ shocks' \subseteq 1..shocked' /\ shocked' \in Nat
      BY <3>1
    <3>4. IsFiniteSet(shocks') /\ Cardinality(shocks') = Cardinality(shocks) + 1
      BY <3>1, <3>3, FS_AddElement
    <3>5. Held(outer') = Held(outer) /\ Held(inner') = Held(inner) /\ Held(outer) \in Nat /\ Held(inner) \in Nat
      BY <2>1 DEF Held
    <3>6. holders' = Cardinality(shocks') + Held(outer') + Held(inner')
      BY <1>1, <1>2, <3>2, <3>4, <3>5
    <3> QED BY <1>4, <3>2, <3>3, <3>4, <3>6 DEF HoldInv, HoldsCounted
  <2>3. CASE UNCHANGED <<shocks, shocked, holders, done, chanVars>>
    BY <1>1, <1>4, <2>1, <2>3 DEF HoldInv, HoldsCounted, ChansApart, chanVars
  <2> QED BY <1>9, <2>2, <2>3 DEF FinishListeners
<1>10. CASE ReleaseInner
  <2>1. UNCHANGED <<shocks, shocked, outer, startDone>> /\ inner' = FALSE /\ Release(inner)
    BY <1>10 DEF ReleaseInner, startVars
  <2>2. inner => holders > 0
    BY <1>1, <1>2 DEF Held
  <2>3. ChansApart' /\ holders' = holders - Held(inner) /\ (done' = None <=> holders' = 0)
    BY <1>1, <1>4, <2>1, <2>2, ReleaseKeepsChans
  <2> QED BY <1>1, <1>2, <1>5, <2>1, <2>3 DEF Held
<1>11. CASE ReleaseOuter
  <2>1. UNCHANGED <<shocks, shocked, inner, startDone>> /\ outer' = FALSE /\ Release(outer)
    BY <1>11 DEF ReleaseOuter, startVars
  <2>2. outer => holders > 0
    BY <1>1, <1>2 DEF Held
  <2>3. ChansApart' /\ holders' = holders - Held(outer) /\ (done' = None <=> holders' = 0)
    BY <1>1, <1>4, <2>1, <2>2, ReleaseKeepsChans
  <2> QED BY <1>1, <1>2, <1>5, <2>1, <2>3 DEF Held
<1> QED BY <1>6, <1>7, <1>8, <1>9, <1>10, <1>11

(* An aftershock lets its own hold go and closes the channel if no other   *)
(* is left.                                                                *)
LEMMA AftershockKeepsHoldInv ==
    ASSUME OpInv, HoldInv, NEW s \in shocks, Aftershock(s)
    PROVE  HoldInv'
<1> USE SettleAssumption
<1>1. /\ HoldsCounted /\ ChansApart /\ CheckTypeOK
      /\ holders = Cardinality(shocks) + Held(outer) + Held(inner)
      /\ done = None <=> holders = 0
      /\ shocked \in Nat /\ IsFiniteSet(shocks) /\ shocks \subseteq 1..shocked
      /\ chans \in Nat
  BY DEF HoldInv, HoldsCounted, ChansApart
<1>2. /\ Cardinality(shocks) \in Nat /\ (Cardinality(shocks) = 0 <=> shocks = {})
      /\ holders \in Nat /\ Held(outer) \in Nat /\ Held(inner) \in Nat
  BY <1>1, CountedShocks
<1>3. IsFiniteSet(shocks \ {s}) /\ Cardinality(shocks \ {s}) = Cardinality(shocks) - 1
  BY <1>1, FS_RemoveElement
<1>5. /\ UNCHANGED <<outer, inner, shocked, startDone, chans, check>>
      /\ shocks' = shocks \ {s} /\ holders' = holders - 1
  BY DEF Aftershock, startVars, checkVars
<1>6. CheckTypeOK'
  BY <1>1, <1>5 DEF CheckTypeOK
<1>7. holders > 0 /\ holders' \in Nat /\ holders' = Cardinality(shocks') + Held(outer') + Held(inner')
  BY <1>1, <1>2, <1>3, <1>5
<1>8. ChansApart' /\ (done' = None <=> holders' = 0)
  <2>1. CASE holders = 1
    <3>2. done' = None /\ closed' = closed \cup {done}
      BY <2>1 DEF Aftershock, LastHolder, Close
    <3>3. done \in 1..chans /\ done # startDone
      BY <1>1, <2>1 DEF ChansApart
    <3> QED BY <1>1, <1>5, <2>1, <3>2, <3>3 DEF ChansApart
  <2>2. CASE holders # 1
    <3>1. UNCHANGED <<done, closed>>
      BY <2>2 DEF Aftershock, LastHolder
    <3>2. holders' # 0 /\ done' # None
      BY <1>1, <1>2, <1>5, <1>7, <2>2, <3>1
    <3>3. ChansApart'
      BY <1>1, <1>5, <3>1 DEF ChansApart
    <3> QED BY <3>2, <3>3
  <2> QED BY <2>1, <2>2
<1>9. shocked' \in Nat /\ IsFiniteSet(shocks') /\ shocks' \subseteq 1..shocked'
  BY <1>1, <1>3, <1>5
<1> QED BY <1>6, <1>7, <1>8, <1>9 DEF HoldInv, HoldsCounted

(* A check awaits the channel of a toggle that it found open.              *)
LEMMA ChecksKeepHoldInv ==
    ASSUME OpInv, HoldInv, NEW c \in Checks,
           (\E direct \in BOOLEAN : LookAtToggle(c, direct)) \/ Checking(c) \/ LimitPassed(c) \/ AskAgain(c)
    PROVE  HoldInv'
<1>1. /\ HoldsCounted /\ ChansApart /\ CheckTypeOK
      /\ done = None <=> holders = 0
      /\ holders = Cardinality(shocks) + Held(outer) + Held(inner)
  BY DEF HoldInv, HoldsCounted
<1>2. /\ CheckTypeOK'
      /\ \A d \in Checks \ {c} : check'[d] = check[d]
      /\ check'[c].toggle \in {check[c].toggle, done, None}
      /\ check'[c].at = "onToggle" => check'[c].toggle # None
  BY <1>1, CheckStep
<1>3. UNCHANGED <<outer, inner, holders, done, shocks, shocked, startDone, chans, closed>>
  BY ChecksAlone DEF OthersUnchanged, settleVars, startVars, chanVars
<1>4. HoldsCounted'
  BY <1>1, <1>3 DEF HoldsCounted, Held
<1>5. ChansApart'
  <2>1. ASSUME NEW d \in Checks
        PROVE  /\ check'[d].toggle # None =>
                   /\ check'[d].toggle \in 1..chans /\ check'[d].toggle # startDone
                   /\ check'[d].toggle # done => check'[d].toggle \in closed
               /\ check'[d].at = "onToggle" => check'[d].toggle # None
    BY <1>1, <1>2, <2>1 DEF ChansApart
  <2> QED BY <1>1, <1>3, <2>1 DEF ChansApart
<1> QED BY <1>2, <1>4, <1>5 DEF HoldInv

(* Every step keeps the account of the holds.                              *)
LEMMA NextKeepsHoldInv == OpInv /\ HoldInv /\ [Next]_vars => HoldInv'
<1> SUFFICES ASSUME OpInv, HoldInv, [Next]_vars PROVE HoldInv'
  OBVIOUS
<1>1. CASE \/ \E tun \in BOOLEAN, found \in Egress : ApplyConfig(tun, found)
           \/ StartListener
           \/ \E found \in Egress : EnterListeners(found)
           \/ FinishListeners \/ ReleaseInner \/ ReleaseOuter
  BY <1>1, HoldersKeepHoldInv
<1>2. CASE \E s \in shocks : Aftershock(s)
  BY <1>2, AftershockKeepsHoldInv
<1>3. CASE (\E b \in BOOLEAN : EndTunStart(b)) /\ UNCHANGED <<settleVars, checkVars>>
  <2>1. UNCHANGED <<outer, inner, holders, done, shocks, shocked, check>>
    BY <1>3 DEF settleVars, checkVars
  <2>2. ChansApart'
    BY <1>3, <2>1, StartKeepsChans DEF HoldInv
  <2> QED BY <2>1, <2>2 DEF HoldInv, HoldsCounted, Held, CheckTypeOK
<1>4. CASE UNCHANGED <<settleVars, startDone, chanVars, checkVars>>
  <2>1. UNCHANGED <<outer, inner, holders, done, shocks, shocked, startDone, chans, closed, check>>
    BY <1>4 DEF settleVars, chanVars, checkVars
  <2> QED BY <2>1 DEF HoldInv, HoldsCounted, ChansApart, Held, CheckTypeOK
<1>5. ASSUME NEW c \in Checks,
             (\E direct \in BOOLEAN : LookAtToggle(c, direct)) \/ Checking(c) \/ LimitPassed(c) \/ AskAgain(c)
      PROVE  HoldInv'
  BY <1>5, ChecksKeepHoldInv
<1>6. CASE StartEnds \/ StopListener \/ Shutdown \/ \E t \in fired : StartLimitPassed(t)
  BY <1>3, <1>6 DEF StartEnds, StopListener, Shutdown, TakeDown, StartLimitPassed, Stale
<1>7. CASE \/ \E tun \in BOOLEAN : UpdateConfig(tun)
           \/ ApplyBumps \/ ReCreateTun \/ OperationBumps \/ (\E t \in armed : StartTimerFires(t)) \/ UNCHANGED vars
  BY <1>4, <1>7 DEF UpdateConfig, ApplyBumps, ReCreateTun, OperationBumps, StartTimerFires, vars, startVars
<1> QED BY <1>1, <1>2, <1>5, <1>6, <1>7 DEF Next, Operating

-----------------------------------------------------------------------------
(* A hold of a start begins with a timer of its own; what has fired by     *)
(* then cannot be stopped, and of the others none runs on.                 *)
LEMMA NextKeepsTimers == ChansApart /\ TimersApart /\ [Next]_vars => TimersApart'
<1> SUFFICES ASSUME ChansApart, TimersApart, [Next]_vars PROVE TimersApart'
  OBVIOUS
<1> USE SettleAssumption DEF TimersApart
<1>1. CASE UNCHANGED startVars
  BY <1>1 DEF startVars
<1>2. CASE HoldForTunStart
  <2>1. chans + 1 # None /\ timers + 1 \in Nat /\ timers + 1 # None
    BY DEF ChansApart
  <2>2. startDone' # None /\ timer' = timers + 1 /\ timers' = timers + 1 /\ fired' = fired /\ raced' = fired
    BY <1>2, <2>1 DEF HoldForTunStart
  <2>3. armed' = {timers + 1}
    BY <1>2 DEF HoldForTunStart, StopTimer
  <2> QED BY <2>1, <2>2, <2>3
<1>3. CASE (\E b \in BOOLEAN : EndTunStart(b)) /\ fired' \subseteq fired /\ timers' = timers
  BY <1>3 DEF EndTunStart, StopTimer
<1>4. ASSUME NEW t \in armed, StartTimerFires(t) PROVE TimersApart'
  BY <1>4 DEF StartTimerFires
<1>5. ASSUME NEW tun \in BOOLEAN, NEW found \in Egress, ApplyConfig(tun, found) PROVE TimersApart'
  BY <1>1, <1>2, <1>5 DEF ApplyConfig
<1>6. CASE (\E tun \in BOOLEAN : UpdateConfig(tun)) \/ StartListener
  BY <1>1, <1>6 DEF UpdateConfig, StartListener
<1>7. CASE Operating
  BY <1>1, <1>3, <1>7 DEF Operating, ApplyBumps, EnterListeners, ReCreateTun, FinishListeners, ReleaseInner,
                          OperationBumps, ReleaseOuter, StartEnds
<1>8. CASE StopListener \/ Shutdown
  BY <1>3, <1>8 DEF StopListener, Shutdown, TakeDown
<1>9. ASSUME NEW t \in fired, StartLimitPassed(t) PROVE TimersApart'
  BY <1>3, <1>9 DEF StartLimitPassed, Stale
<1>10. CASE (\E s \in shocks : Aftershock(s)) \/ OthersUnchanged \/ UNCHANGED vars
  BY <1>1, <1>10 DEF Aftershock, OthersUnchanged, vars
<1> QED BY <1>4, <1>5, <1>6, <1>7, <1>8, <1>9, <1>10, ChecksAlone DEF Next

(* An operation takes its hold with its first step, an update with its     *)
(* listeners, and keeps it until its resets are done.                      *)
LEMMA NextKeepsPending == OpInv /\ PendingIsHeld /\ [Next]_vars => PendingIsHeld'
<1> SUFFICES ASSUME OpInv, PendingIsHeld, [Next]_vars PROVE PendingIsHeld'
  OBVIOUS
<1> USE SettleAssumption DEF Begin, Goto, At, Idle, OpPlaces, OpInv, OpTypeOK, ResetPending, PendingIsHeld
<1>1. ASSUME NEW tun \in BOOLEAN, NEW found \in Egress, ApplyConfig(tun, found) PROVE PendingIsHeld'
  BY <1>1 DEF ApplyConfig, TunWillToggle
<1>2. CASE \E tun \in BOOLEAN : UpdateConfig(tun)
  BY <1>2 DEF UpdateConfig
<1>3. CASE StartListener
  BY <1>3 DEF StartListener, TunWillToggle
<1>4. CASE \E found \in Egress : EnterListeners(found)
  BY <1>4 DEF EnterListeners, TunWillToggle
<1>5. CASE FinishListeners
  BY <1>5 DEF FinishListeners
<1>6. CASE ApplyBumps \/ ReCreateTun \/ ReleaseInner \/ OperationBumps
  BY <1>6 DEF ApplyBumps, ReCreateTun, ReleaseInner, OperationBumps, settleVars
<1>7. CASE ReleaseOuter
  BY <1>7 DEF ReleaseOuter
<1>8. CASE StartEnds \/ StopListener \/ Shutdown
  <2>1. op' = Idle /\ outer' = outer
    BY <1>8 DEF StartEnds, StopListener, Shutdown, TakeDown, settleVars
  <2> QED BY <2>1
<1>9. CASE UNCHANGED <<opVars, outer, inner>>
  BY <1>9 DEF opVars
<1>10. CASE \/ \E s \in shocks : Aftershock(s)
            \/ \E t \in armed : StartTimerFires(t)
            \/ \E t \in fired : StartLimitPassed(t)
            \/ OthersUnchanged \/ UNCHANGED vars
  BY <1>9, <1>10 DEF Aftershock, StartTimerFires, StartLimitPassed, OthersUnchanged, vars, settleVars
<1> QED BY <1>1, <1>2, <1>3, <1>4, <1>5, <1>6, <1>7, <1>8, <1>10, ChecksAlone DEF Next, Operating

(* With no holder left nothing pends.                                      *)
LEMMA FreeMeansDone ==
    ASSUME HoldsCounted, PendingIsHeld, holders = 0
    PROVE  ~ResetPending /\ shocks = {}
  BY CountedShocks DEF HoldsCounted, PendingIsHeld, Held

(* The last hold of an operation goes with nothing pending.                *)
LEMMA LastHoldIsLast ==
    ASSUME OpInv, HoldsCounted, PendingIsHeld, ReleaseInner \/ ReleaseOuter, holders = 1,
           ReleaseInner => inner, ReleaseOuter => outer
    PROVE  ~ResetPending /\ shocks = {}
<1>1. /\ outer \in BOOLEAN /\ inner \in BOOLEAN
      /\ Cardinality(shocks) \in Nat /\ (Cardinality(shocks) = 0 <=> shocks = {})
      /\ holders = Cardinality(shocks) + Held(outer) + Held(inner)
  BY CountedShocks DEF OpInv, OpTypeOK, HoldsCounted
<1>2. shocks = {} /\ (ReleaseInner => ~outer)
  BY <1>1 DEF Held
<1>3. ~ResetPending
  BY <1>2 DEF ReleaseInner, ReleaseOuter, At, ResetPending
<1> QED BY <1>2, <1>3

(* No channel closes before what it stands for is over.                    *)
LEMMA NextClosesInTime ==
    ASSUME OpInv, HoldsCounted, ChansApart, EarlyInv, [Next]_vars
    PROVE  early' = {}
<1> USE SettleAssumption
<1>1. early = {} /\ holders \in Nat
  BY CountedShocks DEF EarlyInv, NothingEarly
<1>2. CASE UNCHANGED early
  BY <1>1, <1>2
<1>3. ASSUME NEW n \in {0, 1}, HoldTunSettle(n) PROVE early' = {}
  BY <1>1, <1>3 DEF HoldTunSettle
<1>4. CASE HoldForTunStart \/ EndTunStart(FALSE)
  BY <1>1, <1>4 DEF HoldForTunStart, EndTunStart, Close
<1>5. ASSUME NEW tun \in BOOLEAN, NEW found \in Egress, ApplyConfig(tun, found) PROVE early' = {}
  BY <1>1, <1>3, <1>4, <1>5 DEF ApplyConfig, chanVars
<1>6. CASE (\E tun \in BOOLEAN : UpdateConfig(tun)) \/ StartListener
  BY <1>1, <1>3, <1>6 DEF UpdateConfig, StartListener, chanVars
<1>7. CASE \E found \in Egress : EnterListeners(found)
  BY <1>1, <1>3, <1>7 DEF EnterListeners, chanVars
<1>8. CASE FinishListeners
  BY <1>1, <1>3, <1>8 DEF FinishListeners, ScheduleAftershock, chanVars
<1>9. CASE ApplyBumps \/ ReCreateTun \/ OperationBumps
  BY <1>1, <1>9 DEF ApplyBumps, ReCreateTun, OperationBumps, chanVars
<1>10. CASE ReleaseInner
  <2>1. CASE inner /\ holders = 1
    <3>1. ~ResetPending /\ shocks = {}
      BY <1>10, <2>1, LastHoldIsLast DEF EarlyInv, ReleaseInner, ReleaseOuter, At
    <3> QED BY <1>1, <1>10, <2>1, <3>1 DEF ReleaseInner, Release, ReleaseTunSettle, LastHolder, Close
  <2>2. CASE ~(inner /\ holders = 1)
    BY <1>1, <1>10, <2>2 DEF ReleaseInner, Release, ReleaseTunSettle, LastHolder, chanVars
  <2> QED BY <2>1, <2>2
<1>11. CASE ReleaseOuter
  <2>1. CASE outer /\ holders = 1
    <3>1. ~ResetPending /\ shocks = {}
      BY <1>11, <2>1, LastHoldIsLast DEF EarlyInv, ReleaseInner, ReleaseOuter, At
    <3> QED BY <1>1, <1>11, <2>1, <3>1 DEF ReleaseOuter, Release, ReleaseTunSettle, LastHolder, Close
  <2>2. CASE ~(outer /\ holders = 1)
    BY <1>1, <1>11, <2>2 DEF ReleaseOuter, Release, ReleaseTunSettle, LastHolder, chanVars
  <2> QED BY <2>1, <2>2
<1>12. CASE StartEnds \/ StopListener \/ Shutdown
  BY <1>4, <1>12 DEF StartEnds, StopListener, Shutdown, TakeDown
<1>13. ASSUME NEW s \in shocks, Aftershock(s) PROVE early' = {}
  <2>1. CASE holders = 1
    <3>1. Cardinality(shocks \ {s}) = Cardinality(shocks) - 1 /\ IsFiniteSet(shocks \ {s})
      BY <1>13, FS_RemoveElement DEF HoldsCounted
    <3>2. shocks \ {s} = {} /\ ~outer /\ ~inner
      BY <2>1, <3>1, CountedShocks, FS_EmptySet, FS_CardinalityType DEF HoldsCounted, Held, OpInv, OpTypeOK
    <3>3. ~ResetPending /\ shocks = {s}
      BY <1>13, <3>2 DEF EarlyInv, PendingIsHeld
    <3> QED BY <1>1, <1>13, <2>1, <3>3 DEF Aftershock, LastHolder, Close
  <2>2. CASE holders # 1
    BY <1>1, <1>13, <2>2 DEF Aftershock, LastHolder
  <2> QED BY <2>1, <2>2
<1>14. ASSUME NEW t \in fired, StartLimitPassed(t) PROVE early' = {}
  <2>1. CASE startDone = None
    BY <1>1, <1>14, <2>1 DEF StartLimitPassed, EndTunStart
  <2>2. CASE startDone # None
    <3>1. ~Stale(t)
      BY <1>14, <2>2 DEF EarlyInv, TimersApart, Stale
    <3> QED BY <1>1, <1>14, <2>2, <3>1 DEF StartLimitPassed, EndTunStart, Close
  <2> QED BY <2>1, <2>2
<1>15. CASE (\E t \in armed : StartTimerFires(t)) \/ OthersUnchanged \/ UNCHANGED vars
  BY <1>1, <1>15 DEF StartTimerFires, OthersUnchanged, vars, chanVars
<1> QED BY <1>5, <1>6, <1>7, <1>8, <1>9, <1>10, <1>11, <1>12, <1>13, <1>14, <1>15, ChecksAlone DEF Next, Operating

(* Nor does a check leave before: it finds no toggle open only once        *)
(* nothing pends.                                                          *)
LEMMA NextLeavesInTime ==
    ASSUME OpInv, HoldsCounted, EarlyInv, [Next]_vars
    PROVE  ~escaped'
<1> USE SettleAssumption
<1>1. ~escaped /\ early = {} /\ (done = None => holders = 0)
  BY DEF EarlyInv, NothingEarly, HoldsCounted
<1>2. ASSUME NEW c \in Checks, StartWasEnded(c) PROVE ~escaped'
  <2>1. CASE done = None
    <3>1. ~ResetPending /\ shocks = {}
      BY <1>1, <2>1, FreeMeansDone DEF EarlyInv
    <3> QED BY <1>1, <1>2, <3>1 DEF StartWasEnded, Leave
  <2>2. CASE done # None
    BY <1>1, <1>2, <2>2 DEF StartWasEnded, ToggleAfterStart, Leave
  <2> QED BY <2>1, <2>2
<1>3. ASSUME NEW c \in Checks, ToggleSettled(c) PROVE ~escaped'
  BY <1>1, <1>3 DEF ToggleSettled, Leave
<1>4. CASE UNCHANGED escaped
  BY <1>1, <1>4
<1>5. CASE Operating
  BY <1>4, <1>5 DEF Operating, ApplyBumps, EnterListeners, ReCreateTun, FinishListeners, ReleaseInner,
                    OperationBumps, ReleaseOuter, StartEnds, checkVars
<1>6. CASE \/ \E tun \in BOOLEAN, found \in Egress : ApplyConfig(tun, found)
           \/ \E tun \in BOOLEAN : UpdateConfig(tun)
           \/ StartListener \/ StopListener \/ Shutdown
  BY <1>4, <1>6 DEF ApplyConfig, UpdateConfig, StartListener, StopListener, Shutdown, TakeDown, checkVars
<1>7. CASE \/ \E s \in shocks : Aftershock(s)
           \/ \E t \in armed : StartTimerFires(t)
           \/ \E t \in fired : StartLimitPassed(t)
           \/ UNCHANGED vars
  BY <1>4, <1>7 DEF Aftershock, StartTimerFires, StartLimitPassed, vars, checkVars
<1>8. ASSUME NEW c \in Checks,
             (\E direct \in BOOLEAN : LookAtToggle(c, direct)) \/ Checking(c) \/ LimitPassed(c) \/ AskAgain(c)
      PROVE  ~escaped'
  BY <1>2, <1>3, <1>4, <1>8 DEF LookAtToggle, Checking, LookAtStart, Stamp, Dial, LimitPassed, AskAgain
<1> QED BY <1>5, <1>6, <1>7, <1>8 DEF Next

(* A check held for a toggle or a start leaves, short of a limit, only     *)
(* when neither the operation under way nor an aftershock has a reset      *)
(* ahead of it.                                                            *)
THEOREM HeldUntilReset == Spec => []NoEarlyRelease
<1>1. OpInv /\ HoldInv /\ EarlyInv /\ [Next]_vars => OpInv' /\ HoldInv' /\ EarlyInv'
  BY NextKeepsOpInv, NextKeepsHoldInv, NextKeepsTimers, NextKeepsPending, NextClosesInTime, NextLeavesInTime
     DEF HoldInv, EarlyInv, NothingEarly
<1>2. EarlyInv => NoEarlyRelease
  BY DEF EarlyInv, NothingEarly, NoEarlyRelease
<1> QED BY <1>1, <1>2, InitOpInv, PTL DEF Spec

-----------------------------------------------------------------------------
(* A bump makes every stamp an older one.                                  *)
LEMMA BumpKeepsFresh ==
    ASSUME OpInv, Fresh, epoch' = epoch + 1, UNCHANGED check
    PROVE  Fresh'
<1>1. epoch \in Nat
  BY DEF OpInv, OpTypeOK
<1>2. ASSUME NEW c \in Checks, check'[c].at \in {"stamped", "answered"}
      PROVE  check'[c].stamp \in 0..epoch' /\ check'[c].stamp # epoch'
  BY <1>1, <1>2 DEF Fresh
<1> QED BY <1>2 DEF Fresh

(* So long as the answers may be out of date nothing is asked of them, and *)
(* a step that settles nothing and moves nothing leaves them as they are.  *)
LEMMA QuietKeepsFresh ==
    ASSUME Fresh, UNCHANGED <<check, epoch>>,
           Unsettled' \/ (UNCHANGED gen /\ ~Unsettled)
    PROVE  Fresh'
<1>1. ASSUME NEW c \in Checks
      PROVE  /\ check'[c].at \in {"stamped", "answered"} => check'[c].stamp \in 0..epoch'
             /\ ~Unsettled' /\ check'[c].at = "answered" /\ check'[c].stamp = epoch'
                    => check'[c].gen = gen'
  BY <1>1 DEF Fresh
<1> QED BY <1>1 DEF Fresh

(* A check takes the epoch before it dials, so what it dialed over is      *)
(* never older than its stamp.                                             *)
LEMMA ChecksKeepFresh ==
    ASSUME OpInv, Fresh, NEW c \in Checks, OthersUnchanged,
           \A d \in Checks \ {c} : check'[d] = check[d],
           \/ check'[c].at \notin {"stamped", "answered"}
           \/ check'[c].at = "stamped" /\ check'[c].stamp = epoch
           \/ /\ check[c].at = "stamped" /\ check'[c].stamp = check[c].stamp
              /\ check'[c].gen = gen
    PROVE  Fresh'
<1>1. UNCHANGED <<epoch, gen>> /\ Unsettled' = Unsettled /\ epoch \in Nat
  BY DEF OthersUnchanged, routeVars, opVars, Unsettled, OpInv, OpTypeOK
<1>2. ASSUME NEW d \in Checks
      PROVE  /\ check'[d].at \in {"stamped", "answered"} => check'[d].stamp \in 0..epoch'
             /\ ~Unsettled' /\ check'[d].at = "answered" /\ check'[d].stamp = epoch'
                    => check'[d].gen = gen'
  BY <1>1, <1>2 DEF Fresh
<1> QED BY <1>2 DEF Fresh

(* Every step that moves the routes bumps the epoch before it is over.     *)
LEMMA NextKeepsFresh == OpInv /\ HoldInv /\ Fresh /\ [Next]_vars => Fresh'
<1> SUFFICES ASSUME OpInv, HoldInv, Fresh, [Next]_vars PROVE Fresh'
  OBVIOUS
<1> USE SettleAssumption DEF Begin, Goto, At, Idle, checkVars, routeVars
<1>1. CASE (\E tun \in BOOLEAN, found \in Egress : ApplyConfig(tun, found)) \/ \E tun \in BOOLEAN : UpdateConfig(tun)
  <2>1. UNCHANGED <<check, epoch, gen, isRunning>>
    BY <1>1 DEF ApplyConfig, UpdateConfig
  <2>2. op = Idle /\ op'.name # "start" /\ op'.at # "swap"
    <3>1. op' = [name |-> "apply", at |-> "bump"] \/ op' = [name |-> "update", at |-> "listeners"]
      BY <1>1 DEF ApplyConfig, UpdateConfig
    <3>2. op = Idle
      BY <1>1 DEF ApplyConfig, UpdateConfig
    <3> QED BY <3>1, <3>2
  <2>3. Unsettled' \/ ~Unsettled
    BY <2>1, <2>2 DEF Unsettled
  <2> QED BY <2>1, <2>3, QuietKeepsFresh
<1>2. CASE StartListener \/ StopListener \/ Shutdown
  <2>1. UNCHANGED <<check, epoch>>
    BY <1>2 DEF StartListener, StopListener, Shutdown, TakeDown
  <2>2. Unsettled'
    <3>1. CASE StartListener
      <4>1. op' = [name |-> "start", at |-> "listeners"]
        BY <3>1 DEF StartListener
      <4> QED BY <4>1 DEF Unsettled
    <3>2. CASE StopListener \/ Shutdown
      <4>1. isRunning' = FALSE
        BY <3>2 DEF StopListener, Shutdown, TakeDown
      <4> QED BY <4>1 DEF Unsettled
    <3> QED BY <1>2, <3>1, <3>2
  <2> QED BY <2>1, <2>2, QuietKeepsFresh
<1>3. CASE ApplyBumps \/ OperationBumps \/ \E s \in shocks : Aftershock(s)
  BY <1>3, BumpKeepsFresh DEF ApplyBumps, OperationBumps, Aftershock
<1>4. ASSUME NEW found \in Egress, EnterListeners(found) PROVE Fresh'
  <2>1. UNCHANGED <<check, epoch, gen, isRunning, config, tunEnabled>>
    BY <1>4 DEF EnterListeners
  <2>2. op.at = "listeners" /\ op'.name = op.name /\ op'.at \in {"done", "tun"}
    BY <1>4 DEF EnterListeners, OpInv, OpTypeOK
  <2>3. Unsettled' \/ ~Unsettled
    BY <2>1, <2>2 DEF Unsettled
  <2> QED BY <2>1, <2>3, QuietKeepsFresh
<1>5. CASE ReCreateTun
  <2>1. UNCHANGED <<check, epoch, isRunning, config, tunEnabled>> /\ gen' = IF config # tunEnabled THEN gen + 1 ELSE gen
    BY <1>5 DEF ReCreateTun
  <2>2. op.at = "tun" /\ op'.name = op.name /\ op'.at = "swap"
    BY <1>5 DEF ReCreateTun, OpInv, OpTypeOK
  <2>3. Unsettled' \/ (UNCHANGED gen /\ ~Unsettled)
    BY <2>1, <2>2 DEF Unsettled
  <2> QED BY <2>1, <2>3, QuietKeepsFresh
<1>6. CASE FinishListeners
  <2>1. UNCHANGED <<check, gen, isRunning, config>> /\ tunEnabled' = config
    BY <1>6 DEF FinishListeners
  <2>2. op.at = "swap" /\ op'.name = op.name /\ op'.at = "releaseInner"
    BY <1>6 DEF FinishListeners, OpInv, OpTypeOK
  <2>3. CASE config = tunEnabled
    <3>1. UNCHANGED epoch
      BY <1>6, <2>3 DEF FinishListeners
    <3>2. Unsettled' \/ ~Unsettled
      BY <2>1, <2>2, <2>3 DEF Unsettled
    <3> QED BY <2>1, <3>1, <3>2, QuietKeepsFresh
  <2>4. CASE config # tunEnabled
    <3>1. epoch' = epoch + 1
      BY <1>6, <2>4 DEF FinishListeners, ToggleEpoch
    <3> QED BY <2>1, <3>1, BumpKeepsFresh
  <2> QED BY <2>3, <2>4
<1>7. CASE ReleaseInner \/ StartEnds
  <2>1. UNCHANGED <<check, epoch, gen, isRunning, config, tunEnabled>>
    BY <1>7 DEF ReleaseInner, StartEnds
  <2>2. \/ op.at = "releaseInner" /\ op'.at = "done" /\ op'.name = op.name
        \/ op.at = "released" /\ op' = Idle
    BY <1>7 DEF ReleaseInner, StartEnds, OpInv, OpTypeOK
  <2>3. Unsettled' \/ ~Unsettled
    BY <2>1, <2>2 DEF Unsettled
  <2> QED BY <2>1, <2>3, QuietKeepsFresh
<1>8. CASE ReleaseOuter
  <2>1. UNCHANGED <<check, epoch, gen, isRunning, config, tunEnabled>>
    BY <1>8 DEF ReleaseOuter
  <2>2. (op.name = "start" => op.at = "bumped") /\ op.at \in {"bumped", "done"}
    BY <1>8 DEF ReleaseOuter
  <2>3. Unsettled' \/ ~Unsettled
    BY <2>1, <2>2 DEF Unsettled
  <2> QED BY <2>1, <2>3, QuietKeepsFresh
<1>9. CASE UNCHANGED <<opVars, check, epoch, gen>>
  <2>1. Unsettled' = Unsettled /\ UNCHANGED <<check, epoch, gen>>
    BY <1>9 DEF opVars, Unsettled
  <2> QED BY <2>1, QuietKeepsFresh
<1>10. ASSUME NEW c \in Checks,
             (\E direct \in BOOLEAN : LookAtToggle(c, direct)) \/ Checking(c) \/ LimitPassed(c) \/ AskAgain(c)
      PROVE  Fresh'
  <2>1. OthersUnchanged
    BY <1>10, ChecksAlone
  <2>2. CheckTypeOK /\ ChansApart
    BY DEF HoldInv
  <2>3. /\ \A d \in Checks \ {c} : check'[d] = check[d]
        /\ \/ check'[c].at \notin {"stamped", "answered"}
           \/ check'[c].at = "stamped" /\ check'[c].stamp = epoch
           \/ /\ check[c].at = "stamped" /\ check'[c].stamp = check[c].stamp
              /\ check'[c].gen = gen
    BY <1>10, <2>2, CheckStep
  <2> QED BY <2>1, <2>3, ChecksKeepFresh
<1>11. CASE (\E t \in armed : StartTimerFires(t)) \/ (\E t \in fired : StartLimitPassed(t)) \/ UNCHANGED vars
  BY <1>9, <1>11 DEF StartTimerFires, StartLimitPassed, vars
<1> QED BY <1>1, <1>2, <1>3, <1>4, <1>5, <1>6, <1>7, <1>8, <1>10, <1>11 DEF Next, Operating

(* While the core runs and no operation is under way, an answer of the     *)
(* epoch in force was dialed over the TUN routes in force.                 *)
THEOREM AnswersAreOfTheRoutes == Spec => []NoAnswerOutlivesToggle
<1>1. OpInv /\ HoldInv /\ Fresh /\ [Next]_vars => OpInv' /\ HoldInv' /\ Fresh'
  BY NextKeepsOpInv, NextKeepsHoldInv, NextKeepsFresh
<1>2. Fresh => NoAnswerOutlivesToggle
  BY DEF Fresh, Unsettled, NoAnswerOutlivesToggle, Idle
<1> QED BY <1>1, <1>2, InitOpInv, PTL DEF Spec

=============================================================================

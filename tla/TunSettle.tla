----------------------------- MODULE TunSettle -----------------------------
(***************************************************************************)
(* core/lifecycle.go, core/tun_settle.go and core/egress.go on a desktop:  *)
(* the config operations that bring the TUN up and down, and the checks    *)
(* that wait until its routes have settled.                                *)
(*                                                                         *)
(* Every operation runs under configMu from its first step to its last, so *)
(* at most one is under way and `op' is it; an operation that waits for    *)
(* the mutex has done nothing yet.  Checks, the aftershock timers and the  *)
(* timer of the start hold run beside it.  A Go channel is a number: done  *)
(* and startDone name the open ones, closed holds the others.              *)
(***************************************************************************)
EXTENDS Naturals, FiniteSets

CONSTANTS
    Checks,        \* probes and lookups that call awaitTunSettled
    Egress,        \* what findEgress may find: interfaces, or None
    MaxOps,        \* bound on config operations
    MaxTimers,     \* bound on timers of the start hold
    None

ASSUME SettleAssumption ==
    /\ Egress # {}
    /\ MaxOps \in Nat
    /\ MaxTimers \in Nat
    /\ None \notin Nat \cup BOOLEAN

VARIABLES
    op,            \* the operation that holds configMu, and where it is
    ops,           \* operations so far (bound)
    config,        \* General.Tun.Enable of currentConfig, None without one
    isInit, isRunning, tunEnabled,
    pin,           \* egressPin.name
    iface,         \* dialer.DefaultInterface, which every socket binds
    stalePin,      \* history: an apply unbound the sockets and left the pin
    outer, inner,  \* the settle holds of the operation and of updateListeners
    holders, done, \* tunSettle
    startDone, timer,  \* tunStart
    armed,         \* timers that run
    fired,         \* timers whose endTunStart has yet to run
    timers,        \* timers made so far
    raced,         \* history: those that had fired as the newest hold began
    shocks,        \* aftershocks that have yet to run
    shocked,       \* aftershocks scheduled so far
    chans,         \* channels made so far
    closed,        \* the channels that are closed
    early,         \* history: those closed ahead of what they stand for
    epoch,         \* currentRoute.epoch
    gen,           \* which TUN routes and sockets are in force
    check,         \* per check: where it is and what it read
    escaped        \* history: a held check left ahead of that

opVars     == <<op, ops, config, isInit, isRunning, tunEnabled>>
egressVars == <<pin, iface, stalePin>>
settleVars == <<outer, inner, holders, done, shocks, shocked>>
startVars  == <<startDone, timer, armed, fired, timers, raced>>
chanVars   == <<chans, closed, early>>
routeVars  == <<epoch, gen>>
checkVars  == <<check, escaped>>
vars == <<opVars, egressVars, settleVars, startVars, chanVars, routeVars, checkVars>>

Idle == [name |-> "none", at |-> "idle"]

NoCheck == [at |-> "idle", direct |-> FALSE, toggle |-> None, start |-> None,
            stamp |-> None, gen |-> None]

-----------------------------------------------------------------------------
Init ==
    /\ op = Idle /\ ops = 0
    /\ config = None /\ isInit = TRUE /\ isRunning = FALSE /\ tunEnabled = FALSE
    /\ pin = None /\ iface = None /\ stalePin = FALSE
    /\ outer = FALSE /\ inner = FALSE /\ holders = 0 /\ done = None
    /\ shocks = {} /\ shocked = 0
    /\ startDone = None /\ timer = None /\ armed = {} /\ fired = {}
    /\ timers = 0 /\ raced = {}
    /\ chans = 0 /\ closed = {} /\ early = {}
    /\ epoch = 0 /\ gen = 0
    /\ check = [c \in Checks |-> NoCheck] /\ escaped = FALSE

-----------------------------------------------------------------------------
(* tunSettle and tunStart.  Each step changes at most one of them, so the  *)
(* channel it makes is chans + 1 and the one it closes is named by it.     *)

(* What an operation that toggles the TUN has yet to do: the toggle and the *)
(* reset after it, and a start's own reset after both.  An update takes its *)
(* hold only with its listeners.                                           *)
ResetPending ==
    \/ /\ isRunning /\ config # None /\ config # tunEnabled
       /\ \/ op.at \in {"tun", "swap"}
          \/ op.name \in {"apply", "start"} /\ op.at \in {"bump", "listeners"}
    \/ outer /\ op.name = "start" /\ op.at \in {"releaseInner", "done"}

Close(ch, tooSoon) ==
    /\ closed' = closed \cup {ch}
    /\ early' = IF tooSoon THEN early \cup {ch} ELSE early

(* holdTunSettle, n times in a row.                                        *)
HoldTunSettle(n) ==
    /\ holders' = holders + n
    /\ IF holders = 0 /\ n > 0
       THEN chans' = chans + 1 /\ done' = chans + 1
       ELSE UNCHANGED <<chans, done>>
    /\ UNCHANGED <<closed, early>>

(* The last holder to let go closes the channel.                           *)
LastHolder == holders = 1

ReleaseTunSettle ==
    /\ holders' = holders - 1
    /\ IF LastHolder
       THEN done' = None /\ Close(done, ResetPending \/ shocks # {})
       ELSE UNCHANGED <<done, closed, early>>
    /\ UNCHANGED chans

KeepsOldTimer == armed

(* timer.Stop(): of one that has fired it does not stop the call.          *)
StopTimer == armed \ {timer}

(* holdForTunStart: the timer starts over with every config.               *)
HoldForTunStart ==
    /\ timers < MaxTimers
    /\ timers' = timers + 1
    /\ timer' = timers + 1
    /\ armed' = StopTimer \cup {timers + 1}
    /\ raced' = fired
    /\ IF startDone = None
       THEN chans' = chans + 1 /\ startDone' = chans + 1
       ELSE UNCHANGED <<chans, startDone>>
    /\ UNCHANGED <<closed, early, fired>>

StopsTimerOnly(tooSoon) ==
    /\ timer' = None
    /\ armed' = StopTimer
    /\ UNCHANGED <<startDone, raced, chanVars>>

(* endTunStart.                                                            *)
EndTunStart(tooSoon) ==
    /\ timer' = None
    /\ armed' = StopTimer
    /\ IF startDone = None
       THEN UNCHANGED <<startDone, closed, early>>
       ELSE startDone' = None /\ Close(startDone, tooSoon)
    /\ UNCHANGED <<raced, chans>>

(* The limit passes; endTunStart then runs on a goroutine of its own.      *)
StartTimerFires(t) ==
    /\ t \in armed
    /\ armed' = armed \ {t}
    /\ fired' = fired \cup {t}
    /\ UNCHANGED <<opVars, egressVars, settleVars, startDone, timer, timers,
                   raced, chanVars, routeVars, checkVars>>

(* It is not the limit of the hold that it ends if a newer config has      *)
(* started the timer over, unless the old one had fired by then.           *)
Stale(t) == t # timer /\ t \notin raced

StartLimitPassed(t) ==
    /\ t \in fired
    /\ fired' = fired \ {t}
    /\ EndTunStart(Stale(t))
    /\ UNCHANGED <<opVars, egressVars, settleVars, timers, routeVars, checkVars>>

-----------------------------------------------------------------------------
(* Operations under configMu.                                              *)

Begin(name, at) ==
    /\ op = Idle
    /\ ops < MaxOps
    /\ ops' = ops + 1
    /\ op' = [name |-> name, at |-> at]

At(at) == op.at = at
Goto(at) == op' = [op EXCEPT !.at = at]

(* tunWillToggle, for the config that is about to run.                     *)
TunWillToggle(tun, running) == running /\ tun # tunEnabled

(* wantsEgressPin: the TUN is wanted and has installed no finder yet.      *)
WantsEgressPin(tun) == tun /\ ~tunEnabled

(* pinEgressNow binds fresh sockets unless they are bound already.         *)
BindNow(found) == IF iface = None THEN found ELSE iface

PinsNameOnly(tun, found) ==
    /\ pin' = IF WantsEgressPin(tun) /\ found # None THEN found ELSE pin
    /\ UNCHANGED <<iface, stalePin>>

PinEgressNow(tun, found) ==
    IF WantsEgressPin(tun) /\ found # None
    THEN pin' = found /\ iface' = BindNow(found) /\ UNCHANGED stalePin
    ELSE UNCHANGED egressVars

LeavesBinding ==
    /\ pin' = None
    /\ stalePin' = FALSE
    /\ UNCHANGED iface

(* releaseEgress unbinds only what the pin still names.                    *)
ReleaseEgress ==
    /\ pin' = None
    /\ stalePin' = FALSE
    /\ iface' = IF iface = pin THEN None ELSE iface

(* applyConfig up to hub.ApplyConfig, which stores the interface that      *)
(* pinEgress put into the config, or none, as the dialer's.                *)
ApplyConfig(tun, found) ==
    /\ Begin("apply", "bump")
    /\ config' = tun
    /\ pin' = IF WantsEgressPin(tun) /\ found # None THEN found ELSE pin
    /\ iface' = IF WantsEgressPin(tun) THEN found ELSE None
    /\ stalePin' = (iface' = None /\ pin # None)
    /\ outer' = TunWillToggle(tun, isRunning)
    /\ IF isRunning
       THEN /\ HoldTunSettle(IF TunWillToggle(tun, isRunning) THEN 1 ELSE 0)
            /\ UNCHANGED startVars
       ELSE /\ IF tun THEN HoldForTunStart ELSE UNCHANGED <<startVars, chanVars>>
            /\ UNCHANGED <<holders, done>>
    /\ UNCHANGED <<isInit, isRunning, tunEnabled, inner, shocks, shocked,
                   routeVars, checkVars>>

(* patchSelectGroup and bumpRouteEpoch.                                    *)
ApplyBumps ==
    /\ At("bump")
    /\ epoch' = epoch + 1
    /\ Goto("listeners")
    /\ UNCHANGED <<ops, config, isInit, isRunning, tunEnabled, egressVars, settleVars,
                   startVars, chanVars, gen, checkVars>>

(* updateConfig turns the TUN on or off in the config that runs.           *)
UpdateConfig(tun) ==
    /\ config # None
    /\ Begin("update", "listeners")
    /\ config' = tun
    /\ UNCHANGED <<isInit, isRunning, tunEnabled, egressVars, settleVars, startVars,
                   chanVars, routeVars, checkVars>>

(* handleStartListener.                                                    *)
StartListener ==
    /\ Begin("start", "listeners")
    /\ isRunning' = TRUE
    /\ outer' = (config # None /\ TunWillToggle(config, TRUE))
    /\ HoldTunSettle(IF outer' THEN 1 ELSE 0)
    /\ UNCHANGED <<config, isInit, tunEnabled, egressVars, inner, shocks, shocked,
                   startVars, routeVars, checkVars>>

(* updateListeners up to ReCreateTun: nothing without a config or a start. *)
EnterListeners(found) ==
    /\ At("listeners")
    /\ IF config = None \/ ~isRunning
       THEN /\ Goto("done")
            /\ UNCHANGED <<inner, holders, done, chanVars, egressVars>>
       ELSE /\ Goto("tun")
            /\ inner' = TunWillToggle(config, TRUE)
            /\ HoldTunSettle(IF inner' THEN 1 ELSE 0)
            /\ PinEgressNow(config, found)
    /\ UNCHANGED <<ops, config, isInit, isRunning, tunEnabled, outer, shocks,
                   shocked, startVars, routeVars, checkVars>>

(* listener.ReCreateTun moves the routes of the device.                    *)
ReCreateTun ==
    /\ At("tun")
    /\ gen' = IF config # tunEnabled THEN gen + 1 ELSE gen
    /\ Goto("swap")
    /\ UNCHANGED <<ops, config, isInit, isRunning, tunEnabled, egressVars, settleVars,
                   startVars, chanVars, epoch, checkVars>>

KeepsEpoch == epoch

(* A toggle is a reset of the route.                                       *)
ToggleEpoch == epoch + 1

(* scheduleTunAftershock takes its hold before the timer starts.           *)
ScheduleAftershock ==
    /\ shocks' = shocks \cup {shocked + 1}
    /\ shocked' = shocked + 1
    /\ HoldTunSettle(1)

(* The rest of updateListeners: the pin goes, a toggle resets and, unless  *)
(* the window was pinned, resets once more later.                          *)
FinishListeners ==
    /\ At("swap")
    /\ ReleaseEgress
    /\ tunEnabled' = config
    /\ IF config = tunEnabled
       THEN UNCHANGED <<epoch, shocks, shocked, holders, done, chanVars>>
       ELSE /\ epoch' = ToggleEpoch
            /\ IF pin # None
               THEN UNCHANGED <<shocks, shocked, holders, done, chanVars>>
               ELSE ScheduleAftershock
    /\ Goto("releaseInner")
    /\ UNCHANGED <<ops, config, isInit, isRunning, outer, inner, startVars, gen, checkVars>>

(* The release of a hold that was not taken does nothing.                  *)
Release(held) ==
    IF held THEN ReleaseTunSettle ELSE UNCHANGED <<holders, done, chanVars>>

(* updateListeners returns.                                                *)
ReleaseInner ==
    /\ At("releaseInner")
    /\ Release(inner)
    /\ inner' = FALSE
    /\ Goto("done")
    /\ UNCHANGED <<ops, config, isInit, isRunning, tunEnabled, egressVars, outer,
                   shocks, shocked, startVars, routeVars, checkVars>>

(* A start resets the route before it returns, and so does an update whose *)
(* patch changed IPv6.                                                     *)
OperationBumps ==
    /\ At("done")
    /\ op.name \in {"start", "update"}
    /\ epoch' = epoch + 1
    /\ Goto("bumped")
    /\ UNCHANGED <<ops, config, isInit, isRunning, tunEnabled, egressVars, settleVars,
                   startVars, chanVars, gen, checkVars>>

(* The operation's own hold goes; applyConfig and updateConfig are done.   *)
ReleaseOuter ==
    /\ At("bumped") \/ (At("done") /\ op.name # "start")
    /\ Release(outer)
    /\ outer' = FALSE
    /\ op' = IF op.name = "start" THEN [op EXCEPT !.at = "released"] ELSE Idle
    /\ UNCHANGED <<ops, config, isInit, isRunning, tunEnabled, egressVars, inner,
                   shocks, shocked, startVars, routeVars, checkVars>>

(* The start's deferred endTunStart runs after its hold is gone.           *)
StartEnds ==
    /\ At("released")
    /\ EndTunStart(FALSE)
    /\ op' = Idle
    /\ UNCHANGED <<ops, config, isInit, isRunning, tunEnabled, egressVars, settleVars,
                   fired, timers, routeVars, checkVars>>

(* What a stop and a shutdown share.                                       *)
TakeDown ==
    /\ op = Idle
    /\ ops < MaxOps
    /\ ops' = ops + 1
    /\ isRunning' = FALSE
    /\ tunEnabled' = FALSE
    /\ gen' = IF tunEnabled THEN gen + 1 ELSE gen
    /\ EndTunStart(FALSE)
    /\ UNCHANGED <<op, settleVars, fired, timers, epoch, checkVars>>

(* handleStopListener.                                                     *)
StopListener ==
    /\ TakeDown
    /\ ReleaseEgress
    /\ UNCHANGED <<config, isInit>>

(* releaseOnExit: handleShutdown runs once, when the host has gone or asks *)
(* the core to end, and leaves the pin to the end of the process.  Calls   *)
(* that wait for configMu meanwhile still run.                             *)
Shutdown ==
    /\ isInit
    /\ TakeDown
    /\ config' = None
    /\ isInit' = FALSE
    /\ UNCHANGED egressVars

(* The aftershock resets DNS connections, QUIC sessions and the epoch, and *)
(* only then lets its hold go.                                             *)
Aftershock(s) ==
    /\ s \in shocks
    /\ shocks' = shocks \ {s}
    /\ epoch' = epoch + 1
    /\ gen' = gen + 1
    /\ holders' = holders - 1
    /\ IF LastHolder
       THEN done' = None /\ Close(done, ResetPending \/ shocks # {s})
       ELSE UNCHANGED <<done, closed, early>>
    /\ UNCHANGED <<opVars, egressVars, outer, inner, shocked, startVars, chans,
                   checkVars>>

-----------------------------------------------------------------------------
(* Checks: awaitTunSettled, then the stamp, then the dial.                 *)

Step(c, r) == check' = [check EXCEPT ![c] = r]

OthersUnchanged == UNCHANGED <<opVars, egressVars, settleVars, startVars,
                               chanVars, routeVars>>

(* Its two reads are under two mutexes.                                    *)
LookAtToggle(c, direct) ==
    /\ check[c].at = "idle"
    /\ Step(c, [NoCheck EXCEPT !.at = "look", !.direct = direct, !.toggle = done])
    /\ OthersUnchanged /\ UNCHANGED escaped

(* A direct check does not wait for a start.                               *)
LookAtStart(c) ==
    LET start == IF check[c].direct THEN None ELSE startDone IN
    /\ check[c].at = "look"
    /\ Step(c, [check[c] EXCEPT
                   !.start = start,
                   !.at = IF start # None THEN "onStart"
                          ELSE IF check[c].toggle # None THEN "onToggle"
                          ELSE "go"])
    /\ OthersUnchanged /\ UNCHANGED escaped

Leave(tooSoon) == escaped' = (escaped \/ tooSoon)

GoesOnFirstLook(c) == check[c].toggle

(* The start's own toggle may have begun after the check looked.           *)
ToggleAfterStart(c) == done

StartWasEnded(c) ==
    LET toggle == ToggleAfterStart(c) IN
    /\ check[c].at = "onStart"
    /\ check[c].start \in closed
    /\ Step(c, [check[c] EXCEPT !.toggle = toggle,
                                !.at = IF toggle = None THEN "go" ELSE "onToggle"])
    /\ Leave(toggle = None /\ (check[c].start \in early \/ ResetPending \/ shocks # {}))
    /\ OthersUnchanged

ToggleSettled(c) ==
    /\ check[c].at = "onToggle"
    /\ check[c].toggle \in closed
    /\ Step(c, [check[c] EXCEPT !.at = "go"])
    /\ Leave(check[c].toggle \in early)
    /\ OthersUnchanged

(* The limit covers both waits.                                            *)
LimitPassed(c) ==
    /\ check[c].at \in {"onStart", "onToggle"}
    /\ Step(c, [check[c] EXCEPT !.at = "go"])
    /\ OthersUnchanged /\ UNCHANGED escaped

Stamp(c) ==
    /\ check[c].at = "go"
    /\ Step(c, [check[c] EXCEPT !.at = "stamped", !.stamp = epoch])
    /\ OthersUnchanged /\ UNCHANGED escaped

Dial(c) ==
    /\ check[c].at = "stamped"
    /\ Step(c, [check[c] EXCEPT !.at = "answered", !.gen = gen])
    /\ OthersUnchanged /\ UNCHANGED escaped

(* The host drops an answer of an older epoch and asks again.              *)
AskAgain(c) ==
    /\ check[c].at = "answered"
    /\ check[c].stamp # epoch
    /\ Step(c, NoCheck)
    /\ OthersUnchanged /\ UNCHANGED escaped

-----------------------------------------------------------------------------
Operating ==
    \/ ApplyBumps
    \/ \E found \in Egress : EnterListeners(found)
    \/ ReCreateTun \/ FinishListeners \/ ReleaseInner
    \/ OperationBumps \/ ReleaseOuter \/ StartEnds

Checking(c) ==
    \/ LookAtStart(c) \/ StartWasEnded(c) \/ ToggleSettled(c)
    \/ Stamp(c) \/ Dial(c)

Next ==
    \/ \E tun \in BOOLEAN, found \in Egress : ApplyConfig(tun, found)
    \/ \E tun \in BOOLEAN : UpdateConfig(tun)
    \/ StartListener
    \/ StopListener
    \/ Shutdown
    \/ Operating
    \/ \E s \in shocks : Aftershock(s)
    \/ \E t \in armed : StartTimerFires(t)
    \/ \E t \in fired : StartLimitPassed(t)
    \/ \E c \in Checks :
          \/ \E direct \in BOOLEAN : LookAtToggle(c, direct)
          \/ Checking(c) \/ LimitPassed(c) \/ AskAgain(c)

Spec == Init /\ [][Next]_vars

(* An operation runs on, timers fire and their calls run, and a check that *)
(* can go on does.  The limit of a check is left out: its wait must end    *)
(* without it.                                                             *)
Fairness ==
    /\ WF_vars(Operating)
    /\ WF_vars(\E s \in shocks : Aftershock(s))
    /\ WF_vars(\E t \in armed : StartTimerFires(t))
    /\ WF_vars(\E t \in fired : StartLimitPassed(t))
    /\ \A c \in Checks : WF_vars(Checking(c))

FairSpec == Spec /\ Fairness

-----------------------------------------------------------------------------
(* Properties.                                                             *)

(* A check held for a toggle or a start leaves, short of a limit, only     *)
(* when no reset that follows the TUN is to come, neither an aftershock's  *)
(* nor that of the operation under way: otherwise its answer is outdated   *)
(* at once and the check spins.  The limit of a start's hold is that of    *)
(* the newest config; the exception is named: a timer of an older one that *)
(* had fired, and waited for the mutex, as the newer one took its hold.    *)
NoEarlyRelease == ~escaped

(* While the core runs and no operation is under way, an answer of the     *)
(* epoch in force was dialed over the TUN routes in force: no answer       *)
(* outlives a toggle, a stop and start, or an aftershock.                  *)
NoAnswerOutlivesToggle ==
    op = Idle /\ isRunning => \A c \in Checks :
        check[c].at = "answered" /\ check[c].stamp = epoch => check[c].gen = gen

(* Once the listeners are up and no operation is under way, nothing stays  *)
(* pinned: the TUN's own finder follows the network.                       *)
PinReleased ==
    op = Idle /\ isRunning /\ config # None => pin = None /\ iface = None

(* A TUN that comes up and is given no aftershock came up with every       *)
(* socket bound: egressPinned vouches for the binding.  The exception is   *)
(* named: an apply that found no interface, or wanted none, unbinds the    *)
(* sockets and leaves the name that an earlier apply pinned.               *)
SkippedMeansBound ==
    At("swap") /\ config = TRUE /\ ~tunEnabled /\ pin # None =>
        iface # None \/ stalePin

(* No held check depends on its own limit: whoever holds it lets go.       *)
HeldChecksLeave ==
    \A c \in Checks : check[c].at \in {"onStart", "onToggle"}
                      ~> check[c].at \in {"go", "stamped", "answered"}
=============================================================================

---------------------------- MODULE RouteTracker ----------------------------
(***************************************************************************)
(* core/route.go: the counters that say whether a probe answer still       *)
(* describes the route in force.                                           *)
(*                                                                         *)
(* The route the tunnel takes is decided by the picks of the proxy groups, *)
(* the content of proxy providers and rule sets, and the rest (the config, *)
(* the mode, the geo data, the network), which `world' holds.  The tracker *)
(* re-reads the first three under selectMu and compares them with what it  *)
(* read last; the rest it is told about by an explicit change.  Every      *)
(* change moves `version', a reset moves `epoch' too.                      *)
(*                                                                         *)
(* Granularity: one action per critical section.  selectMu is held over    *)
(* several actions (read, commit, publish), currentRoute.mu over exactly   *)
(* one, so it needs no variable.  configMu is held over the actions of a   *)
(* config operation.  Method calls run on a goroutine each (a Caller), so  *)
(* they take effect in any order, whatever the order of their seq.         *)
(***************************************************************************)
EXTENDS Naturals, Sequences

CONSTANTS
    Callers,      \* goroutines that serve method calls and mihomo's hooks
    Pollers,      \* identities for the goroutines pollRoute runs on
    Probes,       \* probe answers the host holds
    Groups,       \* Selector, URLTest and Fallback groups of the config
    HealthGroups, \* the ones a health check moves
    Proxies,      \* members a group can pick
    EventCap,     \* messageQueueSize of the state queue
    FlipBack,     \* may a pick return, unread, to the value last read?
    MaxSeq,       \* bound on the calls stamped with a seq
    MaxMoves,     \* bound on the changes of the world
    None

ASSUME RouteAssumption ==
    /\ Callers \cap Pollers = {}
    /\ None \notin Callers \cup Pollers \cup Nat
    /\ HealthGroups \subseteq Groups
    /\ EventCap \in Nat \ {0}
    /\ FlipBack \in BOOLEAN
    /\ MaxSeq \in Nat
    /\ MaxMoves \in Nat

VARIABLES
    world,         \* what decides the route: picks, providers, ruleSets, config
    moves,         \* how often it changed (bound)
    tracked,       \* picks, providerVersions and ruleSets of currentRoute
    epoch, version,
    watched, watchSeq, stopPoll,
    polling,       \* per poller: the state of its context
    methodCallSeq,
    selectMu, configMu,
    configured,    \* currentConfig # nil
    isRunning,
    listening,     \* hasEventListener()
    detaching,     \* the host thread is inside SetEventListener(nil)
    events,        \* RouteChanged events in the state queue
    pc, change, rest, seen, seq, watch, out,  \* locals of each goroutine
    answer,        \* per probe: the answer as the host holds it
    ran,           \* history: watch intents that ran, by seq
    announced,     \* history: newest version in an event or a watch reply
    dropped        \* history: newest version whose event was not queued

worldVars == <<world, moves>>
routeVars == <<tracked, epoch, version>>
watchVars == <<watched, watchSeq, stopPoll, polling, methodCallSeq, ran>>
coreVars  == <<configMu, configured, isRunning>>
hostVars  == <<listening, detaching>>
sendVars  == <<events, announced, dropped>>
callVars  == <<pc, change, rest, seen, seq, watch, out>>
vars == <<worldVars, routeVars, watchVars, selectMu, coreVars, hostVars,
          sendVars, callVars, answer>>

Threads == Callers \cup Pollers

(* routeChange, ordered: routeUnchanged < routeMoved < routeReset. *)
Unchanged == 0
Moved     == 1
Reset     == 2

EmptyPicks == [g \in {} |-> None]
AnyPicks   == [Groups -> Proxies]

routeStamp == [epoch |-> epoch, version |-> version]

Observed == [picks |-> world.picks, providers |-> world.providers,
             ruleSets |-> world.ruleSets]

NoAnswer == [state |-> "none", stamp |-> None, exit |-> None]

Maximum(a, b) == IF a < b THEN b ELSE a

(* A config has been applied, so there are groups and providers.           *)
Applied == world.picks # EmptyPicks

-----------------------------------------------------------------------------
(* A fresh core: no config applied, nothing read, nobody watching.         *)
Init ==
    /\ world = [picks |-> EmptyPicks, providers |-> 0, ruleSets |-> 0, config |-> 0]
    /\ moves = 0
    /\ tracked = [picks |-> EmptyPicks, providers |-> None, ruleSets |-> None]
    /\ epoch = 0 /\ version = 0
    /\ watched = FALSE /\ watchSeq = 0 /\ stopPoll = None
    /\ polling = [p \in Pollers |-> "none"]
    /\ methodCallSeq = 0
    /\ selectMu = None /\ configMu = None
    /\ configured = FALSE /\ isRunning = FALSE
    /\ listening = TRUE /\ detaching = FALSE
    /\ events = <<>>
    /\ pc = [t \in Threads |-> "idle"]
    /\ change = [t \in Threads |-> Unchanged]
    /\ rest = [t \in Threads |-> <<>>]
    /\ seen = [t \in Threads |-> None]
    /\ seq = [t \in Threads |-> 0]
    /\ watch = [t \in Threads |-> FALSE]
    /\ out = [t \in Threads |-> None]
    /\ answer = [p \in Probes |-> NoAnswer]
    /\ ran = [s \in {0} |-> FALSE]
    /\ announced = 0 /\ dropped = 0

-----------------------------------------------------------------------------
(* A goroutine is at a stage, with the rest of its handler in rest.        *)

Then(label)       == [label |-> label, change |-> Unchanged]
ThenRefresh(kind) == [label |-> "refresh", change |-> kind]

Goto(t, label) == pc' = [pc EXCEPT ![t] = label]

Enter(t, stage, later) ==
    /\ Goto(t, stage.label)
    /\ change' = [change EXCEPT ![t] = stage.change]
    /\ rest' = [rest EXCEPT ![t] = later]

Begin(c, stage, later) == pc[c] = "idle" /\ Enter(c, stage, later)

Resume(t) ==
    IF rest[t] = <<>> THEN Enter(t, Then("idle"), <<>>)
                      ELSE Enter(t, Head(rest[t]), Tail(rest[t]))

-----------------------------------------------------------------------------
(* What moves without telling the tracker; only a refresh notices it.      *)

Move(w) ==
    /\ moves < MaxMoves
    /\ moves' = moves + 1
    /\ world' = w

(* A pick that moved unread goes back to what the tracker read last.       *)
Returns(g, p) ==
    /\ tracked.picks # EmptyPicks
    /\ p = tracked.picks[g]
    /\ p # world.picks[g]

(* A health check moves the pick of a URLTest or Fallback group.           *)
HealthCheckMove(g, p) ==
    /\ Applied
    /\ p # world.picks[g]
    /\ FlipBack \/ ~Returns(g, p)
    /\ Move([world EXCEPT !.picks[g] = p])
    /\ UNCHANGED <<routeVars, watchVars, selectMu, coreVars, hostVars,
                   sendVars, callVars, answer>>

(* A provider or a rule set loads new content on its own schedule.         *)
BackgroundLoad ==
    /\ Applied
    /\ \/ Move([world EXCEPT !.providers = @ + 1])
       \/ Move([world EXCEPT !.ruleSets = @ + 1])
    /\ UNCHANGED <<routeVars, watchVars, selectMu, coreVars, hostVars,
                   sendVars, callVars, answer>>

-----------------------------------------------------------------------------
(* refreshRouteLocked, in three steps under selectMu.                      *)

(* readPicks and readRuleSets.  A selection holds selectMu already.        *)
ReadRoute(t) ==
    /\ pc[t] = "refresh"
    /\ selectMu \in {None, t}
    /\ selectMu' = t
    /\ seen' = [seen EXCEPT ![t] = Observed]
    /\ Goto(t, "commit")
    /\ UNCHANGED <<worldVars, routeVars, watchVars, coreVars, hostVars,
                   sendVars, change, rest, seq, watch, out, answer>>

ForgetsRuleSets(reading, told) ==
    IF \/ tracked.providers # None /\ reading.providers # tracked.providers
       \/ reading.picks # tracked.picks
    THEN Maximum(told, Moved) ELSE told

(* What a reading says beyond the change the caller announced.             *)
DetectedChange(reading, told) ==
    IF \/ tracked.providers # None /\ reading.providers # tracked.providers
       \/ tracked.ruleSets # None /\ reading.ruleSets # tracked.ruleSets
       \/ reading.picks # tracked.picks
    THEN Maximum(told, Moved)
    ELSE told

PublishesMovesOnly(found) == found = Moved /\ watched

Publishes(found) == found # Unchanged /\ watched

(* The section under currentRoute.mu.  selectMu is held until the event is *)
(* queued.                                                                 *)
CommitRoute(t) ==
    LET found == DetectedChange(seen[t], change[t]) IN
    /\ pc[t] = "commit"
    /\ tracked' = seen[t]
    /\ epoch' = IF found = Reset THEN epoch + 1 ELSE epoch
    /\ version' = IF found = Unchanged THEN version ELSE version + 1
    /\ seen' = [seen EXCEPT ![t] = None]
    /\ IF Publishes(found)
       THEN /\ out' = [out EXCEPT ![t] = [epoch |-> epoch', version |-> version']]
            /\ Enter(t, Then("publish"), rest[t])
            /\ UNCHANGED selectMu
       ELSE /\ selectMu' = None
            /\ Resume(t)
            /\ UNCHANGED out
    /\ UNCHANGED <<worldVars, watchVars, coreVars, hostVars, sendVars, seq,
                   watch, answer>>

HasRoom == Len(events) < EventCap

LeavesLocked(t) == t

UnlockSelect(t) == None

(* publishRoute: sendMessage drops the event with nobody to hear it, and   *)
(* enqueueState with no room for it.                                       *)
PublishRoute(t) ==
    /\ pc[t] = "publish"
    /\ IF listening /\ HasRoom
       THEN /\ events' = Append(events, out[t])
            /\ announced' = Maximum(announced, out[t].version)
            /\ UNCHANGED dropped
       ELSE /\ dropped' = out[t].version
            /\ UNCHANGED <<events, announced>>
    /\ out' = [out EXCEPT ![t] = None]
    /\ selectMu' = UnlockSelect(t)
    /\ Resume(t)
    /\ UNCHANGED <<worldVars, routeVars, watchVars, coreVars, hostVars, seen,
                   seq, watch, answer>>

(* The batcher hands the oldest event to the host.                         *)
DeliverEvent ==
    /\ events # <<>>
    /\ events' = Tail(events)
    /\ UNCHANGED <<worldVars, routeVars, watchVars, selectMu, coreVars,
                   hostVars, announced, dropped, callVars, answer>>

-----------------------------------------------------------------------------
(* Callers that refresh without configMu.                                  *)

(* handleChangeProxy: the pick is set under the lock the refresh uses.     *)
ChangeProxy(c, g, p) ==
    /\ Applied
    /\ selectMu = None
    /\ selectMu' = c
    /\ FlipBack \/ ~Returns(g, p)
    /\ Move([world EXCEPT !.picks[g] = p])
    /\ Begin(c, ThenRefresh(Unchanged), <<>>)
    /\ UNCHANGED <<routeVars, watchVars, coreVars, hostVars, sendVars, seen,
                   seq, watch, out, answer>>

(* updateExternalProvider: the provider updates, then refreshRoute.        *)
UpdateProvider(c) ==
    /\ Applied
    /\ Move([world EXCEPT !.providers = @ + 1])
    /\ Begin(c, ThenRefresh(Unchanged), <<>>)
    /\ UNCHANGED <<routeVars, watchVars, selectMu, coreVars, hostVars,
                   sendVars, seen, seq, watch, out, answer>>

(* onGeoUpdate after a run that replaced the data (Moved);                 *)
(* handleNetworkChanged, StartTun on a running core and the TUN's          *)
(* aftershock (Reset).                                                     *)
OutsideChange(c, kind) ==
    /\ Move([world EXCEPT !.config = @ + 1])
    /\ Begin(c, ThenRefresh(kind), <<>>)
    /\ UNCHANGED <<routeVars, watchVars, selectMu, coreVars, hostVars,
                   sendVars, seen, seq, watch, out, answer>>

-----------------------------------------------------------------------------
(* Callers that hold configMu for the whole handler.                       *)

LockConfig(c) == configMu = None /\ configMu' = c

(* applyConfig up to patchSelectGroup: hub.ApplyConfig builds the groups   *)
(* anew, so every pick may be another one.                                 *)
ApplyConfig(c, picks) ==
    /\ LockConfig(c)
    /\ configured' = TRUE
    /\ Move([world EXCEPT !.config = @ + 1, !.picks = picks])
    /\ Begin(c, Then("patchSelect"),
             <<ThenRefresh(Reset), Then("listeners"), Then("unlock")>>)
    /\ UNCHANGED <<routeVars, watchVars, selectMu, isRunning, hostVars,
                   sendVars, seen, seq, watch, out, answer>>

(* patchSelectGroup, under selectMu for exactly this step.                 *)
PatchSelectGroup(c, picks) ==
    /\ pc[c] = "patchSelect"
    /\ selectMu = None
    /\ world' = [world EXCEPT !.picks = picks]
    /\ Resume(c)
    /\ UNCHANGED <<moves, routeVars, watchVars, selectMu, coreVars, hostVars,
                   sendVars, seen, seq, watch, out, answer>>

(* updateConfig with another mode (Moved) or IPv6 setting (Reset); other   *)
(* settings reach the route only through updateListeners.                  *)
UpdateConfig(c, kind) ==
    /\ LockConfig(c)
    /\ configured
    /\ IF kind = Unchanged THEN UNCHANGED worldVars
                           ELSE Move([world EXCEPT !.config = @ + 1])
    /\ Begin(c, Then("listeners"),
             IF kind = Unchanged THEN <<Then("unlock")>>
                                 ELSE <<ThenRefresh(kind), Then("unlock")>>)
    /\ UNCHANGED <<routeVars, watchVars, selectMu, configured, isRunning,
                   hostVars, sendVars, seen, seq, watch, out, answer>>

(* handleStartListener: a probe already out left by the routes of before.  *)
StartListener(c) ==
    /\ LockConfig(c)
    /\ isRunning' = TRUE
    /\ Move([world EXCEPT !.config = @ + 1])
    /\ Begin(c, Then("listeners"), <<ThenRefresh(Reset), Then("unlock")>>)
    /\ UNCHANGED <<routeVars, watchVars, selectMu, configured, hostVars,
                   sendVars, seen, seq, watch, out, answer>>

(* The TUN of updateListeners: a toggle moves the routes and resets.       *)
UpdateListeners(c) ==
    /\ pc[c] = "listeners"
    /\ \/ /\ configured /\ isRunning
          /\ Move([world EXCEPT !.config = @ + 1])
          /\ Enter(c, ThenRefresh(Reset), rest[c])
       \/ /\ Resume(c)
          /\ UNCHANGED worldVars
    /\ UNCHANGED <<routeVars, watchVars, selectMu, coreVars, hostVars,
                   sendVars, seen, seq, watch, out, answer>>

(* handleStopListener takes no epoch: the host pins its probes to DIRECT.  *)
StopListener ==
    /\ configMu = None
    /\ isRunning
    /\ isRunning' = FALSE
    /\ UNCHANGED <<worldVars, routeVars, watchVars, selectMu, configMu,
                   configured, hostVars, sendVars, callVars, answer>>

UnlockConfig(c) ==
    /\ pc[c] = "unlock"
    /\ configMu' = None
    /\ Resume(c)
    /\ UNCHANGED <<worldVars, routeVars, watchVars, selectMu, configured,
                   isRunning, hostVars, sendVars, seen, seq, watch, out, answer>>

-----------------------------------------------------------------------------
(* Watching.                                                               *)

(* dispatchMethodCall stamps route.watch in arrival order; the goroutine   *)
(* begins with refreshRoute.                                               *)
DispatchWatch(c, on) ==
    /\ listening
    /\ methodCallSeq < MaxSeq
    /\ methodCallSeq' = methodCallSeq + 1
    /\ seq' = [seq EXCEPT ![c] = methodCallSeq + 1]
    /\ watch' = [watch EXCEPT ![c] = on]
    /\ Begin(c, ThenRefresh(Unchanged), <<Then("setWatch")>>)
    /\ UNCHANGED <<worldVars, routeVars, watched, watchSeq, stopPoll, polling,
                   ran, selectMu, coreVars, hostVars, sendVars, seen, out,
                   answer>>

CancelsNothing == polling

(* stopRoutePollLocked cancels the context of the poller, if there is one. *)
CancelPoll == [p \in Pollers |-> IF p = stopPoll THEN "cancelled" ELSE polling[p]]

Record(s, on) == [x \in DOMAIN ran \cup {s} |-> IF x = s THEN on ELSE ran[x]]

NeverOutdated(s) == FALSE

(* A watch older than the newest one that ran is refused.                  *)
Outdated(s) == s < watchSeq

(* The section of handleWatchRoute under currentRoute.mu, and its reply.   *)
HandleWatchRoute(c) ==
    /\ pc[c] = "setWatch"
    /\ IF Outdated(seq[c])
       THEN UNCHANGED <<watched, watchSeq, stopPoll, polling, ran, announced>>
       ELSE /\ watchSeq' = seq[c]
            /\ watched' = watch[c]
            /\ ran' = Record(seq[c], watch[c])
            /\ IF watch[c]
               THEN /\ announced' = version
                    /\ IF stopPoll = None
                       THEN \E p \in Pollers :
                               /\ polling[p] = "none"
                               /\ stopPoll' = p
                               /\ polling' = [polling EXCEPT ![p] = "live"]
                       ELSE UNCHANGED <<stopPoll, polling>>
               ELSE /\ stopPoll' = None
                    /\ polling' = CancelPoll
                    /\ UNCHANGED announced
    /\ seq' = [seq EXCEPT ![c] = 0]
    /\ watch' = [watch EXCEPT ![c] = FALSE]
    /\ Resume(c)
    /\ UNCHANGED <<worldVars, routeVars, methodCallSeq, selectMu, coreVars,
                   hostVars, events, dropped, seen, out, answer>>

(* The stop takes its own place in the call order.                         *)
StopPlace == methodCallSeq + 1

StopRouteWatch ==
    /\ methodCallSeq' = methodCallSeq + 1
    /\ watchSeq' = Maximum(watchSeq, StopPlace)
    /\ ran' = Record(StopPlace, FALSE)
    /\ watched' = FALSE
    /\ stopPoll' = None
    /\ polling' = CancelPoll

(* SetEventListener, on the host's one platform thread: clearing it drops  *)
(* the listener first and the watch after that.                            *)
SetEventListener ==
    /\ ~detaching
    /\ listening => methodCallSeq < MaxSeq
    /\ listening' = ~listening
    /\ detaching' = listening
    /\ UNCHANGED <<worldVars, routeVars, watchVars, selectMu, coreVars,
                   sendVars, callVars, answer>>

FinishDetach ==
    /\ detaching
    /\ StopRouteWatch
    /\ detaching' = FALSE
    /\ UNCHANGED <<worldVars, routeVars, selectMu, coreVars, listening,
                   sendVars, callVars, answer>>

(* handleShutdown ends the watch, then everything else under configMu.     *)
Shutdown(c) ==
    /\ methodCallSeq < MaxSeq
    /\ StopRouteWatch
    /\ Begin(c, Then("shutdown"), <<>>)
    /\ UNCHANGED <<worldVars, routeVars, selectMu, coreVars, hostVars,
                   sendVars, seen, seq, watch, out, answer>>

ShutdownConfig(c) ==
    /\ pc[c] = "shutdown"
    /\ configMu = None
    /\ isRunning' = FALSE
    /\ configured' = FALSE
    /\ Resume(c)
    /\ UNCHANGED <<worldVars, routeVars, watchVars, selectMu, configMu,
                   hostVars, sendVars, seen, seq, watch, out, answer>>

(* pollRoute.  A select whose context is done and whose ticker has fired   *)
(* takes either, so a cancelled poller may still refresh.                  *)
PollTick(p) ==
    /\ polling[p] \in {"live", "cancelled"}
    /\ isRunning
    /\ Begin(p, ThenRefresh(Unchanged), <<>>)
    /\ UNCHANGED <<worldVars, routeVars, watchVars, selectMu, coreVars,
                   hostVars, sendVars, seen, seq, watch, out, answer>>

PollExit(p) ==
    /\ polling[p] = "cancelled"
    /\ pc[p] = "idle"
    /\ polling' = [polling EXCEPT ![p] = "none"]
    /\ UNCHANGED <<worldVars, routeVars, watched, watchSeq, stopPoll,
                   methodCallSeq, ran, selectMu, coreVars, hostVars, sendVars,
                   callVars, answer>>

-----------------------------------------------------------------------------
(* Probes and checks.  The exit of an answer is all that decided its route *)
(* at the moment it was dialed, or matched again.                          *)

(* runProbe reads the stamp before it dials.                               *)
StampProbe(p) ==
    /\ answer[p].state = "none"
    /\ answer' = [answer EXCEPT ![p] =
                     [state |-> "stamped", stamp |-> routeStamp, exit |-> None]]
    /\ UNCHANGED <<worldVars, routeVars, watchVars, selectMu, coreVars,
                   hostVars, sendVars, callVars>>

DialProbe(p) ==
    /\ answer[p].state = "stamped"
    /\ answer' = [answer EXCEPT ![p].state = "landing", ![p].exit = world]
    /\ UNCHANGED <<worldVars, routeVars, watchVars, selectMu, coreVars,
                   hostVars, sendVars, callVars>>

(* handleCheckRoutes reads the stamp before any route resolves; the host   *)
(* asks for the answers of another stamp.                                  *)
StampCheck(p) ==
    /\ answer[p].state = "answered"
    /\ answer[p].stamp # routeStamp
    /\ answer' = [answer EXCEPT ![p].state = "checking", ![p].stamp = routeStamp]
    /\ UNCHANGED <<worldVars, routeVars, watchVars, selectMu, coreVars,
                   hostVars, sendVars, callVars>>

(* An answer whose exits held takes the checked version; one that did not  *)
(* is dropped and asked again.                                             *)
ResolveCheck(p) ==
    /\ answer[p].state = "checking"
    /\ answer' = [answer EXCEPT ![p] =
                     IF @.exit = world THEN [@ EXCEPT !.state = "landing"] ELSE NoAnswer]
    /\ UNCHANGED <<worldVars, routeVars, watchVars, selectMu, coreVars,
                   hostVars, sendVars, callVars>>

StampsLate(p) == routeStamp

AnswerStamp(p) == answer[p].stamp

(* The reply of a probe or a check reaches the host.                       *)
LandAnswer(p) ==
    /\ answer[p].state = "landing"
    /\ answer' = [answer EXCEPT ![p].state = "answered", ![p].stamp = AnswerStamp(p)]
    /\ UNCHANGED <<worldVars, routeVars, watchVars, selectMu, coreVars,
                   hostVars, sendVars, callVars>>

-----------------------------------------------------------------------------
Refreshing(t) == ReadRoute(t) \/ CommitRoute(t) \/ PublishRoute(t)

(* The steps that go on with a handler once it runs.                       *)
Continuing(c) ==
    \/ \E picks \in AnyPicks : PatchSelectGroup(c, picks)
    \/ UpdateListeners(c)
    \/ UnlockConfig(c)
    \/ HandleWatchRoute(c)
    \/ ShutdownConfig(c)

Calling(c) ==
    \/ \E g \in Groups, p \in Proxies : ChangeProxy(c, g, p)
    \/ UpdateProvider(c)
    \/ \E kind \in {Moved, Reset} : OutsideChange(c, kind)
    \/ \E kind \in {Unchanged, Moved, Reset} : UpdateConfig(c, kind)
    \/ \E picks \in AnyPicks : ApplyConfig(c, picks)
    \/ StartListener(c)
    \/ \E on \in BOOLEAN : DispatchWatch(c, on)
    \/ Shutdown(c)

Probing(p) ==
    \/ StampProbe(p) \/ DialProbe(p)
    \/ StampCheck(p) \/ ResolveCheck(p)
    \/ LandAnswer(p)

Next ==
    \/ \E g \in HealthGroups, p \in Proxies : HealthCheckMove(g, p)
    \/ BackgroundLoad
    \/ \E t \in Threads : Refreshing(t)
    \/ \E c \in Callers : Calling(c) \/ Continuing(c)
    \/ \E p \in Pollers : PollTick(p) \/ PollExit(p)
    \/ \E p \in Probes : Probing(p)
    \/ StopListener
    \/ DeliverEvent
    \/ SetEventListener
    \/ FinishDetach

Spec == Init /\ [][Next]_vars

(* The scheduler runs every goroutine, a Go mutex hands itself to a waiter *)
(* that has starved for 1 ms, and the ticker of a poller keeps firing.     *)
Fairness ==
    /\ \A c \in Callers : SF_vars(Refreshing(c) \/ Continuing(c))
    /\ \A p \in Pollers : SF_vars(Refreshing(p)) /\ WF_vars(PollTick(p))

FairSpec == Spec /\ Fairness

-----------------------------------------------------------------------------
(* Properties.                                                             *)

World   == [picks: AnyPicks \cup {EmptyPicks}, providers: Nat, ruleSets: Nat, config: Nat]
Reading == [picks: AnyPicks \cup {EmptyPicks}, providers: Nat, ruleSets: Nat]
RouteState == [epoch: Nat, version: Nat]
Labels  == {"idle", "refresh", "commit", "publish", "patchSelect", "listeners",
            "unlock", "setWatch", "shutdown"}
Stages  == [label: {"refresh", "listeners", "unlock", "setWatch"},
            change: {Unchanged, Moved, Reset}]

WorldType == world \in World /\ moves \in Nat
RouteType ==
    /\ tracked \in Reading \cup
          [picks: {EmptyPicks}, providers: {None}, ruleSets: {None}]
    /\ epoch \in Nat /\ version \in Nat
WatchType ==
    /\ watched \in BOOLEAN
    /\ watchSeq \in Nat /\ methodCallSeq \in Nat
    /\ stopPoll \in Pollers \cup {None}
    /\ polling \in [Pollers -> {"none", "live", "cancelled"}]
    /\ ran \in [DOMAIN ran -> BOOLEAN] /\ DOMAIN ran \subseteq Nat
CoreType ==
    /\ configMu \in Callers \cup {None}
    /\ configured \in BOOLEAN /\ isRunning \in BOOLEAN
HostType == listening \in BOOLEAN /\ detaching \in BOOLEAN
SendType ==
    /\ events \in Seq(RouteState) /\ Len(events) <= EventCap
    /\ announced \in Nat /\ dropped \in Nat
CallType ==
    /\ pc \in [Threads -> Labels]
    /\ change \in [Threads -> {Unchanged, Moved, Reset}]
    /\ rest \in [Threads -> Seq(Stages)]
    /\ seen \in [Threads -> Reading \cup {None}]
    /\ seq \in [Threads -> Nat]
    /\ watch \in [Threads -> BOOLEAN]
    /\ out \in [Threads -> RouteState \cup {None}]
AnswerType ==
    answer \in [Probes -> [state: {"none", "stamped", "landing", "answered", "checking"},
                           stamp: RouteState \cup {None},
                           exit: World \cup {None}]]

(* Every variable has its type; the state queue never outgrows its bound.  *)
TypeOK ==
    /\ WorldType /\ RouteType /\ WatchType /\ CoreType /\ HostType
    /\ SendType /\ CallType /\ AnswerType
    /\ selectMu \in Threads \cup {None}

(* Watch calls and stops run on goroutines of their own, in any order; the *)
(* watch in force is the intent of the newest one that ran.                *)
NewestWatchWins ==
    /\ watchSeq \in DOMAIN ran
    /\ \A s \in DOMAIN ran : s <= watchSeq
    /\ watched = ran[watchSeq]

(* Once the host let go of the listener, no watch it dispatched before,    *)
(* however late it runs, brings the watch and its poll back.               *)
DetachedNeverWatched == ~listening /\ ~detaching => ~watched

(* There is one poller while the route is watched and none while it is     *)
(* not, whatever order watches and stops ran in: stopPoll always names the *)
(* one goroutine whose context is alive.                                   *)
PollerMatchesWatch ==
    /\ watched <=> stopPoll # None
    /\ \A p \in Pollers : polling[p] = "live" <=> p = stopPoll

(* Concurrent refreshes publish in the order of their versions: the events *)
(* the host reads never go back, and one about to be queued is newer than  *)
(* all of them.                                                            *)
PublishedInOrder ==
    /\ \A i, j \in 1..Len(events) : i < j => events[i].version < events[j].version
    /\ \A t \in Threads, i \in 1..Len(events) :
          pc[t] = "publish" => events[i].version < out[t].version

(* A watching host has been told of the version in force, by an event or   *)
(* by the reply to its watch, or that very event found no listener or no   *)
(* room.                                                                   *)
WatcherInformed ==
    watched /\ (\A t \in Threads : pc[t] # "publish")
        => version \in {announced, dropped}

(* Nothing moved since the last reading, and no announced change is still  *)
(* on its way.                                                             *)
Settled ==
    /\ tracked = Observed
    /\ \A t \in Threads :
          /\ change[t] = Unchanged
          /\ \A i \in 1..Len(rest[t]) : rest[t][i].change = Unchanged

(* An answer that carries the stamp in force went out by the route in      *)
(* force, however the dial, the checks and the moves interleaved.          *)
AnswerDescribesRoute ==
    Settled => \A p \in Probes :
        answer[p].state = "answered" /\ answer[p].stamp = routeStamp
            => answer[p].exit = world

Versions == 0..(2 * MaxMoves + 1)

(* While the host watches a running core, a pick, provider or rule set     *)
(* that moved behind the tracker's back moves the version in the end.      *)
MovesAreNoticed ==
    \A v \in Versions :
        (watched /\ isRunning /\ version = v /\ tracked.providers # None
            /\ tracked # Observed)
        ~> (version > v \/ ~watched \/ ~isRunning)

(* No call, hook or poll waits forever for selectMu or configMu.           *)
CallsReturn == \A t \in Threads : pc[t] # "idle" ~> pc[t] = "idle"
=============================================================================

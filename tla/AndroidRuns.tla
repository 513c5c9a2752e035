----------------------------- MODULE AndroidRuns -----------------------------
(***************************************************************************)
(* A run of the VPN on Android, from the request to the core: the state    *)
(* machine of the application (ServiceStateMachine.kt, RunIntentArbiter.kt *)
(* and ServiceController.kt), VpnService.kt and the exports of core/lib.go *)
(* it calls.                                                               *)
(*                                                                         *)
(* A job is one coroutine or callback: a start, a stop, a revoked VPN or a *)
(* lost service.  Jobs run beside each other, and what one has read may be *)
(* out of date when it acts on it; four mutexes order some of their steps. *)
(* The exports StartListener, StopListener and the tails of StartTun and   *)
(* StopTun look at isRunning and then act under configMu: the look is part *)
(* of the step before, the act (CoreActs) one of its own.                  *)
(*                                                                         *)
(* The application's Flutter engine comes and goes: starts come from it    *)
(* while it is attached and from native code while it is not.              *)
(*                                                                         *)
(* Here StartTun and StopTun are one step each; AndroidTun, which this     *)
(* module extends, has their own steps.  Neither needs the other's detail, *)
(* so a behaviour shows one of them, named by view; a third view has the   *)
(* updates of the system's DNS servers, a goroutine each.                  *)
(***************************************************************************)
EXTENDS AndroidTun

CONSTANTS
    MaxJobs,      \* bound on jobs
    MaxUpdates    \* bound on DNS updates

ASSUME RunsAssumption ==
    /\ MaxJobs \in Nat /\ MaxUpdates \in Nat
    /\ None \notin {"STARTING", "STOPPING"}

Jobs == 1..MaxJobs
Updates == 1..MaxUpdates
Locks == {"flutter", "preparation", "transition", "controller", "tun"}

VARIABLES
    view,        \* "tun", "runs" or "dns"
    attached,    \* a Flutter engine is attached
    latest,      \* the arbiter's token: who minted it and what it asks for
    transition, shown,   \* the transition in flight; runState as published
    pending,     \* pendingVpnPreparation: the job at the prompt
    runtime,     \* ServiceController.runtime: a run exists
    binding,     \* the job whose binding is in use
    tunRunning,  \* VpnService.tunRunning
    tunUp,       \* the VPN's interface stands
    listening,   \* the core's ports are open
    lock,        \* who holds each mutex
    job,         \* per job: where it is, its token, binding and core call
    missed,      \* history: a gap that SettledAgrees names was met
    servers,     \* the update whose servers the system resolver uses
    update,      \* per DNS update: "none", "started", "setting" or "done"
    dnsUpdateMu  \* the update that holds it

intentVars  == <<latest, transition, shown, pending>>
controlVars == <<runtime, binding>>
coreVars    == <<tunRunning, tunUp, isRunning, listening>>
dnsVars     == <<servers, update, dnsUpdateMu>>
runVars     == <<intentVars, controlVars, tunRunning, tunUp, listening, lock, job, missed>>
tunOnly     == <<call, starts, tunHandler, listener, handleVars, lockVars, sockVars>>
allVars     == <<view, attached, vars, runVars, dnsVars>>

NoJob == [at |-> "idle", token |-> None, binding |-> None, core |-> "none"]
NoToken == [by |-> 0, running |-> FALSE, reset |-> FALSE]

RInit ==
    /\ Init
    /\ view \in {"tun", "runs", "dns"}
    /\ attached \in BOOLEAN
    /\ latest = NoToken
    /\ transition = None /\ shown = "STOPPED" /\ pending = None
    /\ runtime = FALSE /\ binding = None
    /\ tunRunning = FALSE /\ tunUp = FALSE /\ listening = FALSE
    /\ lock = [l \in Locks |-> None]
    /\ job = [j \in Jobs |-> NoJob]
    /\ missed = FALSE
    /\ servers = 0 /\ update = [u \in Updates |-> "none"] /\ dnsUpdateMu = None

-----------------------------------------------------------------------------
(* What the jobs are made of.                                              *)

On(j, at) == job[j].at = at /\ job[j].core = "none"

Set(j, at, core) == job' = [job EXCEPT ![j].at = at, ![j].core = core]

To(j, at) == Set(j, at, "none")

Take(j, l) == lock[l] = None /\ lock' = [lock EXCEPT ![l] = j]

Give(ls) == lock' = [l \in Locks |-> IF l \in ls THEN None ELSE lock[l]]

(* publish derives the state shown from what is so.                        *)
Derived(t, run, requested) ==
    IF t # None THEN t
    ELSE IF ~run THEN "STOPPED"
    ELSE IF requested THEN "STARTED" ELSE "STOPPING"

Publish(t, token) == shown' = Derived(t, runtime, token.running)

(* createRequest, by the arbiter; the caller publishes.                    *)
Request(j, running) ==
    LET token == [by |-> j, running |-> running, reset |-> FALSE] IN
    /\ latest' = token
    /\ Publish(transition, token)

IsCurrent(j) == latest = job[j].token

(* resetToStopped wins only while the token is the latest.                 *)
ResetToStopped(token) ==
    latest' = IF latest = token
              THEN [by |-> token.by, running |-> FALSE, reset |-> TRUE]
              ELSE latest

(* The looks of StartListener and StopListener, and of the two tails.      *)
StartIfStopped == IF isRunning THEN "none" ELSE "start"
StopIfRunning == IF isRunning THEN "stop" ELSE "none"

(* handleStartListener or handleStopListener, under configMu.              *)
CoreActs(j) ==
    /\ job[j].core # "none"
    /\ isRunning' = (job[j].core = "start")
    /\ listening' = (job[j].core = "start")
    /\ job' = [job EXCEPT ![j].core = "none"]
    /\ UNCHANGED <<intentVars, controlVars, tunRunning, tunUp, lock, missed>>

-----------------------------------------------------------------------------
(* Gaps in the protocol, each of several jobs.  A behaviour that met one   *)
(* is marked: SettledAgrees claims less of it.                             *)

Miss(gap) == missed' = (missed \/ gap)

(* The setup of an overtaken start fails before it applies, and the flag   *)
(* it raised stays: StartListener then finds the core running, with closed *)
(* ports.                                                                  *)
FlagLeft == latest.running /\ isRunning /\ ~listening

(* A start overtakes the stop of a revoked VPN, whose run has no TUN.      *)
TakenForUp(j) == IsCurrent(j) /\ runtime /\ ~tunUp

(* An overtaken start that comes back takes the intent of a lost run, not  *)
(* yet reset, for a run, and leaves open what its setup opened.            *)
TakenForRun == latest.running /\ ~runtime /\ job[latest.by].at = "ended"

(* A revocation is heard before the start it ends has set runtime.         *)
HeardTooSoon ==
    ~runtime /\ ~tunUp /\ \E j \in Jobs : job[j].at \in {"adopt", "established", "running"}

(* An engine goes in the middle of a command: what it has asked of the     *)
(* core comes late, and what it would have asked next does not come.       *)
CutShort == lock["flutter"] # None

(* A start of native code claims the run before a stop of Flutter's has    *)
(* closed the listeners, which it then does under the new run.             *)
ClaimedEarly == \E j \in Jobs : job[j].at = "flutterStopped"

-----------------------------------------------------------------------------
(* The engine.                                                             *)

Attach ==
    /\ ~attached
    /\ attached' = TRUE
    /\ UNCHANGED <<runVars, isRunning>>

(* Its prompts are answered with a refusal, and its commands go no         *)
(* further; what they have asked of the core is done.                      *)
Asked ==
    {j \in Jobs : job[j].at = "permission" \/ (job[j].at = "prompt" /\ pending = j)}

Detach ==
    /\ attached
    /\ attached' = FALSE
    /\ pending' = None
    /\ job' = [j \in Jobs |->
                  IF j \in Asked THEN [job[j] EXCEPT !.at = "drop"]
                  ELSE IF lock["flutter"] = j THEN [job[j] EXCEPT !.at = "ended"]
                  ELSE job[j]]
    /\ Give({"flutter"} \cup {l \in {"preparation"} : lock[l] \in Asked})
    /\ Miss(CutShort)
    /\ UNCHANGED <<latest, transition, shown, controlVars, coreVars>>

-----------------------------------------------------------------------------
(* A start.                                                                *)

Fresh(j) == job[j] = NoJob /\ \A i \in 1..(j - 1) : job[i] # NoJob

(* handleStartAction and startFromPreferences look at the intent first.    *)
StartAction(j) ==
    /\ Fresh(j) /\ ~attached
    /\ ~latest.running
    /\ To(j, "claim")
    /\ UNCHANGED <<intentVars, controlVars, coreVars, lock, missed>>

(* The intent is claimed before the core is set up.                        *)
Claim(j, configured) ==
    /\ On(j, "claim")
    /\ Request(j, TRUE)
    /\ job' = [job EXCEPT ![j].at = IF configured THEN "setup" ELSE "drop",
                          ![j].token = latest']
    /\ Miss(ClaimedEarly)
    /\ UNCHANGED <<transition, pending, controlVars, coreVars, lock>>

(* QuickSetup raises the running flag outside configMu...                  *)
QuickSetup(j) ==
    /\ On(j, "setup")
    /\ isRunning' = TRUE
    /\ To(j, "apply")
    /\ UNCHANGED <<intentVars, controlVars, tunRunning, tunUp, listening, lock, missed>>

(* ...and handleSetupConfig opens the ports if it still finds it raised; a *)
(* rejected config is replaced by the default one, a file that cannot be   *)
(* written is not.                                                         *)
QuickApply(j, outcome) ==
    /\ On(j, "apply")
    /\ listening' = (listening \/ (isRunning /\ outcome # "failed"))
    /\ To(j, IF outcome # "applied" THEN "drop" ELSE IF attached THEN "permission" ELSE "start")
    /\ UNCHANGED <<intentVars, controlVars, tunRunning, tunUp, isRunning, lock, missed>>

(* Flutter opens the core's listeners and then asks for the service; its   *)
(* scheduler lets one command go at a time.                                *)
FlutterStart(j) ==
    /\ Fresh(j) /\ attached
    /\ Take(j, "flutter")
    /\ Set(j, "flutterStart", "start")
    /\ UNCHANGED <<intentVars, controlVars, coreVars, missed>>

(* requestStart asks for nothing that is there already.                    *)
RequestStart(j) ==
    /\ On(j, "flutterStart")
    /\ Give({"flutter"})
    /\ IF shown = "STARTED" /\ runtime
       THEN To(j, "ended") /\ UNCHANGED <<latest, shown>>
       ELSE /\ Request(j, TRUE)
            /\ job' = [job EXCEPT ![j].at = "permission", ![j].token = latest']
    /\ UNCHANGED <<transition, pending, controlVars, coreVars, missed>>

(* The prompts of launchStart.                                             *)
Permission(j, permitted) ==
    /\ On(j, "permission")
    /\ To(j, IF permitted THEN "start" ELSE "drop")
    /\ UNCHANGED <<intentVars, controlVars, coreVars, lock, missed>>

(* runStart prepares one start at a time.                                  *)
BeginStart(j) ==
    /\ On(j, "start")
    /\ IF IsCurrent(j)
       THEN Take(j, "preparation") /\ To(j, "prepare")
       ELSE lock["preparation"] = None /\ To(j, "drop") /\ UNCHANGED lock
    /\ UNCHANGED <<intentVars, controlVars, coreVars, missed>>

(* prepareVpn asks the user through the application, if there is one.      *)
PrepareVpn(j) ==
    /\ On(j, "prepare")
    /\ attached
    /\ pending' = j
    /\ To(j, "prompt")
    /\ UNCHANGED <<latest, transition, shown, controlVars, coreVars, lock, missed>>

Prepared(j, granted) ==
    /\ \/ On(j, "prepare") /\ ~attached /\ UNCHANGED pending
       \/ On(j, "prompt") /\ pending = j /\ pending' = None
    /\ IF granted THEN To(j, "enter") /\ UNCHANGED lock
                  ELSE To(j, "drop") /\ Give({"preparation"})
    /\ UNCHANGED <<latest, transition, shown, controlVars, coreVars, missed>>

(* A stop takes the prompt away.                                           *)
PromptAbandoned(j) ==
    /\ On(j, "prompt") /\ pending # j
    /\ To(j, "drop") /\ Give({"preparation"})
    /\ UNCHANGED <<intentVars, controlVars, coreVars, missed>>

(* A newer request may have come while the start waited.                   *)
EnterStart(j) ==
    /\ On(j, "enter")
    /\ lock["transition"] = None
    /\ IF IsCurrent(j) /\ ~runtime
       THEN /\ Take(j, "transition")
            /\ transition' = "STARTING"
            /\ To(j, "bind")
            /\ Publish("STARTING", latest)
       ELSE /\ Give({"preparation"})
            /\ To(j, IF IsCurrent(j) THEN "ended" ELSE "drop")
            /\ UNCHANGED <<transition, shown>>
    /\ Miss(TakenForUp(j))
    /\ UNCHANGED <<latest, pending, controlVars, coreVars>>

(* ServiceController.start binds the service anew if it has to.            *)
Bind(j, bound) ==
    /\ On(j, "bind")
    /\ Take(j, "controller")
    /\ binding' = IF binding # None THEN binding ELSE IF bound THEN j ELSE None
    /\ IF binding' = None
       THEN To(j, "release")
       ELSE To(j, "establish")
    /\ UNCHANGED <<intentVars, runtime, coreVars, missed>>

(* VpnService.start: the system may refuse the VPN ...                     *)
Establish(j, established) ==
    /\ On(j, "establish")
    /\ IF established
       THEN tunUp' = TRUE /\ To(j, "adopt")
       ELSE To(j, "stopService") /\ UNCHANGED tunUp
    /\ UNCHANGED <<intentVars, controlVars, tunRunning, isRunning, listening, lock, missed>>

(* ... and the core the descriptor, of an interface that may be gone;      *)
(* StartTun starts the listeners that do not run.                          *)
Adopt(j, up) ==
    /\ On(j, "adopt")
    /\ Take(j, "tun")
    /\ tunRunning' = TRUE
    /\ IF up THEN Set(j, "established", StartIfStopped)
             ELSE To(j, "refused")
    /\ UNCHANGED <<intentVars, controlVars, tunUp, isRunning, listening, missed>>

(* A descriptor the core refused takes its VPN down.                       *)
Refused(j) ==
    /\ On(j, "refused")
    /\ tunRunning' = FALSE /\ tunUp' = FALSE
    /\ Set(j, "refusedStopped", StopIfRunning)
    /\ UNCHANGED <<intentVars, controlVars, isRunning, listening, lock, missed>>

RefusedStopped(j) ==
    /\ On(j, "refusedStopped")
    /\ Give({"tun"})
    /\ To(j, "stopService")
    /\ UNCHANGED <<intentVars, controlVars, coreVars, missed>>

(* The service runs; the controller calls StartListener once more.         *)
Established(j) ==
    /\ On(j, "established")
    /\ Give({"tun"})
    /\ Set(j, "running", StartIfStopped)
    /\ UNCHANGED <<intentVars, controlVars, coreVars, missed>>

Running(j) ==
    /\ On(j, "running")
    /\ runtime' = TRUE
    /\ Give({"controller"})
    /\ To(j, "leave")
    /\ UNCHANGED <<intentVars, binding, coreVars, missed>>

(* VpnService.stop, of a failed start too; stopTun does nothing twice.     *)
StopService(j) ==
    /\ On(j, "stopService")
    /\ IF tunRunning
       THEN /\ Take(j, "tun")
            /\ tunRunning' = FALSE /\ tunUp' = FALSE
            /\ Set(j, "release", StopIfRunning)
       ELSE /\ lock["tun"] = None
            /\ To(j, "release")
            /\ UNCHANGED <<tunRunning, tunUp, lock>>
    /\ UNCHANGED <<intentVars, controlVars, isRunning, listening, missed>>

Starting(j) == lock["preparation"] = j

(* release: every path that ends a run closes the listeners.               *)
Release(j) ==
    /\ On(j, "release")
    /\ runtime' = FALSE /\ binding' = None
    /\ Give({l \in {"tun"} : lock[l] = j})
    /\ Set(j, IF Starting(j) THEN "leaveFailed" ELSE "leaveStop", StopIfRunning)
    /\ UNCHANGED <<intentVars, coreVars, missed>>

(* transitioning ends; a start that was overtaken has failed too.          *)
Leave(j) ==
    /\ \E at \in {"leave", "leaveFailed", "leaveStop"} : On(j, at)
    /\ transition' = None
    /\ Publish(None, latest)
    /\ Give({l \in Locks : lock[l] = j})
    /\ To(j, IF On(j, "leaveStop") \/ (On(j, "leave") /\ IsCurrent(j)) THEN "ended" ELSE "drop")
    /\ UNCHANGED <<latest, pending, controlVars, coreVars, missed>>

(* abandon.                                                                *)
Drop(j) ==
    /\ On(j, "drop")
    /\ ResetToStopped(job[j].token)
    /\ To(j, "reconcile")
    /\ UNCHANGED <<transition, shown, pending, controlVars, coreVars, lock, missed>>

LeavesOpened(j) == To(j, "ended") /\ UNCHANGED lock

(* No run and none wanted: the listeners that were opened ahead of it go.  *)
CloseAhead(j) == Take(j, "transition") /\ To(j, "teardown")

(* stopLocked.                                                             *)
BeginStopping(j) ==
    /\ transition' = "STOPPING"
    /\ Publish("STOPPING", latest)
    /\ Take(j, "transition")
    /\ To(j, "teardown")

(* reconcileStopped.                                                       *)
Reconcile(j) ==
    /\ On(j, "reconcile")
    /\ lock["transition"] = None
    /\ IF latest.running
       THEN /\ To(j, "ended")
            /\ Publish(transition, latest)
            /\ UNCHANGED <<lock, transition>>
       ELSE IF runtime
       THEN BeginStopping(j)
       ELSE CloseAhead(j) /\ UNCHANGED <<transition, shown>>
    /\ UNCHANGED <<latest, pending, controlVars, coreVars>>
    /\ Miss(TakenForRun \/ FlagLeft)

-----------------------------------------------------------------------------
(* A stop.                                                                 *)

(* handleStopAction, from the notification or a tile.                      *)
StopAction(j) ==
    /\ Fresh(j)
    /\ latest.running
    /\ To(j, "claimStop")
    /\ UNCHANGED <<intentVars, controlVars, coreVars, lock, missed>>

ClaimStop(j) ==
    /\ On(j, "claimStop")
    /\ Request(j, FALSE)
    /\ job' = [job EXCEPT ![j].at = "stop", ![j].token = latest']
    /\ UNCHANGED <<transition, pending, controlVars, coreVars, lock, missed>>

(* Flutter asks the service to stop and then closes the listeners itself;  *)
(* the service's own stop is another job.                                  *)
FlutterStop(j, i) ==
    /\ Fresh(j) /\ attached
    /\ i = j + 1 /\ i \in Jobs
    /\ Take(j, "flutter")
    /\ Request(i, FALSE)
    /\ job' = [job EXCEPT ![j] = [NoJob EXCEPT !.at = "flutterStopped", !.core = "stop"],
                          ![i] = [NoJob EXCEPT !.at = "stop", !.token = latest']]
    /\ UNCHANGED <<transition, pending, controlVars, coreVars, missed>>

FlutterStopped(j) ==
    /\ On(j, "flutterStopped")
    /\ Give({"flutter"})
    /\ To(j, "ended")
    /\ UNCHANGED <<intentVars, controlVars, coreVars, missed>>

WaitsForPrompt == {"transition", "preparation"}

(* A start at its prompt holds the preparation lock; a stop needs it not.  *)
StopWaitsFor == {"transition"}

(* stop, unless a newer request came; the prompt goes first.               *)
Stop(j) ==
    /\ On(j, "stop")
    /\ \A l \in StopWaitsFor : lock[l] = None
    /\ IF ~IsCurrent(j)
       THEN To(j, "ended") /\ UNCHANGED <<intentVars, lock>>
       ELSE /\ pending' = None
            /\ IF runtime
               THEN BeginStopping(j)
               ELSE To(j, "ended") /\ UNCHANGED <<transition, shown, lock>>
            /\ UNCHANGED latest
    /\ UNCHANGED <<controlVars, coreVars, missed>>

(* ServiceController.stop: tearDownServices and then release.              *)
TearDown(j) ==
    /\ On(j, "teardown")
    /\ Take(j, "controller")
    /\ To(j, "stopService")
    /\ UNCHANGED <<intentVars, controlVars, coreVars, missed>>

-----------------------------------------------------------------------------
(* What the system does to a run.                                          *)

(* stopTun, if there is one.                                               *)
TunStops(j, at) ==
    /\ tunRunning
    /\ Take(j, "tun")
    /\ tunRunning' = FALSE /\ tunUp' = FALSE
    /\ Set(j, at, StopIfRunning)

(* The system takes the interface away and tells the service, which may    *)
(* not have handed it to the core yet, or have stopped since.              *)
Revoke(j) ==
    /\ Fresh(j)
    /\ tunUp
    /\ tunUp' = FALSE
    /\ To(j, "onRevoke")
    /\ UNCHANGED <<intentVars, controlVars, tunRunning, isRunning, listening, lock, missed>>

(* onRevoke stops the service and notifies the application.                *)
OnRevoke(j) ==
    /\ On(j, "onRevoke")
    /\ \/ TunStops(j, "revoked")
       \/ /\ ~tunRunning /\ lock["tun"] = None
          /\ To(j, "revokeAction")
          /\ UNCHANGED <<tunRunning, tunUp, lock>>
    /\ UNCHANGED <<intentVars, controlVars, isRunning, listening, missed>>

(* onDestroy of a service that is lost, with the TUN it has.               *)
ServiceEnds(j) ==
    /\ Fresh(j)
    /\ TunStops(j, "disconnected")
    /\ UNCHANGED <<intentVars, controlVars, isRunning, listening, missed>>

NotifyRevoked(j) ==
    /\ On(j, "revoked")
    /\ Give({"tun"})
    /\ To(j, "revokeAction")
    /\ UNCHANGED <<intentVars, controlVars, coreVars, missed>>

(* handleVpnRevokeAction stops the run there is.                           *)
RevokeAction(j) ==
    /\ On(j, "revokeAction")
    /\ To(j, IF runtime /\ latest.running THEN "claimStop" ELSE "ended")
    /\ Miss(HeardTooSoon)
    /\ UNCHANGED <<intentVars, controlVars, coreVars, lock>>

(* handleServiceDisconnected: the request that was current is remembered.  *)
Disconnected(j) ==
    /\ On(j, "disconnected")
    /\ Give({"tun"})
    /\ job' = [job EXCEPT ![j].at = "lost", ![j].token = latest, ![j].binding = binding]
    /\ UNCHANGED <<intentVars, controlVars, coreVars, missed>>

LoseBinding(j) ==
    /\ On(j, "lost")
    /\ lock["controller"] = None
    /\ IF binding # None /\ binding = job[j].binding
       THEN /\ runtime' = FALSE /\ binding' = None
            /\ Take(j, "controller")
            /\ Set(j, "released", StopIfRunning)
       ELSE To(j, "ended") /\ UNCHANGED <<controlVars, lock>>
    /\ UNCHANGED <<intentVars, coreVars, missed>>

Released(j) ==
    /\ On(j, "released")
    /\ Give({"controller"})
    /\ To(j, "settle")
    /\ UNCHANGED <<intentVars, controlVars, coreVars, missed>>

(* handleServiceLost leaves a start that raced ahead its intent.           *)
ServiceLost(j) ==
    /\ On(j, "settle")
    /\ lock["transition"] = None
    /\ IF runtime
       THEN UNCHANGED <<latest, shown>>
       ELSE ResetToStopped(job[j].token) /\ Publish(transition, latest')
    /\ To(j, "ended")
    /\ UNCHANGED <<transition, pending, controlVars, coreVars, lock, missed>>
-----------------------------------------------------------------------------
(* handleUpdateDns: the number is taken by the caller, the rest is a       *)
(* goroutine's.                                                            *)

UpdateDns(u) ==
    /\ update[u] = "none"
    /\ \A v \in 1..(u - 1) : update[v] # "none"
    /\ update' = [update EXCEPT ![u] = "started"]
    /\ UNCHANGED <<servers, dnsUpdateMu>>

Newest(u) == \A v \in Updates : v > u => update[v] = "none"

LockDns(u) == dnsUpdateMu = None /\ dnsUpdateMu' = u

LookAtSeq(u) ==
    /\ update[u] = "started"
    /\ IF Newest(u)
       THEN LockDns(u) /\ update' = [update EXCEPT ![u] = "setting"]
       ELSE /\ dnsUpdateMu = None
            /\ update' = [update EXCEPT ![u] = "done"]
            /\ UNCHANGED dnsUpdateMu
    /\ UNCHANGED servers

UpdateSystemDns(u) ==
    /\ update[u] = "setting"
    /\ servers' = u
    /\ update' = [update EXCEPT ![u] = "done"]
    /\ dnsUpdateMu' = None

-----------------------------------------------------------------------------
(* A job's own steps, the user's answers left out.                         *)
Working(j) ==
    \/ CoreActs(j)
    \/ \E configured \in BOOLEAN : Claim(j, configured)
    \/ QuickSetup(j)
    \/ \E outcome \in {"applied", "rejected", "failed"} : QuickApply(j, outcome)
    \/ RequestStart(j) \/ BeginStart(j) \/ PrepareVpn(j)
    \/ \E granted \in BOOLEAN : On(j, "prepare") /\ Prepared(j, granted)
    \/ PromptAbandoned(j) \/ EnterStart(j)
    \/ \E bound \in BOOLEAN : Bind(j, bound)
    \/ \E established \in BOOLEAN : Establish(j, established)
    \/ \E up \in BOOLEAN : Adopt(j, up)
    \/ Refused(j) \/ RefusedStopped(j) \/ Established(j) \/ Running(j)
    \/ StopService(j) \/ Release(j) \/ Leave(j)
    \/ Drop(j) \/ Reconcile(j)
    \/ ClaimStop(j) \/ FlutterStopped(j) \/ Stop(j) \/ TearDown(j)
    \/ OnRevoke(j) \/ NotifyRevoked(j) \/ RevokeAction(j)
    \/ Disconnected(j) \/ LoseBinding(j) \/ Released(j) \/ ServiceLost(j)

Answering(j) ==
    \/ \E permitted \in BOOLEAN : Permission(j, permitted)
    \/ \E granted \in BOOLEAN : On(j, "prompt") /\ Prepared(j, granted)

Coming(j) ==
    \/ StartAction(j) \/ FlutterStart(j)
    \/ StopAction(j) \/ (\E i \in Jobs : FlutterStop(j, i))
    \/ Revoke(j) \/ ServiceEnds(j)

AtRest == \A j \in Jobs : job[j].at \in {"idle", "ended"} /\ job[j].core = "none"

Quiet == AtRest /\ UNCHANGED <<runVars, isRunning>>

DnsStep(u) == UpdateDns(u) \/ LookAtSeq(u) \/ UpdateSystemDns(u)

DnsQuiet == (\A u \in Updates : update[u] = "done") /\ UNCHANGED dnsVars

TunView(A) == view = "tun" /\ A /\ UNCHANGED <<view, attached, runVars, dnsVars>>
RunsView(A) == view = "runs" /\ A /\ UNCHANGED <<view, tunOnly, dnsVars>>
JobsView(A) == RunsView(A /\ UNCHANGED attached)
DnsView(A) == view = "dns" /\ A /\ UNCHANGED <<view, attached, vars, runVars>>

RNext ==
    \/ TunView(Next)
    \/ RunsView(Attach \/ Detach)
    \/ JobsView(\E j \in Jobs : Coming(j) \/ Working(j) \/ Answering(j))
    \/ JobsView(Quiet)
    \/ DnsView(\E u \in Updates : DnsStep(u))
    \/ DnsView(DnsQuiet)

RSpec == RInit /\ [][RNext]_allVars

(* The call and the dials run on; configMu and mu are granted in turn, and *)
(* a socket left from an earlier start is closed with its TUN.  Jobs run   *)
(* on, and as there are finitely many steps of them they may be fair as    *)
(* one; a prompt may stay unanswered.                                      *)
Fairness ==
    /\ SF_allVars(TunView(Calling))
    /\ \A s \in Sockets : WF_allVars(TunView(Dialing(s)))
    /\ WF_allVars(TunView(CloseSocket(Own)))
    /\ WF_allVars(JobsView(\E j \in Jobs : Working(j)))

FairSpec == RSpec /\ Fairness

-----------------------------------------------------------------------------
(* Properties.                                                             *)

(* Whatever overtook what: once nothing is under way, the state shown is   *)
(* that of the run, a run is wanted, and an interface has its run.  Where  *)
(* none of the gaps above was met there is a run if one is wanted, and the *)
(* core has its TUN, its ports and its running flag exactly while it is.   *)
RunSettles ==
    view = "runs" /\ AtRest =>
        /\ shown = IF runtime THEN "STARTED" ELSE "STOPPED"
        /\ runtime => latest.running
        /\ tunUp => runtime
        /\ ~missed => {latest.running, tunUp, isRunning, listening} = {runtime}

(* Once no DNS update is under way, the servers are the newest ones.       *)
DnsSettles ==
    (\A u \in Updates : update[u] \in {"none", "done"}) =>
        servers = Cardinality({u \in Updates : update[u] # "none"})

(* Whatever was started, whoever overtook whom, once nothing is under way  *)
(* the application and the core agree, as far as RunSettles says, and the  *)
(* newest DNS update has won.                                              *)
SettledAgrees == RunSettles /\ DnsSettles

(* What a comment of ServiceStateMachine.kt (41-43) says of the state      *)
(* shown: "no path can leave it claiming a service that is not there".     *)
(* Once nothing is under way, a run shown as started has at least its TUN  *)
(* or its ports.                                                           *)
ShownIsThere ==
    view = "runs" /\ AtRest /\ shown = "STARTED" => tunUp \/ listening

(* A stop ends, and with it whatever prompt the start it overtakes waits   *)
(* at: no stop waits for an answer of the user.                            *)
StopsEnd ==
    \A j \in Jobs : job[j].at = "stop" ~> job[j].at = "ended"
=============================================================================

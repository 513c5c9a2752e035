------------------------------- MODULE LogPump -------------------------------
(***************************************************************************)
(* core/log.go: what the core and mihomo log, on its way to the queues.  A *)
(* logger hands its event to mihomo's observable and waits until it has    *)
(* taken it; the observable emits it to its subscribers under a lock of    *)
(* its own, waiting where a buffer is full; a pump reads the buffer and    *)
(* calls sendMessage.  handleStartLog and handleStopLog hold logMu while   *)
(* they wait for the observable's lock.                                    *)
(*                                                                         *)
(* Everyone in this circle but the pump may be waiting for the next one:   *)
(* sendMessage never waits (MessageQueue: a push and an eviction always    *)
(* end), so how full the queues are is of no interest here, and where an   *)
(* event ends up of none there.  A behaviour shows the queues or the logs, *)
(* named by view.  Loggers never tire: nothing here is counted.            *)
(***************************************************************************)
EXTENDS MessageQueue

CONSTANTS
    Pumps,        \* at most so many pumps at once, those that drain included
    BufferSize    \* places in the buffer of a subscription

ASSUME PumpAssumption == BufferSize \in Nat \ {0}

VARIABLES
    view,         \* "queues" or "logs"
    task,         \* per goroutine: a log call, a start or a stop, and where it is
    emitting,     \* what the observable is at: "idle", "taken" or "locked"
    mux,          \* is the observable's lock held?
    subscription, \* the pump whose subscription is open
    buffer,       \* per pump: events in its subscription
    pump,         \* per pump: "none", "reading" or "sending"
    stopped,      \* the pumps told to stop
    activeLog,
    logMu         \* the goroutine that holds it

mihomoVars == <<emitting, mux, subscription, buffer>>
pumpVars   == <<pump, stopped>>
logVars    == <<task, mihomoVars, pumpVars, activeLog, logMu>>
allVars    == <<view, vars, logVars>>

LInit ==
    /\ Init
    /\ view \in {"queues", "logs"}
    /\ task = [s \in Senders |-> "idle"]
    /\ emitting = "idle" /\ mux = FALSE /\ subscription = None
    /\ buffer = [p \in Pumps |-> 0]
    /\ pump = [p \in Pumps |-> "none"] /\ stopped = {}
    /\ activeLog = None /\ logMu = None

Turn(s, place) == task' = [task EXCEPT ![s] = place]

-----------------------------------------------------------------------------
(* mihomo's log package.                                                   *)

(* The channel to the observable has no buffer: the call waits.            *)
Log(s) ==
    /\ task[s] = "idle"
    /\ Turn(s, "log")
    /\ UNCHANGED <<mihomoVars, pumpVars, activeLog, logMu>>

ObservableTakes(s) ==
    /\ task[s] = "log" /\ emitting = "idle"
    /\ Turn(s, "idle")
    /\ emitting' = "taken"
    /\ UNCHANGED <<mux, subscription, buffer, pumpVars, activeLog, logMu>>

ObservableLocks ==
    /\ emitting = "taken" /\ ~mux
    /\ emitting' = "locked" /\ mux' = TRUE
    /\ UNCHANGED <<task, subscription, buffer, pumpVars, activeLog, logMu>>

(* Under its lock it waits for a place in the buffer.                      *)
Emit ==
    /\ emitting = "locked"
    /\ IF subscription = None
       THEN UNCHANGED buffer
       ELSE /\ buffer[subscription] < BufferSize
            /\ buffer' = [buffer EXCEPT ![subscription] = @ + 1]
    /\ emitting' = "idle" /\ mux' = FALSE
    /\ UNCHANGED <<task, subscription, pumpVars, activeLog, logMu>>

-----------------------------------------------------------------------------
(* logPump.run.                                                            *)

LeavesWhenStopped(p) == p \in stopped

(* The pump leaves when its subscription is closed and read to the end.    *)
LeavesLoop(p) == subscription # p /\ buffer[p] = 0

(* A stopped pump reads on, and so does one that hears of too fine a level. *)
PumpReads(p, wanted) ==
    /\ pump[p] = "reading"
    /\ ~LeavesLoop(p)
    /\ buffer[p] > 0
    /\ buffer' = [buffer EXCEPT ![p] = @ - 1]
    /\ pump' = [pump EXCEPT ![p] = IF wanted /\ p \notin stopped THEN "sending" ELSE "reading"]
    /\ UNCHANGED <<task, emitting, mux, subscription, stopped, activeLog, logMu>>

(* sendMessage comes back whatever the queue is like.                      *)
PumpSends(p) ==
    /\ pump[p] = "sending"
    /\ pump' = [pump EXCEPT ![p] = "reading"]
    /\ UNCHANGED <<task, mihomoVars, stopped, activeLog, logMu>>

PumpEnds(p) ==
    /\ pump[p] = "reading"
    /\ LeavesLoop(p)
    /\ pump' = [pump EXCEPT ![p] = "none"]
    /\ stopped' = stopped \ {p}
    /\ UNCHANGED <<task, mihomoVars, activeLog, logMu>>

-----------------------------------------------------------------------------
(* handleStartLog and handleStopLog; the shutdown calls the second too.    *)

CallLog(s, what) ==
    /\ task[s] = "idle"
    /\ Turn(s, what)
    /\ UNCHANGED <<mihomoVars, pumpVars, activeLog, logMu>>

(* Under logMu the pump there is gets told first...                        *)
StopFirst(s) ==
    /\ task[s] \in {"start", "stop"}
    /\ logMu = None
    /\ logMu' = s
    /\ stopped' = stopped \cup {p \in Pumps : p = activeLog}
    /\ Turn(s, IF activeLog # None
               THEN IF task[s] = "start" THEN "replace" ELSE "unsubscribe"
               ELSE IF task[s] = "start" THEN "subscribe" ELSE "unlock")
    /\ UNCHANGED <<mihomoVars, pump, activeLog>>

(* ...and then loses its subscription, under the observable's lock.        *)
Unsubscribe(s) ==
    /\ task[s] \in {"replace", "unsubscribe"}
    /\ ~mux
    /\ subscription' = None
    /\ activeLog' = None
    /\ Turn(s, IF task[s] = "replace" THEN "subscribe" ELSE "unlock")
    /\ UNCHANGED <<emitting, mux, buffer, pumpVars, logMu>>

(* A new pump has a subscription of its own.                               *)
Subscribe(s, p) ==
    /\ task[s] = "subscribe"
    /\ ~mux
    /\ pump[p] = "none"
    /\ pump' = [pump EXCEPT ![p] = "reading"]
    /\ buffer' = [buffer EXCEPT ![p] = 0]
    /\ subscription' = p
    /\ activeLog' = p
    /\ Turn(s, "unlock")
    /\ UNCHANGED <<emitting, mux, stopped, logMu>>

UnlockLog(s) ==
    /\ task[s] = "unlock"
    /\ logMu' = None
    /\ Turn(s, "idle")
    /\ UNCHANGED <<mihomoVars, pumpVars, activeLog>>

-----------------------------------------------------------------------------
Observing == ObservableLocks \/ Emit

Pumping(p) == (\E wanted \in BOOLEAN : PumpReads(p, wanted)) \/ PumpSends(p) \/ PumpEnds(p)

Calling(s) == StopFirst(s) \/ Unsubscribe(s) \/ (\E p \in Pumps : Subscribe(s, p)) \/ UnlockLog(s)

Logs ==
    \/ \E s \in Senders :
        \/ Log(s) \/ ObservableTakes(s) \/ Calling(s)
        \/ \E what \in {"start", "stop"} : CallLog(s, what)
    \/ Observing
    \/ \E p \in Pumps : Pumping(p)

LNext ==
    \/ view = "queues" /\ Next /\ UNCHANGED <<view, logVars>>
    \/ view = "logs" /\ Logs /\ UNCHANGED <<view, vars>>

LSpec == LInit /\ [][LNext]_allVars

QueueView(A) == view = "queues" /\ A /\ UNCHANGED <<view, logVars>>
LogView(A) == view = "logs" /\ A /\ UNCHANGED <<view, vars>>

(* The batcher and a send under way run on; the timer fires.  So do the    *)
(* observable and the pumps.  Mutexes and the channel of the observable    *)
(* are handed to whoever keeps waiting for them.                           *)
FairSpec ==
    /\ LSpec
    /\ WF_allVars(QueueView(Batcher))
    /\ \A s \in Senders :
        /\ WF_allVars(QueueView(Sending(s)))
        /\ SF_allVars(LogView(ObservableTakes(s) \/ Calling(s)))
    /\ WF_allVars(LogView(Observing))
    /\ \A p \in Pumps : WF_allVars(LogView(Pumping(p)))

-----------------------------------------------------------------------------
(* Properties.                                                             *)

(* Every log call, start and stop comes back, under a flood of events,     *)
(* with a full buffer and with pumps started and stopped over and over: no *)
(* pump leaves a subscription that the observable still fills, which would *)
(* hold up every logger of the core and the unsubscribe itself.            *)
LoggingEnds == \A s \in Senders : task[s] # "idle" ~> task[s] = "idle"
=============================================================================

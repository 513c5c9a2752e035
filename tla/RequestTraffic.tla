--------------------------- MODULE RequestTraffic ---------------------------
(***************************************************************************)
(* core/request_traffic.go: how the request list of the host learns the    *)
(* traffic of a request after it was announced.  A goroutine reports what  *)
(* changed once a second, while connections carry bytes and close, and     *)
(* while the host's engine goes away and comes back.                       *)
(*                                                                         *)
(* Upload and download are one number.  w.mu is held through a collect,    *)
(* which asks the manager and then reads the counters of one request after *)
(* the other; connections do not take that lock.  What the bulk queue      *)
(* makes of a report, taken, full or pushed out again by a later log line, *)
(* is the environment's choice here; MessageQueue is the queue itself.     *)
(***************************************************************************)
EXTENDS Naturals, Sequences, FiniteSets

CONSTANTS
    Requests,
    CloseRetries,   \* requestTrafficCloseRetries
    MaxTotal,       \* bound on the bytes of a request
    MaxReports,     \* bound on the reports in the bulk queue
    MaxSessions,    \* bound on engines
    None

Loops == 1..2       \* goroutines: a second one would be one too many

(* A report names the totals of some requests.                             *)
Reports == UNION {[S -> 0..MaxTotal] : S \in SUBSET Requests}

Scans == [by : Loops, todo : SUBSET Requests, tested : Requests \cup {None}, changed : Reports]

ASSUME TrafficAssumption ==
    /\ CloseRetries \in Nat
    /\ MaxTotal \in Nat /\ MaxReports \in Nat /\ MaxSessions \in Nat
    /\ None \notin Requests \cup Scans

VARIABLES
    listening,      \* hasEventListener
    session,        \* which engine listens
    life,           \* per request: none, announced, added, open, closed
    total,          \* per request: its counters
    heardBy,        \* per request: the session it was announced to
    requests,       \* the watch's map: last report, fresh, closedReports
    running,        \* the watch's flag
    loop,           \* per goroutine: where it is
    scan,           \* the collect under way, which holds w.mu, or None
    reports,        \* the reports in the bulk queue
    shown,          \* per request: what the host shows
    gaveUp,         \* history: requests a full queue took a report of, or
                    \* that were given up after the retries
    swept           \* history: requests cleared though their engine listens

hostVars  == <<listening, session, shown>>
connVars  == <<life, total, heardBy>>
watchVars == <<requests, running, gaveUp, swept>>
vars == <<hostVars, connVars, watchVars, loop, scan, reports>>

Init ==
    /\ listening = TRUE /\ session = 1
    /\ life = [r \in Requests |-> "none"]
    /\ total = [r \in Requests |-> 0]
    /\ heardBy = [r \in Requests |-> None]
    /\ requests = [r \in {} |-> None]
    /\ running = FALSE
    /\ loop = [g \in Loops |-> "none"]
    /\ scan = None
    /\ reports = <<>>
    /\ shown = [r \in Requests |-> 0]
    /\ gaveUp = {} /\ swept = {}

Watched == DOMAIN requests

-----------------------------------------------------------------------------
(* The host's engine.                                                      *)

Detach ==
    /\ listening
    /\ listening' = FALSE
    /\ UNCHANGED <<session, shown, connVars, watchVars, loop, scan, reports>>

Attach ==
    /\ ~listening
    /\ session < MaxSessions
    /\ listening' = TRUE
    /\ session' = session + 1
    /\ UNCHANGED <<shown, connVars, watchVars, loop, scan, reports>>

(* A batch is delivered; without a listener it is dropped.                 *)
Deliver ==
    /\ reports # <<>>
    /\ reports' = Tail(reports)
    /\ shown' = IF listening
                THEN [r \in Requests |-> IF r \in DOMAIN Head(reports)
                                         THEN Head(reports)[r] ELSE shown[r]]
                ELSE shown
    /\ UNCHANGED <<listening, session, connVars, watchVars, loop, scan>>

(* A log line or a request makes room for itself in the full queue.        *)
PushOut ==
    /\ reports # <<>>
    /\ reports' = Tail(reports)
    /\ gaveUp' = gaveUp \cup DOMAIN Head(reports)
    /\ UNCHANGED <<hostVars, connVars, requests, running, swept, loop, scan>>

-----------------------------------------------------------------------------
(* A connection.                                                           *)

(* The hook announces a request only to a listener.                        *)
Announce(r) ==
    /\ life[r] = "none"
    /\ listening
    /\ life' = [life EXCEPT ![r] = "announced"]
    /\ heardBy' = [heardBy EXCEPT ![r] = session]
    /\ UNCHANGED <<hostVars, total, watchVars, loop, scan, reports>>

(* add starts a goroutine only if none runs.                               *)
StartsLoop == ~running

(* watchRequestTraffic, under w.mu.                                        *)
Add(r) ==
    /\ life[r] = "announced"
    /\ scan = None
    /\ life' = [life EXCEPT ![r] = "added"]
    /\ requests' = [x \in Watched \cup {r} |->
                       IF x = r THEN [last |-> total[r], fresh |-> TRUE, closed |-> 0]
                                ELSE requests[x]]
    /\ running' = TRUE
    /\ IF StartsLoop
       THEN \E g \in Loops :
               /\ loop[g] = "none"
               /\ \A h \in Loops : h < g => loop[h] # "none"
               /\ loop' = [loop EXCEPT ![g] = "waiting"]
       ELSE UNCHANGED loop
    /\ UNCHANGED <<hostVars, total, heardBy, gaveUp, swept, scan, reports>>

(* The manager stores the tracker only after it was announced.             *)
Join(r) ==
    /\ life[r] = "added"
    /\ life' = [life EXCEPT ![r] = "open"]
    /\ UNCHANGED <<hostVars, total, heardBy, watchVars, loop, scan, reports>>

Carry(r) ==
    /\ life[r] = "open"
    /\ total[r] < MaxTotal
    /\ total' = [total EXCEPT ![r] = @ + 1]
    /\ UNCHANGED <<hostVars, life, heardBy, watchVars, loop, scan, reports>>

Leave(r) ==
    /\ life[r] = "open"
    /\ life' = [life EXCEPT ![r] = "closed"]
    /\ UNCHANGED <<hostVars, total, heardBy, watchVars, loop, scan, reports>>

-----------------------------------------------------------------------------
(* The goroutine.                                                          *)

(* A second lies between two ticks: a request that was seen once has been  *)
(* stored by the manager since.                                            *)
ASecondLater ==
    \A r \in Watched : life[r] = "added" => requests[r].fresh

(* The tick looks for a listener before it takes w.mu.                     *)
Tick(g) ==
    /\ loop[g] = "waiting"
    /\ ASecondLater
    /\ loop' = [loop EXCEPT ![g] = IF listening THEN "collect" ELSE "clear"]
    /\ UNCHANGED <<hostVars, connVars, watchVars, scan, reports>>

KeepsRunning == running

ClearedRunning == FALSE

Clear(g) ==
    /\ loop[g] = "clear"
    /\ scan = None
    /\ requests' = [r \in {} |-> None]
    /\ running' = ClearedRunning
    /\ swept' = swept \cup {r \in Watched : listening /\ heardBy[r] = session}
    /\ loop' = [loop EXCEPT ![g] = "none"]
    /\ UNCHANGED <<hostVars, connVars, gaveUp, scan, reports>>

BeginCollect(g) ==
    /\ loop[g] = "collect"
    /\ scan = None
    /\ scan' = [by |-> g, todo |-> Watched, tested |-> None,
                changed |-> [r \in {} |-> 0]]
    /\ UNCHANGED <<hostVars, connVars, watchVars, loop, reports>>

IgnoresFresh(r) == life[r] # "open"

(* Has the manager let the request go?  Not asked of a fresh one.          *)
HasLeft(r) == ~requests[r].fresh /\ life[r] # "open"

(* The manager is asked first, so counters read afterwards are final.      *)
AskManager(r) ==
    /\ scan # None
    /\ scan.tested = None
    /\ r \in scan.todo
    /\ scan' = [scan EXCEPT !.tested = r]
    /\ requests' = [requests EXCEPT ![r].closed = IF @ > 0 \/ HasLeft(r) THEN @ + 1 ELSE @,
                                    ![r].fresh = FALSE]
    /\ UNCHANGED <<hostVars, connVars, running, gaveUp, swept, loop, reports>>

ReadCounters(r) ==
    /\ scan # None
    /\ scan.tested = r
    /\ scan' = [scan EXCEPT
                   !.tested = None,
                   !.todo = @ \ {r},
                   !.changed = IF total[r] = requests[r].last THEN @
                               ELSE [x \in DOMAIN @ \cup {r} |->
                                        IF x = r THEN total[r] ELSE @[x]]]
    /\ UNCHANGED <<hostVars, connVars, watchVars, loop, reports>>

(* A closed request stays until its report was queued, or the retries end. *)
Forgets(r, queued) ==
    requests[r].closed > 0 /\ (queued \/ requests[r].closed > CloseRetries)

(* The report is offered to the queue, which may be full, and closed       *)
(* requests go.                                                            *)
FinishCollect(room) ==
    LET empty  == DOMAIN scan.changed = {}
        queued == empty \/ (listening /\ room)
        kept   == {r \in Watched : ~Forgets(r, queued)}
    IN  /\ scan # None
        /\ scan.todo = {}
        /\ room => Len(reports) < MaxReports
        /\ reports' = IF queued /\ ~empty THEN Append(reports, scan.changed) ELSE reports
        /\ requests' = [r \in kept |->
                           IF queued /\ r \in DOMAIN scan.changed
                           THEN [requests[r] EXCEPT !.last = scan.changed[r]]
                           ELSE requests[r]]
        /\ running' = (kept # {})
        /\ gaveUp' = gaveUp \cup
              {r \in Watched \ kept : ~queued /\ requests[r].closed > CloseRetries}
        /\ loop' = [loop EXCEPT ![scan.by] = IF kept = {} THEN "none" ELSE "waiting"]
        /\ scan' = None
        /\ UNCHANGED <<hostVars, connVars, swept>>

-----------------------------------------------------------------------------
Next ==
    \/ Detach \/ Attach \/ Deliver \/ PushOut
    \/ \E r \in Requests : Announce(r) \/ Add(r) \/ Join(r) \/ Carry(r) \/ Leave(r)
    \/ \E g \in Loops : Tick(g) \/ Clear(g) \/ BeginCollect(g)
    \/ \E r \in Requests : AskManager(r) \/ ReadCounters(r)
    \/ \E room \in BOOLEAN : FinishCollect(room)

Spec == Init /\ [][Next]_vars

-----------------------------------------------------------------------------
(* Properties.                                                             *)

Entry == [last: 0..MaxTotal, fresh: BOOLEAN, closed: 0..(CloseRetries + 1)]

(* Exactly one goroutine serves the watch while its flag is up, and none   *)
(* while it is down; no request is watched without one.                    *)
OneLoopWhileRunning ==
    /\ Cardinality({g \in Loops : loop[g] # "none"}) = (IF running THEN 1 ELSE 0)
    /\ Watched # {} => running

Queued(r) == \E i \in DOMAIN reports : /\ r \in DOMAIN reports[i]
                                       /\ reports[i][r] = total[r]

(* The host that heard of a request learns its traffic: the request is     *)
(* watched, or it is closed and its last total is shown or on its way,     *)
(* unless the full queue took a report of it or refused all the retries,   *)
(* or a tick that still saw no engine swept it away.                       *)
TotalsNotLost ==
    \A r \in Requests :
        /\ life[r] \in {"added", "open", "closed"}
        /\ listening /\ heardBy[r] = session
        /\ r \notin gaveUp \cup swept
        => \/ r \in Watched
           \/ life[r] = "closed" /\ (shown[r] = total[r] \/ Queued(r))
=============================================================================

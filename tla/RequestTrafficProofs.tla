-------------------------- MODULE RequestTrafficProofs --------------------------
(* Proofs about the request traffic watch, for any number of requests and  *)
(* engines, every bound on bytes and reports and any number of retries.    *)
EXTENDS RequestTraffic, FiniteSetTheorems, SequenceTheorems, TLAPS

Lives == {"none", "announced", "added", "open", "closed"}

Entries == [last : 0..MaxTotal, fresh : BOOLEAN, closed : Nat]

ConnTypeOK ==
    /\ listening \in BOOLEAN /\ session \in Nat
    /\ life \in [Requests -> Lives]
    /\ total \in [Requests -> 0..MaxTotal]
    /\ shown \in [Requests -> 0..MaxTotal]
    /\ \A r \in Requests : life[r] # "none" => heardBy[r] \in 0..session
    /\ heardBy \in [Requests -> Nat \cup {None}]

WatchTypeOK ==
    /\ Watched \subseteq Requests
    /\ requests \in [Watched -> Entries]
    /\ reports \in Seq(Reports)
    /\ scan = None \/ scan \in Scans
    /\ running \in BOOLEAN
    /\ loop \in [Loops -> {"none", "waiting", "collect", "clear"}]

(* While the flag is up one goroutine lives, and while it is down none.    *)
LoopInv ==
    /\ running => \E g \in Loops : loop[g] # "none" /\ \A h \in Loops \ {g} : loop[h] = "none"
    /\ ~running => \A g \in Loops : loop[g] = "none"
    /\ Watched # {} => running
    /\ scan # None => loop[scan.by] = "collect"

WatchInv == ConnTypeOK /\ WatchTypeOK /\ LoopInv

-----------------------------------------------------------------------------
Silent(queue, r) == \A i \in DOMAIN queue : r \notin DOMAIN queue[i]

(* The last the host will have heard of r is v, from the queue or before.  *)
Last(queue, heard, r, v) ==
    \/ Silent(queue, r) /\ heard = v
    \/ \E i \in DOMAIN queue :
        /\ r \in DOMAIN queue[i] /\ queue[i][r] = v
        /\ \A j \in DOMAIN queue : j > i => r \notin DOMAIN queue[j]

Unreported(r) == Silent(reports, r)

Told(r, v) == Last(reports, shown[r], r, v)

(* The engine that heard of r still listens and was owed its traffic.      *)
Owed(r) ==
    /\ life[r] \in {"added", "open", "closed"}
    /\ listening /\ heardBy[r] = session
    /\ r \notin gaveUp \cup swept

Untold(r) == life[r] \in {"none", "announced"} =>
    total[r] = 0 /\ shown[r] = 0 /\ Unreported(r) /\ r \notin Watched

TellsAll(r) ==
    Owed(r) => IF r \in Watched THEN Told(r, requests[r].last)
                                ELSE life[r] = "closed" /\ Told(r, total[r])

(* Only a connection that has closed counts as closed, so its counters are *)
(* final; a request the manager has yet to store is asked for at most once.*)
ClosedIsFinal(r) == r \in Watched /\ requests[r].closed > 0 => life[r] = "closed"

AskedOnce(r) ==
    /\ r \in Watched /\ life[r] = "added" /\ ~requests[r].fresh
    /\ \E g \in Loops : loop[g] = "collect"
    => scan # None /\ (r \notin scan.todo \/ scan.tested = r)

(* What a collect has read of a closed request is its last total.          *)
ScanReads ==
    scan # None =>
        /\ scan.todo \subseteq Watched /\ DOMAIN scan.changed \subseteq Watched \ scan.todo
        /\ scan.tested = None \/ scan.tested \in scan.todo
        /\ \A r \in Watched \ scan.todo : requests[r].closed > 0 =>
              IF r \in DOMAIN scan.changed THEN scan.changed[r] = total[r]
                                           ELSE requests[r].last = total[r]

TellInv ==
    /\ \A r \in Requests : Untold(r) /\ TellsAll(r) /\ ClosedIsFinal(r) /\ AskedOnce(r)
    /\ ScanReads

-----------------------------------------------------------------------------
(* Reports and collects.                                                   *)
LEMMA ReportFacts ==
    /\ \A f \in Reports : DOMAIN f \subseteq Requests /\ \A r \in DOMAIN f : f[r] \in 0..MaxTotal
    /\ \A S \in SUBSET Requests : \A f \in [S -> 0..MaxTotal] : f \in Reports
  BY DEF Reports

(* The fields of a collect.                                                *)
LEMMA ScanFacts ==
    ASSUME WatchTypeOK, scan # None
    PROVE  /\ scan \in Scans /\ scan.by \in Loops /\ scan.todo \subseteq Requests
           /\ scan.tested \in Requests \cup {None} /\ scan.changed \in Reports
  BY DEF WatchTypeOK, Scans

(* Nothing runs in the beginning.                                          *)
LEMMA InitWatch == Init => WatchInv /\ TellInv
<1> SUFFICES ASSUME Init PROVE WatchInv /\ TellInv
  OBVIOUS
<1> USE TrafficAssumption DEF Init
<1>1. Watched = {}
  BY DEF Watched
<1>2. ConnTypeOK
  BY DEF ConnTypeOK, Lives
<1>3. WatchTypeOK
  <2>1. requests \in [Watched -> Entries]
    BY <1>1 DEF Watched
  <2>2. reports \in Seq(Reports)
    BY SMT
  <2>3. running \in BOOLEAN /\ loop \in [Loops -> {"none", "waiting", "collect", "clear"}]
    OBVIOUS
  <2> QED BY <1>1, <2>1, <2>2, <2>3 DEF WatchTypeOK
<1>4. LoopInv
  BY <1>1 DEF LoopInv
<1>5. TellInv
  BY <1>1 DEF TellInv, Untold, TellsAll, Owed, ClosedIsFinal, AskedOnce, ScanReads, Unreported, Silent
<1> QED BY <1>2, <1>3, <1>4, <1>5 DEF WatchInv

(* Connections, counters and engines.                                      *)
LEMMA NextKeepsConn == WatchInv /\ [Next]_vars => ConnTypeOK'
<1> SUFFICES ASSUME WatchInv, [Next]_vars PROVE ConnTypeOK'
  OBVIOUS
<1> USE TrafficAssumption DEF WatchInv, ConnTypeOK
<1>1. CASE Detach \/ Attach
  <2>1. UNCHANGED <<life, total, heardBy, shown>> /\ listening' \in BOOLEAN /\ session' \in {session, session + 1}
    BY <1>1 DEF Detach, Attach, connVars
  <2>2. session' \in Nat /\ 0..session \subseteq 0..session'
    BY <2>1
  <2> QED BY <2>1, <2>2
<1>2. CASE Deliver
  <2>1. UNCHANGED <<listening, session, life, total, heardBy>>
    BY <1>2 DEF Deliver, connVars
  <2>2. Head(reports) \in Reports
    BY <1>2 DEF Deliver, WatchTypeOK
  <2>3. \A r \in DOMAIN Head(reports) : Head(reports)[r] \in 0..MaxTotal
    BY <2>2, ReportFacts
  <2>4. shown' \in [Requests -> 0..MaxTotal]
    BY <1>2, <2>3 DEF Deliver
  <2> QED BY <2>1, <2>4
<1>3. ASSUME NEW r \in Requests, Announce(r) PROVE ConnTypeOK'
  BY <1>3 DEF Announce, hostVars, Lives
<1>4. ASSUME NEW r \in Requests, Add(r) \/ Join(r) \/ Leave(r) PROVE ConnTypeOK'
  <2>1. UNCHANGED <<listening, session, total, shown, heardBy>>
    BY <1>4 DEF Add, Join, Leave, hostVars
  <2>2. PICK place \in {"added", "open", "closed"} : life' = [life EXCEPT ![r] = place] /\ life[r] # "none"
    BY <1>4 DEF Add, Join, Leave
  <2> QED BY <2>1, <2>2 DEF Lives
<1>5. ASSUME NEW r \in Requests, Carry(r) PROVE ConnTypeOK'
  <2>1. UNCHANGED <<listening, session, life, shown, heardBy>> /\ total' = [total EXCEPT ![r] = @ + 1] /\ total[r] < MaxTotal
    BY <1>5 DEF Carry, hostVars
  <2>2. total[r] + 1 \in 0..MaxTotal
    BY <2>1
  <2> QED BY <2>1, <2>2
<1>6. CASE UNCHANGED <<hostVars, connVars>>
  BY <1>6 DEF hostVars, connVars
<1>7. CASE PushOut \/ (\E g \in Loops : Tick(g) \/ Clear(g) \/ BeginCollect(g))
  BY <1>6, <1>7 DEF PushOut, Tick, Clear, BeginCollect
<1>8. CASE (\E r \in Requests : AskManager(r) \/ ReadCounters(r)) \/ (\E room \in BOOLEAN : FinishCollect(room))
  BY <1>6, <1>8 DEF AskManager, ReadCounters, FinishCollect
<1> QED BY <1>1, <1>2, <1>3, <1>4, <1>5, <1>6, <1>7, <1>8 DEF Next, vars

(* One goroutine per watch: the account of each step of it, of an add and  *)
(* of what leaves it alone.                                                *)
LEMMA NextKeepsLoop == WatchInv /\ [Next]_vars => WatchTypeOK' /\ LoopInv'
<1> SUFFICES ASSUME WatchInv, [Next]_vars PROVE WatchTypeOK' /\ LoopInv'
  OBVIOUS
<1> USE TrafficAssumption
<1>1. ConnTypeOK /\ WatchTypeOK /\ LoopInv
  BY DEF WatchInv
<1>2. CASE UNCHANGED <<requests, running, loop, scan>> /\ reports' \in Seq(Reports)
  BY <1>1, <1>2 DEF WatchTypeOK, LoopInv, Watched
<1>3. CASE UNCHANGED vars \/ Detach \/ Attach
  BY <1>1, <1>2, <1>3 DEF vars, Detach, Attach, watchVars, WatchTypeOK
<1>4. CASE Deliver \/ PushOut
  <2>1. reports # <<>> /\ reports' = Tail(reports) /\ UNCHANGED <<requests, running, loop, scan>>
    BY <1>4 DEF Deliver, PushOut, watchVars
  <2> QED BY <1>1, <1>2, <2>1 DEF WatchTypeOK
<1>5. ASSUME NEW r \in Requests, Announce(r) \/ Join(r) \/ Carry(r) \/ Leave(r) PROVE WatchTypeOK' /\ LoopInv'
  BY <1>1, <1>2, <1>5 DEF Announce, Join, Carry, Leave, watchVars, WatchTypeOK
<1>6. ASSUME NEW r \in Requests, Add(r) PROVE WatchTypeOK' /\ LoopInv'
  <2> DEFINE e == [last |-> total[r], fresh |-> TRUE, closed |-> 0]
  <2>1. /\ requests' = [x \in Watched \cup {r} |-> IF x = r THEN e ELSE requests[x]]
        /\ running' = TRUE /\ scan = None /\ UNCHANGED <<scan, reports>>
    BY <1>6 DEF Add
  <2>2. e \in Entries
    BY <1>1 DEF ConnTypeOK, Entries
  <2> HIDE DEF e
  <2>3. Watched' = Watched \cup {r} /\ requests' \in [Watched' -> Entries]
    BY <1>1, <2>1, <2>2 DEF Watched, WatchTypeOK
  <2>4. /\ loop' \in [Loops -> {"none", "waiting", "collect", "clear"}]
        /\ \E g \in Loops : loop'[g] # "none" /\ \A h \in Loops \ {g} : loop'[h] = "none"
    <3>1. CASE running
      BY <1>1, <1>6, <3>1 DEF Add, StartsLoop, LoopInv, WatchTypeOK
    <3>2. CASE ~running
      <4>1. PICK g \in Loops : loop' = [loop EXCEPT ![g] = "waiting"]
        BY <1>6, <3>2 DEF Add, StartsLoop
      <4>2. \A h \in Loops : loop[h] = "none"
        BY <1>1, <3>2 DEF LoopInv
      <4> QED BY <1>1, <4>1, <4>2 DEF WatchTypeOK
    <3> QED BY <3>1, <3>2
  <2> QED BY <1>1, <2>1, <2>3, <2>4 DEF WatchTypeOK, LoopInv
<1>7. ASSUME NEW g \in Loops, Tick(g) PROVE WatchTypeOK' /\ LoopInv'
  <2>1. PICK place \in {"collect", "clear"} : loop' = [loop EXCEPT ![g] = place]
    BY <1>7 DEF Tick
  <2>2. loop[g] = "waiting" /\ UNCHANGED <<requests, running, scan, reports>>
    BY <1>7 DEF Tick, watchVars
  <2>3. scan # None => scan.by # g /\ scan.by \in Loops
    BY <1>1, <2>2, ScanFacts DEF LoopInv
  <2> QED BY <1>1, <2>1, <2>2, <2>3 DEF WatchTypeOK, LoopInv, Watched
<1>8. ASSUME NEW g \in Loops, Clear(g) PROVE WatchTypeOK' /\ LoopInv'
  <2>1. /\ loop[g] = "clear" /\ loop' = [loop EXCEPT ![g] = "none"] /\ scan = None
        /\ UNCHANGED <<scan, reports>> /\ running' = FALSE
        /\ requests' = [r \in {} |-> None]
    BY <1>8 DEF Clear, ClearedRunning
  <2>2. Watched' = {} /\ requests' \in [Watched' -> Entries]
    BY <2>1 DEF Watched
  <2>3. \A h \in Loops : loop'[h] = "none"
    BY <1>1, <2>1 DEF WatchTypeOK, LoopInv
  <2> QED BY <1>1, <2>1, <2>2, <2>3 DEF WatchTypeOK, LoopInv
<1>9. ASSUME NEW g \in Loops, BeginCollect(g) PROVE WatchTypeOK' /\ LoopInv'
  <2>1. /\ loop[g] = "collect" /\ UNCHANGED <<requests, running, loop, reports>>
        /\ scan' = [by |-> g, todo |-> Watched, tested |-> None, changed |-> [r \in {} |-> 0]]
    BY <1>9 DEF BeginCollect, watchVars
  <2>2. [r \in {} |-> 0] \in Reports
    <3>1. {} \in SUBSET Requests /\ [r \in {} |-> 0] \in [{} -> 0..MaxTotal]
      OBVIOUS
    <3> QED BY <3>1, ReportFacts
  <2>3. scan' \in Scans /\ scan'.by = g
    BY <1>1, <2>1, <2>2 DEF Scans, WatchTypeOK
  <2> QED BY <1>1, <2>1, <2>3 DEF WatchTypeOK, LoopInv, Watched
<1>10. ASSUME NEW r \in Requests, AskManager(r) PROVE WatchTypeOK' /\ LoopInv'
  <2> DEFINE n == IF requests[r].closed > 0 \/ HasLeft(r) THEN requests[r].closed + 1 ELSE requests[r].closed
             e == [requests[r] EXCEPT !.closed = n, !.fresh = FALSE]
  <2>1. /\ scan # None /\ r \in scan.todo /\ scan' = [scan EXCEPT !.tested = r]
        /\ requests' = [requests EXCEPT ![r] = e]
        /\ UNCHANGED <<running, loop, reports>>
    <3>1. scan # None /\ r \in scan.todo /\ scan' = [scan EXCEPT !.tested = r] /\ UNCHANGED <<running, loop, reports>>
      BY <1>10 DEF AskManager
    <3>2. requests' = [requests EXCEPT ![r] = e]
      BY <1>10, Zenon DEF AskManager
    <3> QED BY <3>1, <3>2
  <2>2. Watched' = Watched /\ requests' \in [Watched' -> Entries]
    <3>1. CASE r \in Watched
      <4>1. requests[r] \in Entries
        BY <1>1, <3>1 DEF WatchTypeOK
      <4>2. n \in Nat
        BY <4>1 DEF Entries
      <4> HIDE DEF n
      <4>3. e \in Entries
        BY <4>1, <4>2 DEF Entries
      <4> HIDE DEF e
      <4> QED BY <1>1, <2>1, <4>3 DEF Watched, WatchTypeOK
    <3>2. CASE r \notin Watched
      BY <1>1, <2>1, <3>2 DEF Watched, WatchTypeOK
    <3> QED BY <3>1, <3>2
  <2>3. scan' \in Scans /\ scan'.by = scan.by
    BY <1>1, <2>1, ScanFacts DEF Scans
  <2> QED BY <1>1, <2>1, <2>2, <2>3 DEF WatchTypeOK, LoopInv
<1>11. ASSUME NEW r \in Requests, ReadCounters(r) PROVE WatchTypeOK' /\ LoopInv'
  <2>1. /\ scan # None /\ UNCHANGED <<requests, running, loop, reports>>
    BY <1>11 DEF ReadCounters, watchVars
  <2> DEFINE old == scan.changed
             new == IF total[r] = requests[r].last THEN old
                    ELSE [x \in DOMAIN old \cup {r} |-> IF x = r THEN total[r] ELSE old[x]]
  <2>2. scan' = [scan EXCEPT !.tested = None, !.todo = scan.todo \ {r}, !.changed = new]
    BY <1>11 DEF ReadCounters
  <2>3. old \in Reports /\ scan \in Scans
    BY <1>1, <2>1, ScanFacts
  <2>4. new \in Reports
    <3>1. DOMAIN old \cup {r} \in SUBSET Requests
      BY <2>3, ReportFacts
    <3>2. [x \in DOMAIN old \cup {r} |-> IF x = r THEN total[r] ELSE old[x]] \in [DOMAIN old \cup {r} -> 0..MaxTotal]
      BY <1>1, <2>3, ReportFacts DEF ConnTypeOK
    <3> QED BY <2>3, <3>1, <3>2, ReportFacts
  <2> HIDE DEF new
  <2>5. scan' \in Scans /\ scan'.by = scan.by
    BY <2>2, <2>3, <2>4 DEF Scans
  <2> QED BY <1>1, <2>1, <2>5 DEF WatchTypeOK, LoopInv, Watched
<1>12. ASSUME NEW room \in BOOLEAN, FinishCollect(room) PROVE WatchTypeOK' /\ LoopInv'
  <2>1. PICK kept \in SUBSET Watched, queued \in BOOLEAN :
          /\ scan # None
          /\ requests' = [r \in kept |-> IF queued /\ r \in DOMAIN scan.changed
                                         THEN [requests[r] EXCEPT !.last = scan.changed[r]]
                                         ELSE requests[r]]
          /\ running' = (kept # {})
          /\ loop' = [loop EXCEPT ![scan.by] = IF kept = {} THEN "none" ELSE "waiting"]
          /\ scan' = None
          /\ reports' \in {reports, Append(reports, scan.changed)}
    <3> DEFINE emp == DOMAIN scan.changed = {}
               que == emp \/ (listening /\ room)
               kep == {r \in Watched : ~Forgets(r, que)}
    <3>1. /\ scan # None
          /\ requests' = [r \in kep |-> IF que /\ r \in DOMAIN scan.changed
                                         THEN [requests[r] EXCEPT !.last = scan.changed[r]]
                                         ELSE requests[r]]
          /\ running' = (kep # {})
          /\ loop' = [loop EXCEPT ![scan.by] = IF kep = {} THEN "none" ELSE "waiting"]
          /\ scan' = None
      BY <1>12 DEF FinishCollect
    <3>2. reports' \in {reports, Append(reports, scan.changed)}
      BY <1>12 DEF FinishCollect
    <3>3. kep \in SUBSET Watched /\ que \in BOOLEAN
      BY <1>1 DEF ConnTypeOK
    <3> HIDE DEF emp, que, kep
    <3> QED BY <3>1, <3>2, <3>3
  <2>2. scan.by \in Loops /\ scan.changed \in Reports /\ loop[scan.by] = "collect"
    BY <1>1, <2>1, ScanFacts DEF LoopInv
  <2>3. Watched' = kept
    BY <2>1 DEF Watched
  <2>4. requests' \in [kept -> Entries]
    <3>1. ASSUME NEW r \in kept, r \in DOMAIN scan.changed
          PROVE  [requests[r] EXCEPT !.last = scan.changed[r]] \in Entries
      <4>1. requests[r] \in Entries /\ scan.changed[r] \in 0..MaxTotal
        BY <1>1, <2>1, <2>2, <3>1, ReportFacts DEF WatchTypeOK
      <4> QED BY <4>1 DEF Entries
    <3>2. \A r \in kept : requests[r] \in Entries
      BY <1>1 DEF WatchTypeOK
    <3> QED BY <2>1, <3>1, <3>2
  <2>5. reports' \in Seq(Reports)
    BY <1>1, <2>1, <2>2 DEF WatchTypeOK
  <2>6. \A h \in Loops \ {scan.by} : loop[h] = "none"
    BY <1>1, <2>2 DEF LoopInv
  <2>7. loop' \in [Loops -> {"none", "waiting", "collect", "clear"}]
    BY <1>1, <2>1, <2>2 DEF WatchTypeOK
  <2>8. WatchTypeOK'
    BY <1>1, <2>1, <2>3, <2>4, <2>5, <2>7 DEF WatchTypeOK
  <2>9. PICK b \in Loops : b = scan.by
    BY <2>2
  <2>10. LoopInv'
    BY <1>1, <2>1, <2>3, <2>6, <2>9 DEF LoopInv, WatchTypeOK
  <2> QED BY <2>8, <2>10
<1> QED BY <1>3, <1>4, <1>5, <1>6, <1>7, <1>8, <1>9, <1>10, <1>11, <1>12 DEF Next

(* Every step keeps both.                                                  *)
LEMMA NextKeepsWatch == WatchInv /\ [Next]_vars => WatchInv'
  BY NextKeepsConn, NextKeepsLoop DEF WatchInv

(* Exactly one goroutine serves the watch while its flag is up, none while *)
(* it is down, and no request is watched without one.                      *)
THEOREM OneLoopServes == Spec => []OneLoopWhileRunning
<1>1. WatchInv => OneLoopWhileRunning
  <2> SUFFICES ASSUME WatchInv PROVE OneLoopWhileRunning
    OBVIOUS
  <2> DEFINE live == {g \in Loops : loop[g] # "none"}
  <2>1. LoopInv /\ running \in BOOLEAN
    BY DEF WatchInv, WatchTypeOK
  <2>2. CASE running
    <3>1. PICK g \in Loops : loop[g] # "none" /\ \A h \in Loops \ {g} : loop[h] = "none"
      BY <2>1, <2>2 DEF LoopInv
    <3>2. live = {g}
      BY <3>1
    <3>3. Cardinality(live) = 1
      BY <3>2, FS_Singleton
    <3> QED BY <2>1, <2>2, <3>3 DEF OneLoopWhileRunning, LoopInv
  <2>3. CASE ~running
    <3>1. live = {}
      BY <2>1, <2>3 DEF LoopInv
    <3>2. Cardinality(live) = 0
      BY <3>1, FS_EmptySet
    <3> QED BY <2>1, <2>3, <3>2 DEF OneLoopWhileRunning, LoopInv
  <2> QED BY <2>2, <2>3
<1> QED BY <1>1, InitWatch, NextKeepsWatch, PTL DEF Spec

-----------------------------------------------------------------------------
(* A report that is delivered: what it says of r is heard, and the rest    *)
(* of the queue has the last word as before.                               *)
LEMMA TailTells ==
    ASSUME NEW q \in Seq(Reports), q # <<>>, NEW r, NEW v, NEW a, NEW b,
           b = (IF r \in DOMAIN Head(q) THEN Head(q)[r] ELSE a)
    PROVE  /\ Last(q, a, r, v) => Last(Tail(q), b, r, v)
           /\ Silent(q, r) => Silent(Tail(q), r) /\ b = a
<1>1. /\ Len(q) \in Nat /\ Len(q) > 0 /\ DOMAIN q = 1..Len(q) /\ DOMAIN Tail(q) = 1..(Len(q) - 1)
      /\ Head(q) = q[1]
  OBVIOUS
<1>2. \A i \in 1..(Len(q) - 1) : Tail(q)[i] = q[i + 1]
  BY <1>1
<1>3. ASSUME Silent(q, r) PROVE Silent(Tail(q), r) /\ b = a
  <2>1. r \notin DOMAIN Head(q)
    BY <1>1, <1>3 DEF Silent
  <2>2. \A i \in DOMAIN Tail(q) : r \notin DOMAIN Tail(q)[i]
    BY <1>1, <1>2, <1>3 DEF Silent
  <2> QED BY <2>1, <2>2 DEF Silent
<1>4. ASSUME NEW i \in DOMAIN q, r \in DOMAIN q[i], q[i][r] = v,
             \A j \in DOMAIN q : j > i => r \notin DOMAIN q[j]
      PROVE  Last(Tail(q), b, r, v)
  <2>1. CASE i = 1
    <3>1. b = v
      BY <1>1, <1>4, <2>1
    <3>2. \A k \in DOMAIN Tail(q) : r \notin DOMAIN Tail(q)[k]
      BY <1>1, <1>2, <1>4, <2>1
    <3> QED BY <3>1, <3>2 DEF Last, Silent
  <2>2. CASE i # 1
    <3>1. i - 1 \in DOMAIN Tail(q) /\ Tail(q)[i - 1] = q[i]
      BY <1>1, <1>2, <2>2
    <3>2. \A k \in DOMAIN Tail(q) : k > i - 1 => r \notin DOMAIN Tail(q)[k]
      BY <1>1, <1>2, <1>4
    <3> QED BY <1>4, <3>1, <3>2 DEF Last
  <2> QED BY <2>1, <2>2
<1> QED BY <1>3, <1>4 DEF Last

(* A report that is queued has the last word on what it names.             *)
LEMMA AppendTells ==
    ASSUME NEW q \in Seq(Reports), NEW f \in Reports, NEW r, NEW v, NEW a
    PROVE  /\ r \in DOMAIN f => Last(Append(q, f), a, r, f[r])
           /\ r \notin DOMAIN f /\ Last(q, a, r, v) => Last(Append(q, f), a, r, v)
           /\ r \notin DOMAIN f /\ Silent(q, r) => Silent(Append(q, f), r)
<1> DEFINE t == Append(q, f)
<1>1. /\ Len(q) \in Nat /\ DOMAIN q = 1..Len(q) /\ DOMAIN t = 1..(Len(q) + 1)
      /\ t[Len(q) + 1] = f /\ \A i \in 1..Len(q) : t[i] = q[i]
  OBVIOUS
<1> HIDE DEF t
<1>2. ASSUME r \in DOMAIN f PROVE Last(t, a, r, f[r])
  <2>1. Len(q) + 1 \in DOMAIN t /\ \A j \in DOMAIN t : ~(j > Len(q) + 1)
    BY <1>1
  <2> QED BY <1>1, <1>2, <2>1 DEF Last
<1>3. ASSUME r \notin DOMAIN f, Silent(q, r) PROVE Silent(t, r)
  BY <1>1, <1>3 DEF Silent
<1>4. ASSUME r \notin DOMAIN f, NEW i \in DOMAIN q, r \in DOMAIN q[i], q[i][r] = v,
             \A j \in DOMAIN q : j > i => r \notin DOMAIN q[j]
      PROVE  Last(t, a, r, v)
  <2>1. i \in DOMAIN t /\ t[i] = q[i]
    BY <1>1
  <2>2. \A j \in DOMAIN t : j > i => r \notin DOMAIN t[j]
    BY <1>1, <1>4
  <2> QED BY <1>4, <2>1, <2>2 DEF Last
<1> QED BY <1>2, <1>3, <1>4 DEF Last, t

(* The host: an engine goes and comes, a report is delivered or pushed out.*)
LEMMA HostKeepsTell ==
    ASSUME WatchInv, TellInv, Detach \/ Attach \/ Deliver \/ PushOut
    PROVE  TellInv'
<1>1. /\ UNCHANGED <<life, total, heardBy, requests, swept, loop, scan>> /\ Watched' = Watched
  BY DEF Detach, Attach, Deliver, PushOut, hostVars, connVars, watchVars, Watched
<1>2. ScanReads' /\ \A r \in Requests : ClosedIsFinal(r)' /\ AskedOnce(r)'
  BY <1>1 DEF TellInv, ScanReads, ClosedIsFinal, AskedOnce
<1>3. ASSUME NEW r \in Requests PROVE Untold(r) /\ TellsAll(r)
  BY <1>3 DEF TellInv
<1>4. CASE Detach \/ Attach
  <2>1. UNCHANGED <<reports, shown>>
    BY <1>4 DEF Detach, Attach
  <2>2. ASSUME NEW r \in Requests PROVE ~Owed(r)'
    <3>1. CASE Detach
      BY <3>1 DEF Detach, Owed
    <3>2. CASE Attach
      BY <1>1, <3>2 DEF Attach, Owed, WatchInv, ConnTypeOK
    <3> QED BY <1>4, <3>1, <3>2
  <2>3. ASSUME NEW r \in Requests PROVE Untold(r)'
    BY <1>1, <1>3, <2>1 DEF Untold, Unreported
  <2> QED BY <1>2, <2>2, <2>3 DEF TellInv, TellsAll
<1>5. CASE Deliver \/ PushOut
  <2>1. reports \in Seq(Reports) /\ reports # <<>> /\ reports' = Tail(reports) /\ UNCHANGED listening
    BY <1>5 DEF Deliver, PushOut, hostVars, WatchInv, WatchTypeOK
  <2>2. ASSUME NEW r \in Requests, r \in DOMAIN Head(reports) => Deliver /\ listening
        PROVE  shown'[r] = IF r \in DOMAIN Head(reports) THEN Head(reports)[r] ELSE shown[r]
    <3>1. CASE Deliver
      BY <2>2, <3>1 DEF Deliver
    <3>2. CASE PushOut
      BY <2>2, <3>2 DEF PushOut, hostVars, Deliver
    <3> QED BY <1>5, <3>1, <3>2
  <2>3. ASSUME NEW r \in Requests, Silent(reports, r) PROVE Silent(reports', r) /\ shown'[r] = shown[r]
    <3>1. r \notin DOMAIN Head(reports)
      BY <2>1, <2>3 DEF Silent
    <3> QED BY <2>1, <2>2, <2>3, <3>1, TailTells
  <2>4. ASSUME NEW r \in Requests PROVE Untold(r)'
    BY <1>1, <1>3, <2>3 DEF Untold, Unreported
  <2>5. ASSUME NEW r \in Requests, Owed(r)' PROVE Owed(r) /\ (r \in DOMAIN Head(reports) => Deliver /\ listening)
    BY <1>1, <1>5, <2>1, <2>5 DEF Owed, Deliver, PushOut, hostVars, watchVars
  <2>6. ASSUME NEW r \in Requests, Owed(r)', NEW v, Told(r, v) PROVE Last(reports', shown'[r], r, v)
    BY <2>1, <2>2, <2>5, <2>6, TailTells DEF Told
  <2>7. ASSUME NEW r \in Requests PROVE TellsAll(r)'
    BY <1>1, <1>3, <2>5, <2>6 DEF TellsAll, Told
  <2> QED BY <1>2, <2>4, <2>7 DEF TellInv
<1> QED BY <1>4, <1>5

(* A connection is announced, added, stored, carries bytes and closes.     *)
LEMMA ConnKeepsTell ==
    ASSUME WatchInv, TellInv, NEW r \in Requests, Announce(r) \/ Join(r) \/ Carry(r) \/ Leave(r)
    PROVE  TellInv'
<1>1. /\ UNCHANGED <<listening, session, shown, requests, gaveUp, swept, loop, scan, reports>>
      /\ Watched' = Watched
  BY DEF Announce, Join, Carry, Leave, hostVars, watchVars, Watched
<1>2. life \in [Requests -> Lives] /\ total \in [Requests -> 0..MaxTotal] /\ heardBy \in [Requests -> Nat \cup {None}]
  BY DEF WatchInv, ConnTypeOK
<1>3. \A x \in Requests \ {r} : life'[x] = life[x] /\ total'[x] = total[x] /\ heardBy'[x] = heardBy[x]
  BY <1>2 DEF Announce, Join, Carry, Leave
<1>4. ASSUME NEW x \in Requests PROVE Untold(x) /\ TellsAll(x) /\ ClosedIsFinal(x) /\ AskedOnce(x)
  BY <1>4 DEF TellInv
<1>5. ASSUME NEW x \in Requests \ {r} PROVE Untold(x)' /\ TellsAll(x)' /\ ClosedIsFinal(x)' /\ AskedOnce(x)'
  BY <1>1, <1>3, <1>4, <1>5 DEF Untold, TellsAll, ClosedIsFinal, AskedOnce, Owed, Told, Unreported
<1>6. Untold(r)' /\ TellsAll(r)' /\ ClosedIsFinal(r)' /\ AskedOnce(r)'
  <2>1. CASE Announce(r)
    <3>1. life[r] = "none" /\ life'[r] = "announced" /\ total'[r] = total[r]
      BY <1>2, <2>1 DEF Announce
    <3> QED BY <1>1, <1>4, <3>1 DEF Untold, TellsAll, ClosedIsFinal, AskedOnce, Owed, Unreported
  <2>2. CASE Join(r)
    <3>1. life[r] = "added" /\ life'[r] = "open" /\ total'[r] = total[r] /\ heardBy'[r] = heardBy[r]
      BY <1>2, <2>2 DEF Join
    <3> QED BY <1>1, <1>4, <3>1 DEF Untold, TellsAll, ClosedIsFinal, AskedOnce, Owed, Told
  <2>3. CASE Carry(r)
    <3>1. life[r] = "open" /\ life'[r] = "open" /\ heardBy'[r] = heardBy[r]
      BY <1>2, <2>3 DEF Carry
    <3> QED BY <1>1, <1>4, <3>1 DEF Untold, TellsAll, ClosedIsFinal, AskedOnce, Owed, Told
  <2>4. CASE Leave(r)
    <3>1. life[r] = "open" /\ life'[r] = "closed" /\ total'[r] = total[r] /\ heardBy'[r] = heardBy[r]
      BY <1>2, <2>4 DEF Leave
    <3> QED BY <1>1, <1>4, <3>1 DEF Untold, TellsAll, ClosedIsFinal, AskedOnce, Owed, Told
  <2> QED BY <2>1, <2>2, <2>3, <2>4
<1>7. ScanReads'
  <2>1. ASSUME NEW x \in Watched, requests[x].closed > 0 PROVE total'[x] = total[x]
    <3>1. x \in Requests /\ life[x] = "closed"
      BY <1>4, <2>1 DEF ClosedIsFinal, WatchInv, WatchTypeOK
    <3> QED BY <1>3, <3>1 DEF Announce, Join, Carry, Leave
  <2> QED BY <1>1, <2>1 DEF TellInv, ScanReads
<1> QED BY <1>5, <1>6, <1>7 DEF TellInv

(* A request joins the watch with what its host shows.                     *)
LEMMA AddKeepsTell ==
    ASSUME WatchInv, TellInv, NEW r \in Requests, Add(r)
    PROVE  TellInv'
<1>1. /\ life[r] = "announced" /\ life' = [life EXCEPT ![r] = "added"] /\ scan = None
      /\ requests' = [x \in Watched \cup {r} |-> IF x = r THEN [last |-> total[r], fresh |-> TRUE, closed |-> 0]
                                                          ELSE requests[x]]
      /\ UNCHANGED <<listening, session, shown, total, heardBy, gaveUp, swept, scan, reports>>
  BY DEF Add, hostVars
<1>2. life \in [Requests -> Lives] /\ Watched' = Watched \cup {r}
  BY <1>1 DEF WatchInv, ConnTypeOK, Watched
<1>3. ASSUME NEW x \in Requests PROVE Untold(x) /\ TellsAll(x) /\ ClosedIsFinal(x) /\ AskedOnce(x)
  BY <1>3 DEF TellInv
<1>4. ASSUME NEW x \in Requests \ {r}
      PROVE  /\ life'[x] = life[x] /\ (x \in Watched' <=> x \in Watched)
             /\ x \in Watched => requests'[x] = requests[x]
  BY <1>1, <1>2, <1>4
<1>5. ASSUME NEW g \in Loops, loop'[g] = "collect" PROVE loop[g] = "collect"
  BY <1>5 DEF Add, WatchInv, WatchTypeOK
<1>6. ASSUME NEW x \in Requests \ {r} PROVE Untold(x)' /\ TellsAll(x)' /\ ClosedIsFinal(x)' /\ AskedOnce(x)'
  BY <1>1, <1>3, <1>4, <1>5, <1>6 DEF Untold, TellsAll, ClosedIsFinal, AskedOnce, Owed, Told, Unreported
<1>7. Untold(r)' /\ TellsAll(r)' /\ ClosedIsFinal(r)' /\ AskedOnce(r)'
  <2>1. life'[r] = "added" /\ r \in Watched'
    BY <1>1, <1>2
  <2>2. requests'[r].last = total[r] /\ requests'[r].fresh = TRUE /\ requests'[r].closed = 0
    BY <1>1
  <2>3. Last(reports, shown[r], r, total[r])
    BY <1>1, <1>3 DEF Untold, Unreported, Last
  <2> QED BY <1>1, <2>1, <2>2, <2>3 DEF Untold, TellsAll, ClosedIsFinal, AskedOnce, Told
<1> QED BY <1>1, <1>6, <1>7 DEF TellInv, ScanReads

(* The goroutine's tick, its clear and the start of its collect.           *)
LEMMA LoopKeepsTell ==
    ASSUME WatchInv, TellInv, NEW g \in Loops, Tick(g) \/ Clear(g) \/ BeginCollect(g)
    PROVE  TellInv'
<1> USE TrafficAssumption
<1>1. UNCHANGED <<listening, session, shown, life, total, heardBy, gaveUp, reports>>
  BY DEF Tick, Clear, BeginCollect, hostVars, connVars, watchVars
<1>2. ASSUME NEW r \in Requests PROVE Untold(r) /\ TellsAll(r) /\ ClosedIsFinal(r) /\ AskedOnce(r)
  BY <1>2 DEF TellInv
<1>3. CASE Tick(g)
  <2>1. UNCHANGED <<requests, swept, scan>> /\ Watched' = Watched
    BY <1>3 DEF Tick, watchVars, Watched
  <2>2. \A r \in Watched : life[r] = "added" => requests[r].fresh
    BY <1>3 DEF Tick, ASecondLater
  <2>3. ASSUME NEW r \in Requests PROVE Untold(r)' /\ TellsAll(r)' /\ ClosedIsFinal(r)' /\ AskedOnce(r)'
    BY <1>1, <1>2, <2>1, <2>2 DEF Untold, TellsAll, ClosedIsFinal, AskedOnce, Owed, Told, Unreported
  <2> QED BY <1>1, <2>1, <2>3 DEF TellInv, ScanReads
<1>4. CASE Clear(g)
  <2>1. /\ scan = None /\ UNCHANGED scan /\ Watched' = {}
        /\ swept' = swept \cup {r \in Watched : listening /\ heardBy[r] = session}
    BY <1>4 DEF Clear, Watched
  <2>2. ASSUME NEW r \in Requests, Owed(r)' PROVE Owed(r) /\ r \notin Watched
    BY <1>1, <2>1, <2>2 DEF Owed
  <2>3. ASSUME NEW r \in Requests PROVE Untold(r)' /\ TellsAll(r)' /\ ClosedIsFinal(r)' /\ AskedOnce(r)'
    BY <1>1, <1>2, <2>1, <2>2 DEF Untold, TellsAll, ClosedIsFinal, AskedOnce, Told, Unreported
  <2> QED BY <2>1, <2>3 DEF TellInv, ScanReads
<1>5. CASE BeginCollect(g)
  <2>1. /\ UNCHANGED <<requests, swept, loop>> /\ Watched' = Watched /\ loop[g] = "collect" /\ scan = None
        /\ scan' = [by |-> g, todo |-> Watched, tested |-> None, changed |-> [r \in {} |-> 0]]
    BY <1>5 DEF BeginCollect, watchVars, Watched
  <2>2. scan'.todo = Watched /\ scan'.tested = None /\ DOMAIN scan'.changed = {}
    BY <2>1
  <2>3. ASSUME NEW r \in Requests PROVE Untold(r)' /\ TellsAll(r)' /\ ClosedIsFinal(r)' /\ AskedOnce(r)'
    BY <1>1, <1>2, <2>1 DEF Untold, TellsAll, ClosedIsFinal, AskedOnce, Owed, Told, Unreported
  <2>4. ScanReads'
    BY <2>1, <2>2 DEF ScanReads
  <2> QED BY <2>3, <2>4 DEF TellInv
<1> QED BY <1>3, <1>4, <1>5

(* The manager is asked: a request it does not have has closed, for one it *)
(* has yet to store was fresh.                                             *)
LEMMA AskKeepsTell ==
    ASSUME WatchInv, WatchInv', TellInv, NEW r \in Requests, AskManager(r)
    PROVE  TellInv'
<1> USE TrafficAssumption
<1>1. /\ UNCHANGED <<listening, session, shown, life, total, heardBy, gaveUp, swept, reports, loop>>
      /\ scan # None /\ scan.tested = None /\ r \in scan.todo
      /\ scan' = [scan EXCEPT !.tested = r]
  BY DEF AskManager, hostVars, connVars
<1>2. scan \in Scans /\ r \in Watched
  BY <1>1, ScanFacts DEF WatchInv, TellInv, ScanReads
<1>3. scan' \in Scans /\ scan' # None /\ scan'.tested = r /\ scan'.todo = scan.todo /\ scan'.changed = scan.changed
  BY <1>1, <1>2 DEF Scans
<1>4. requests \in [Watched -> Entries] /\ requests[r] \in Entries
  BY <1>2 DEF WatchInv, WatchTypeOK
<1>5. /\ Watched' = Watched
      /\ \A x \in Watched : requests'[x].last = requests[x].last
      /\ \A x \in Watched \ {r} : requests'[x] = requests[x]
      /\ requests'[r].closed > 0 => requests[r].closed > 0 \/ HasLeft(r)
  BY <1>2, <1>4 DEF AskManager, Watched, Entries
<1>6. ASSUME NEW x \in Requests PROVE Untold(x) /\ TellsAll(x) /\ ClosedIsFinal(x) /\ AskedOnce(x)
  BY <1>6 DEF TellInv
<1>7. HasLeft(r) => life[r] = "closed"
  <2>1. scan.by \in Loops /\ loop[scan.by] = "collect"
    BY <1>1, ScanFacts DEF WatchInv, LoopInv
  <2>2. life[r] # "added" \/ requests[r].fresh
    BY <1>1, <1>2, <1>6, <2>1 DEF AskedOnce
  <2>3. life[r] \in Lives /\ life[r] \notin {"none", "announced"}
    BY <1>2, <1>6 DEF Untold, WatchInv, ConnTypeOK
  <2> QED BY <2>2, <2>3 DEF HasLeft, Lives
<1>8. ASSUME NEW x \in Requests PROVE Untold(x)' /\ TellsAll(x)'
  BY <1>1, <1>5, <1>6 DEF Untold, TellsAll, Owed, Told, Unreported
<1>9. ASSUME NEW x \in Requests PROVE ClosedIsFinal(x)'
  BY <1>1, <1>5, <1>6, <1>7 DEF ClosedIsFinal
<1>10. ASSUME NEW x \in Requests PROVE AskedOnce(x)'
  BY <1>1, <1>3, <1>5, <1>6 DEF AskedOnce
<1>11. ScanReads'
  BY <1>1, <1>2, <1>3, <1>5 DEF TellInv, ScanReads
<1> QED BY <1>8, <1>9, <1>10, <1>11 DEF TellInv

(* The counters are read after the manager was asked.                      *)
LEMMA ReadKeepsTell ==
    ASSUME WatchInv, WatchInv', TellInv, NEW r \in Requests, ReadCounters(r)
    PROVE  TellInv'
<1> USE TrafficAssumption
<1>1. /\ UNCHANGED <<listening, session, shown, life, total, heardBy, gaveUp, swept, reports, loop, requests>>
      /\ scan # None /\ scan.tested = r /\ Watched' = Watched
  BY DEF ReadCounters, hostVars, connVars, watchVars, Watched
<1> DEFINE old == scan.changed
           new == IF total[r] = requests[r].last THEN old
                  ELSE [x \in DOMAIN old \cup {r} |-> IF x = r THEN total[r] ELSE old[x]]
<1>2. scan' = [scan EXCEPT !.tested = None, !.todo = scan.todo \ {r}, !.changed = new]
  BY DEF ReadCounters
<1>3. scan \in Scans /\ r \in scan.todo /\ r \in Watched /\ scan.todo \subseteq Watched /\ DOMAIN old \subseteq Watched \ scan.todo
  BY <1>1, ScanFacts DEF WatchInv, TellInv, ScanReads
<1>4. /\ DOMAIN new \subseteq DOMAIN old \cup {r}
      /\ IF r \in DOMAIN new THEN new[r] = total[r] ELSE requests[r].last = total[r]
      /\ \A x \in Watched \ {r} : (x \in DOMAIN new <=> x \in DOMAIN old) /\ (x \in DOMAIN new => new[x] = old[x])
  BY <1>3
<1> HIDE DEF new
<1>5. scan'.tested = None /\ scan'.todo = scan.todo \ {r} /\ scan'.changed = new
  BY <1>2, <1>3 DEF Scans
<1>6. ASSUME NEW x \in Requests PROVE Untold(x) /\ TellsAll(x) /\ ClosedIsFinal(x) /\ AskedOnce(x)
  BY <1>6 DEF TellInv
<1>7. ASSUME NEW x \in Requests PROVE Untold(x)' /\ TellsAll(x)' /\ ClosedIsFinal(x)'
  BY <1>1, <1>6 DEF Untold, TellsAll, ClosedIsFinal, Owed, Told, Unreported
<1>8. scan' # None
  <2>1. new \in Reports
    <3>1. old \in Reports /\ total[r] \in 0..MaxTotal
      BY <1>1, ScanFacts DEF WatchInv, ConnTypeOK
    <3>2. DOMAIN old \cup {r} \in SUBSET Requests
      BY <3>1, ReportFacts
    <3>3. [x \in DOMAIN old \cup {r} |-> IF x = r THEN total[r] ELSE old[x]] \in [DOMAIN old \cup {r} -> 0..MaxTotal]
      BY <3>1, ReportFacts
    <3> QED BY <3>1, <3>2, <3>3, ReportFacts DEF new
  <2>2. scan' \in Scans
    BY <1>2, <1>3, <2>1 DEF Scans
  <2> QED BY <2>2
<1>9. ASSUME NEW x \in Requests PROVE AskedOnce(x)'
  BY <1>1, <1>5, <1>6, <1>8 DEF AskedOnce
<1>10. ScanReads'
  <2>1. ASSUME NEW x \in Watched \ scan'.todo, requests[x].closed > 0
        PROVE  IF x \in DOMAIN new THEN new[x] = total[x] ELSE requests[x].last = total[x]
    <3>1. CASE x = r
      BY <1>4, <3>1
    <3>2. CASE x # r
      BY <1>1, <1>4, <1>5, <2>1, <3>2 DEF TellInv, ScanReads
    <3> QED BY <3>1, <3>2
  <2>2. scan'.todo \subseteq Watched /\ DOMAIN new \subseteq Watched \ scan'.todo
    BY <1>3, <1>4, <1>5
  <2> QED BY <1>1, <1>5, <2>1, <2>2 DEF ScanReads
<1> QED BY <1>7, <1>9, <1>10 DEF TellInv

(* The report is queued and closed requests go: what went was reported in  *)
(* full, or given up.                                                      *)
LEMMA FinishKeepsTell ==
    ASSUME WatchInv, TellInv, NEW room \in BOOLEAN, FinishCollect(room)
    PROVE  TellInv'
<1>1. /\ UNCHANGED <<listening, session, shown, life, total, heardBy, swept>>
      /\ scan # None /\ scan.todo = {} /\ scan' = None
  BY DEF FinishCollect, hostVars, connVars
<1>2. /\ scan.by \in Loops /\ scan.changed \in Reports /\ loop[scan.by] = "collect"
      /\ DOMAIN scan.changed \subseteq Watched
  BY <1>1, ScanFacts DEF WatchInv, LoopInv, TellInv, ScanReads
<1>3. PICK queued \in BOOLEAN, kept \in SUBSET Watched :
        /\ DOMAIN scan.changed = {} => queued
        /\ kept = {r \in Watched : ~Forgets(r, queued)}
        /\ requests' = [r \in kept |-> IF queued /\ r \in DOMAIN scan.changed
                                       THEN [requests[r] EXCEPT !.last = scan.changed[r]]
                                       ELSE requests[r]]
        /\ loop' = [loop EXCEPT ![scan.by] = IF kept = {} THEN "none" ELSE "waiting"]
        /\ reports' = IF queued /\ DOMAIN scan.changed # {} THEN Append(reports, scan.changed) ELSE reports
        /\ gaveUp' = gaveUp \cup {r \in Watched \ kept : ~queued /\ requests[r].closed > CloseRetries}
  <2> DEFINE que == DOMAIN scan.changed = {} \/ (listening /\ room)
             kep == {r \in Watched : ~Forgets(r, que)}
  <2>1. que \in BOOLEAN /\ kep \in SUBSET Watched
    BY DEF WatchInv, ConnTypeOK
  <2>2. /\ requests' = [r \in kep |-> IF que /\ r \in DOMAIN scan.changed
                                      THEN [requests[r] EXCEPT !.last = scan.changed[r]]
                                      ELSE requests[r]]
        /\ loop' = [loop EXCEPT ![scan.by] = IF kep = {} THEN "none" ELSE "waiting"]
        /\ gaveUp' = gaveUp \cup {r \in Watched \ kep : ~que /\ requests[r].closed > CloseRetries}
    BY DEF FinishCollect
  <2>3. reports' = IF que /\ DOMAIN scan.changed # {} THEN Append(reports, scan.changed) ELSE reports
    BY DEF FinishCollect
  <2>4. (DOMAIN scan.changed = {} => que) /\ kep = {r \in Watched : ~Forgets(r, que)}
    OBVIOUS
  <2> HIDE DEF que, kep
  <2> QED BY <2>1, <2>2, <2>3, <2>4
<1>4. Watched' = kept
  BY <1>3 DEF Watched
<1>5. /\ requests \in [Watched -> Entries] /\ reports \in Seq(Reports) /\ Watched \subseteq Requests
      /\ life \in [Requests -> Lives]
  BY DEF WatchInv, WatchTypeOK, ConnTypeOK
<1>6. ASSUME NEW r \in Requests PROVE Untold(r) /\ TellsAll(r) /\ ClosedIsFinal(r) /\ AskedOnce(r)
  BY <1>6 DEF TellInv
<1>7. \A r \in kept : /\ requests'[r].closed = requests[r].closed
                      /\ requests'[r].last = IF queued /\ r \in DOMAIN scan.changed THEN scan.changed[r]
                                                                                    ELSE requests[r].last
  BY <1>3, <1>5 DEF Entries
<1>8. ASSUME NEW r \in Requests PROVE ClosedIsFinal(r)'
  BY <1>1, <1>3, <1>4, <1>6, <1>7 DEF ClosedIsFinal
<1>9. ASSUME NEW r \in Requests PROVE AskedOnce(r)'
  <2>1. \A g \in Loops \ {scan.by} : loop[g] = "none"
    BY <1>2 DEF WatchInv, LoopInv
  <2>2. \A g \in Loops : loop'[g] # "collect"
    BY <1>2, <1>3, <2>1 DEF WatchInv, WatchTypeOK
  <2> QED BY <2>2 DEF AskedOnce
<1>10. ASSUME NEW r \in Requests PROVE Untold(r)'
  <2>1. ASSUME r \notin Watched, Silent(reports, r) PROVE Silent(reports', r)
    BY <1>2, <1>3, <1>5, <2>1, AppendTells
  <2> QED BY <1>1, <1>3, <1>4, <1>6, <2>1 DEF Untold, Unreported
<1>11. ASSUME NEW r \in Requests PROVE TellsAll(r)'
  <2>1. SUFFICES ASSUME Owed(r)'
                 PROVE  IF r \in Watched' THEN Last(reports', shown[r], r, requests'[r].last)
                                          ELSE life[r] = "closed" /\ Last(reports', shown[r], r, total[r])
    BY <1>1 DEF TellsAll, Told
  <2>2. Owed(r)
    BY <1>1, <1>3, <2>1 DEF Owed
  <2>3. ASSUME NEW v, Last(reports, shown[r], r, v), ~(queued /\ r \in DOMAIN scan.changed)
        PROVE  Last(reports', shown[r], r, v)
    BY <1>2, <1>3, <1>5, <2>3, AppendTells
  <2>4. ASSUME queued, r \in DOMAIN scan.changed PROVE Last(reports', shown[r], r, scan.changed[r])
    BY <1>2, <1>3, <1>5, <2>4, AppendTells
  <2>5. CASE r \in kept
    <3>1. r \in Watched /\ Last(reports, shown[r], r, requests[r].last)
      BY <1>3, <1>6, <2>2, <2>5 DEF TellsAll, Told
    <3> QED BY <1>4, <1>7, <2>3, <2>4, <2>5, <3>1
  <2>6. CASE r \in Watched \ kept
    <3>1. Last(reports, shown[r], r, requests[r].last)
      BY <1>6, <2>2, <2>6 DEF TellsAll, Told
    <3>2. requests[r].closed > 0 /\ queued
      BY <1>1, <1>3, <2>1, <2>6 DEF Forgets, Owed
    <3>3. life[r] = "closed"
      BY <1>6, <2>6, <3>2 DEF ClosedIsFinal
    <3>4. IF r \in DOMAIN scan.changed THEN scan.changed[r] = total[r] ELSE requests[r].last = total[r]
      BY <1>1, <2>6, <3>2 DEF TellInv, ScanReads
    <3> QED BY <1>4, <2>3, <2>4, <2>6, <3>1, <3>2, <3>3, <3>4
  <2>7. CASE r \notin Watched
    <3>1. life[r] = "closed" /\ Last(reports, shown[r], r, total[r])
      BY <1>6, <2>2, <2>7 DEF TellsAll, Told
    <3> QED BY <1>2, <1>3, <1>4, <2>3, <2>7, <3>1
  <2> QED BY <2>5, <2>6, <2>7
<1> QED BY <1>1, <1>8, <1>9, <1>10, <1>11 DEF TellInv, ScanReads

(* Every step keeps what the host is told.                                 *)
LEMMA NextKeepsTell == WatchInv /\ TellInv /\ [Next]_vars => TellInv'
<1> SUFFICES ASSUME WatchInv, TellInv, [Next]_vars PROVE TellInv'
  OBVIOUS
<1>1. WatchInv'
  BY NextKeepsWatch
<1>2. CASE UNCHANGED vars
  <2>1. UNCHANGED <<listening, session, shown, life, total, heardBy, requests, gaveUp, swept, loop, scan, reports>>
    BY <1>2 DEF vars, hostVars, connVars, watchVars
  <2>2. Watched' = Watched
    BY <2>1 DEF Watched
  <2>3. ASSUME NEW r \in Requests PROVE Untold(r)' /\ TellsAll(r)' /\ ClosedIsFinal(r)' /\ AskedOnce(r)'
    BY <2>1, <2>2 DEF TellInv, Untold, TellsAll, ClosedIsFinal, AskedOnce, Owed, Told, Unreported
  <2>4. ScanReads'
    BY <2>1, <2>2 DEF TellInv, ScanReads
  <2> QED BY <2>3, <2>4 DEF TellInv
<1> QED BY <1>1, <1>2, HostKeepsTell, ConnKeepsTell, AddKeepsTell, LoopKeepsTell, AskKeepsTell, ReadKeepsTell,
           FinishKeepsTell DEF Next

(* The host that heard of a request learns its traffic, unless the full    *)
(* queue took a report of it, refused all the retries, or a tick that saw  *)
(* no engine swept it away.                                                *)
THEOREM HostLearnsTotals == Spec => []TotalsNotLost
<1>1. WatchInv /\ TellInv /\ [Next]_vars => WatchInv' /\ TellInv'
  BY NextKeepsWatch, NextKeepsTell
<1>2. TellInv => TotalsNotLost
  BY DEF TellInv, TellsAll, Owed, Told, Last, TotalsNotLost, Queued
<1> QED BY <1>1, <1>2, InitWatch, PTL DEF Spec

=============================================================================

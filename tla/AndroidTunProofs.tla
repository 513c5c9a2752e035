-------------------------- MODULE AndroidTunProofs --------------------------
(* Proofs about the TUN handler on Android and about the runs of its VPN,  *)
(* for any number of dials, starts, jobs and DNS updates.                  *)
EXTENDS AndroidRuns, FiniteSetTheorems, TLAPS

Closing == {"stopping", "restarting", "refusing"}
Places == Closing \cup {"idle", "stopped", "start", "hook", "list", "scan", "tun", "up"}

TunTypeOK ==
    /\ call \in Places
    /\ starts \in 0..MaxStarts
    /\ tunHandler \in Handlers \cup {None}
    /\ active \in Handlers \cup {None}
    /\ callbacks \subseteq Handlers
    /\ readers \in [Handlers -> SUBSET Sockets]
    /\ listed \subseteq Sockets
    /\ sock \in [Sockets -> [at : {"none", "made", "loaded", "protecting", "done"},
                             handler : Handlers \cup {None}]]
    /\ protected \subseteq Sockets

(* The handler there is has its callbacks, and is the active one unless    *)
(* its hook is yet to go in; without one none is active.                   *)
HandlerLives ==
    /\ call \in {"stopped", "start"} => tunHandler = None
    /\ call \notin {"idle", "stopped", "start"} => tunHandler # None
    /\ call \in {"restarting", "start"} => starts \in Handlers
    /\ active = IF call = "hook" THEN None ELSE tunHandler
    /\ tunHandler # None => tunHandler \in callbacks

(* A dial that loaded a handler names one, and one that calls it holds its *)
(* read lock.                                                              *)
CallIsLocked ==
    \A s \in Sockets :
        /\ sock[s].at \in {"loaded", "protecting"} => sock[s].handler \in Handlers
        /\ sock[s].at = "protecting" => s \in readers[sock[s].handler]

(* A socket that the handler there is has protected or is yet to be asked  *)
(* for.                                                                    *)
Covered(s) ==
    \/ sock[s].at \in {"none", "made"}
    \/ s \in protected
    \/ sock[s].at \in {"loaded", "protecting"} /\ sock[s].handler = tunHandler

(* From the listing on, every socket is covered or listed.                 *)
ScanCovers ==
    call \in {"scan", "tun", "up", "idle"} /\ tunHandler # None =>
        \A s \in Sockets : Covered(s) \/ (call = "scan" /\ s \in listed)

TunInv == TunTypeOK /\ HandlerLives /\ CallIsLocked /\ NoCallAfterClose /\ ScanCovers

(* No handler is the constant that stands for none.                        *)
LEMMA HandlerIsNotNone == \A h \in Handlers : h # None /\ h \in Nat
  BY TunAssumption DEF Handlers

(* No handler and no socket in the beginning.                              *)
LEMMA InitTunInv == RInit => TunInv
  BY TunAssumption
  DEF RInit, Init, NoSocket, Places, Closing, Handlers, TunInv, TunTypeOK, HandlerLives,
      CallIsLocked, NoCallAfterClose, ScanCovers, At

(* The invariant is about the state of the TUN, the running flag and the   *)
(* handlers' writers left out.                                             *)
LEMMA OthersKeepTunInv ==
    ASSUME TunInv,
           UNCHANGED <<call, starts, tunHandler, active, callbacks, readers, listed, sock, protected>>
    PROVE  TunInv'
  BY DEF TunInv, TunTypeOK, HandlerLives, CallIsLocked, NoCallAfterClose, ScanCovers, Covered, At,
         Handlers, Places, Closing, Sockets

(* A call that begins changes neither the handler nor a socket.            *)
LEMMA BeginKeepsTunInv ==
    ASSUME TunInv, StopTun \/ \E fd \in BOOLEAN : StartTun(fd)
    PROVE  TunInv'
<1> USE DEF StopTun, StartTun, AfterClose, Goto, handleVars, lockVars, sockVars
<1>1. TunTypeOK'
  BY TunAssumption DEF TunInv, TunTypeOK, Places, Closing
<1>2. HandlerLives'
  BY TunAssumption DEF TunInv, TunTypeOK, HandlerLives, Handlers, Places, Closing
<1>3. CallIsLocked' /\ NoCallAfterClose' /\ ScanCovers'
  BY DEF TunInv, CallIsLocked, NoCallAfterClose, ScanCovers, At
<1> QED BY <1>1, <1>2, <1>3 DEF TunInv

(* A handler is closed under its lock, when no dial calls it.              *)
LEMMA CloseKeepsTunInv ==
    ASSUME TunInv, tunHandler \in Handlers, Granted, Clear(tunHandler), tunHandler' = None,
           call' \in {"stopped", "start", "idle"}, call' = "start" => starts \in Handlers,
           call # "hook", UNCHANGED <<starts, readers, sockVars>>
    PROVE  TunInv'
<1> USE DEF Granted, Clear, sockVars
<1>1. TunTypeOK'
  BY DEF TunInv, TunTypeOK, Places
<1>2. HandlerLives'
  BY DEF TunInv, TunTypeOK, HandlerLives
<1>3. CallIsLocked'
  BY DEF TunInv, CallIsLocked
<1>4. NoCallAfterClose'
  BY DEF TunInv, CallIsLocked, NoCallAfterClose, At
<1>5. ScanCovers'
  BY DEF ScanCovers
<1> QED BY <1>1, <1>2, <1>3, <1>4, <1>5 DEF TunInv

(* CloseHandler and a start that failed close their handler that way.      *)
LEMMA CloseHandlerKeepsTunInv ==
    ASSUME TunInv, CloseHandler \/ (\E up \in BOOLEAN : FinishStart(up)) \/ StopListener \/ StartListener
    PROVE  TunInv'
<1>1. CASE CloseHandler
  <2>1. tunHandler \in Handlers /\ call # "hook" /\ call \in {"stopping", "restarting", "refusing"}
    BY <1>1 DEF CloseHandler, AfterClose, TunInv, TunTypeOK, HandlerLives
  <2>2. call' \in {"stopped", "start", "idle"}
    BY <1>1, <2>1 DEF CloseHandler, AfterClose, Goto
  <2>3. call # "restarting" => call' # "start"
    BY <1>1, <2>1 DEF CloseHandler, AfterClose, Goto
  <2>4. call' = "start" => starts \in Handlers
    BY <2>3 DEF TunInv, HandlerLives
  <2> QED BY <1>1, <2>1, <2>2, <2>4, CloseKeepsTunInv DEF CloseHandler
<1>2. CASE FinishStart(TRUE)
  <2> USE <1>2 DEF FinishStart, Goto, handleVars, sockVars
  <2>1. TunTypeOK' /\ HandlerLives'
    BY DEF TunInv, TunTypeOK, HandlerLives, Places
  <2>2. CallIsLocked' /\ NoCallAfterClose' /\ ScanCovers'
    BY DEF TunInv, CallIsLocked, NoCallAfterClose, ScanCovers, Covered, At
  <2> QED BY <2>1, <2>2 DEF TunInv
<1>3. CASE FinishStart(FALSE)
  <2>1. tunHandler \in Handlers /\ call # "hook"
    BY <1>3 DEF FinishStart, TunInv, TunTypeOK, HandlerLives
  <2> QED BY <1>3, <2>1, CloseKeepsTunInv DEF FinishStart, Goto
<1>4. CASE StopListener \/ StartListener
  <2> USE <1>4 DEF StopListener, StartListener, Goto, handleVars, lockVars, sockVars
  <2>1. TunTypeOK' /\ HandlerLives'
    BY DEF TunInv, TunTypeOK, HandlerLives, Places
  <2>2. CallIsLocked' /\ NoCallAfterClose'
    BY DEF TunInv, CallIsLocked, NoCallAfterClose, At
  <2>3. ScanCovers'
    BY DEF TunInv, HandlerLives, ScanCovers, Covered
  <2> QED BY <2>1, <2>2, <2>3 DEF TunInv
<1> QED BY <1>1, <1>2, <1>3, <1>4

(* A new handler has its callbacks before its hook, and its hook before    *)
(* the directory is read.                                                  *)
LEMMA StartKeepsTunInv ==
    ASSUME TunInv, NewHandler \/ InitHook \/ ListSockets
    PROVE  TunInv'
<1> USE DEF NewHandler, InitHook, ListSockets, AfterNewHandler, Goto, handleVars, lockVars, sockVars
<1>1. TunTypeOK'
  BY DEF TunInv, TunTypeOK, HandlerLives, Places
<1>2. HandlerLives'
  BY HandlerIsNotNone DEF TunInv, TunTypeOK, HandlerLives
<1>3. CallIsLocked' /\ NoCallAfterClose'
  BY DEF TunInv, CallIsLocked, NoCallAfterClose, At
<1>4. ScanCovers'
  BY DEF ScanCovers, Covered
<1> QED BY <1>1, <1>2, <1>3, <1>4 DEF TunInv

(* What the scan passes is protected or gone.                              *)
LEMMA ScanKeepsTunInv ==
    ASSUME TunInv, NEW s \in Sockets, ProtectListed(s)
    PROVE  TunInv'
<1> USE DEF ProtectListed, callVars, handleVars, lockVars
<1>1. TunTypeOK' /\ HandlerLives'
  BY DEF TunInv, TunTypeOK, HandlerLives
<1>2. CallIsLocked' /\ NoCallAfterClose'
  BY DEF TunInv, CallIsLocked, NoCallAfterClose, At
<1>3. ScanCovers'
  BY DEF TunInv, ScanCovers, Covered
<1> QED BY <1>1, <1>2, <1>3 DEF TunInv

(* A socket that is made is one the hook will see.                         *)
LEMMA MakeKeepsTunInv ==
    ASSUME TunInv, BeginTun \/ \E s \in Sockets : MakeSocket(s)
    PROVE  TunInv'
<1>1. CASE BeginTun
  <2> USE <1>1 DEF BeginTun, Goto, handleVars, lockVars
  <2>0. Own \in Sockets
    BY DEF Sockets
  <2>1. TunTypeOK' /\ HandlerLives'
    BY <2>0 DEF TunInv, TunTypeOK, HandlerLives, Places
  <2>2. CallIsLocked' /\ NoCallAfterClose'
    BY <2>0 DEF TunInv, TunTypeOK, CallIsLocked, NoCallAfterClose, At
  <2>3. ScanCovers'
    BY <2>0 DEF TunInv, TunTypeOK, ScanCovers, Covered
  <2> QED BY <2>1, <2>2, <2>3 DEF TunInv
<1>2. ASSUME NEW s \in Sockets, MakeSocket(s) PROVE TunInv'
  <2> USE <1>2 DEF MakeSocket, Move, callVars, handleVars
  <2>1. TunTypeOK' /\ HandlerLives'
    BY DEF TunInv, TunTypeOK, HandlerLives
  <2>2. CallIsLocked' /\ NoCallAfterClose'
    BY DEF TunInv, TunTypeOK, CallIsLocked, NoCallAfterClose, At
  <2>3. ScanCovers'
    BY DEF TunInv, TunTypeOK, ScanCovers, Covered
  <2> QED BY <2>1, <2>2, <2>3 DEF TunInv
<1> QED BY <1>1, <1>2

(* The hook finds the handler there is, once its scan has begun.           *)
LEMMA LoadKeepsTunInv ==
    ASSUME TunInv, NEW s \in Sockets, LoadHandler(s)
    PROVE  TunInv'
<1> USE DEF LoadHandler, At, callVars, handleVars
<1>1. TunTypeOK' /\ HandlerLives'
  BY DEF TunInv, TunTypeOK, HandlerLives
<1>2. CallIsLocked' /\ NoCallAfterClose'
  BY DEF TunInv, TunTypeOK, CallIsLocked, NoCallAfterClose
<1>3. ScanCovers'
  BY DEF TunInv, TunTypeOK, HandlerLives, ScanCovers, Covered
<1> QED BY <1>1, <1>2, <1>3 DEF TunInv

(* A protect call begins under the read lock of a handler that has its     *)
(* callbacks; the one there is has them.                                   *)
LEMMA BeginProtectKeepsTunInv ==
    ASSUME TunInv, NEW s \in Sockets, BeginProtect(s)
    PROVE  TunInv'
<1> USE DEF BeginProtect, At, Move, RLock, callVars, handleVars
<1>1. sock[s].handler \in Handlers
  BY DEF TunInv, CallIsLocked
<1>2. TunTypeOK' /\ HandlerLives'
  BY <1>1 DEF TunInv, TunTypeOK, HandlerLives
<1>3. CallIsLocked'
  BY <1>1 DEF TunInv, TunTypeOK, CallIsLocked
<1>4. NoCallAfterClose'
  BY <1>1 DEF TunInv, TunTypeOK, NoCallAfterClose
<1>5. ScanCovers'
  BY <1>1 DEF TunInv, TunTypeOK, HandlerLives, ScanCovers, Covered
<1> QED BY <1>2, <1>3, <1>4, <1>5 DEF TunInv

(* A protect call that ends leaves its socket protected.                   *)
LEMMA EndProtectKeepsTunInv ==
    ASSUME TunInv, NEW s \in Sockets, EndProtect(s)
    PROVE  TunInv'
<1> USE DEF EndProtect, At, Move, callVars, handleVars
<1>1. sock[s].handler \in Handlers
  BY DEF TunInv, CallIsLocked
<1>2. TunTypeOK' /\ HandlerLives'
  BY <1>1 DEF TunInv, TunTypeOK, HandlerLives
<1>3. CallIsLocked'
  BY <1>1 DEF TunInv, TunTypeOK, CallIsLocked
<1>4. NoCallAfterClose'
  BY <1>1 DEF TunInv, TunTypeOK, NoCallAfterClose
<1>5. ScanCovers'
  BY <1>1 DEF TunInv, TunTypeOK, HandlerLives, ScanCovers, Covered
<1> QED BY <1>2, <1>3, <1>4, <1>5 DEF TunInv

(* A socket that is closed is none.                                        *)
LEMMA CloseSocketKeepsTunInv ==
    ASSUME TunInv, NEW s \in Sockets, CloseSocket(s)
    PROVE  TunInv'
<1> USE DEF CloseSocket, NoSocket, At, callVars, handleVars, lockVars
<1>1. TunTypeOK' /\ HandlerLives'
  BY DEF TunInv, TunTypeOK, HandlerLives
<1>2. CallIsLocked' /\ NoCallAfterClose'
  BY DEF TunInv, TunTypeOK, CallIsLocked, NoCallAfterClose
<1>3. ScanCovers'
  BY DEF TunInv, TunTypeOK, ScanCovers, Covered
<1> QED BY <1>1, <1>2, <1>3 DEF TunInv

(* Every step keeps the invariant, the ones of the other views too.        *)
LEMMA NextKeepsTunInv == TunInv /\ [RNext]_allVars => TunInv'
<1> SUFFICES ASSUME TunInv, [RNext]_allVars PROVE TunInv'
  OBVIOUS
<1>1. CASE Next
  <2>1. CASE StopTun \/ \E fd \in BOOLEAN : StartTun(fd)
    BY <2>1, BeginKeepsTunInv
  <2>2. CASE LockMu
    BY <2>2, OthersKeepTunInv DEF LockMu, callVars, handleVars, sockVars
  <2>3. CASE CloseHandler \/ (\E up \in BOOLEAN : FinishStart(up)) \/ StopListener \/ StartListener
    BY <2>3, CloseHandlerKeepsTunInv
  <2>4. CASE NewHandler \/ InitHook \/ ListSockets
    BY <2>4, StartKeepsTunInv
  <2>5. CASE (\E s \in Sockets : ProtectListed(s)) \/ BeginTun
    BY <2>5, ScanKeepsTunInv, MakeKeepsTunInv
  <2>6. CASE \E s \in Sockets : MakeSocket(s) \/ Dialing(s) \/ CloseSocket(s)
    BY <2>6, MakeKeepsTunInv, LoadKeepsTunInv, BeginProtectKeepsTunInv, EndProtectKeepsTunInv,
       CloseSocketKeepsTunInv DEF Dialing
  <2> QED BY <1>1, <2>1, <2>2, <2>3, <2>4, <2>5, <2>6 DEF Next, Calling
<1>2. CASE UNCHANGED tunOnly
  BY <1>2, OthersKeepTunInv DEF tunOnly, handleVars, lockVars, sockVars
<1>3. CASE UNCHANGED vars
  BY <1>3, OthersKeepTunInv DEF vars, callVars, handleVars, lockVars, sockVars
<1> QED BY <1>1, <1>2, <1>3 DEF RNext, TunView, JobsView, RunsView, DnsView, allVars

(* The invariant of the TUN holds throughout.                              *)
LEMMA AlwaysTunInv == RSpec => []TunInv
  BY InitTunInv, NextKeepsTunInv, PTL DEF RSpec

(* However dials, starts and stops overlap, no callback of the VPN is      *)
(* called after its handler was closed.                                    *)
THEOREM CallbacksLive == RSpec => []NoCallAfterClose
<1>1. TunInv => NoCallAfterClose
  BY DEF TunInv
<1> QED BY <1>1, AlwaysTunInv, PTL

(* However dials overlap a start, no socket is left inside the VPN.        *)
THEOREM SocketsStayOut == RSpec => []NoSocketLoops
<1>1. TunInv => NoSocketLoops
  BY DEF TunInv, ScanCovers, Covered, NoSocketLoops, At
<1> QED BY <1>1, AlwaysTunInv, PTL

-----------------------------------------------------------------------------
(* The updates of the system's DNS servers.                                *)

(* The first n updates have come; once the newest is done its servers are  *)
(* in use and no older one is about to replace them.                       *)
CameUpTo(n) ==
    /\ \A u \in Updates : update[u] # "none" <=> u <= n
    /\ n = 0 => servers = 0
    /\ n # 0 /\ update[n] = "done" =>
           servers = n /\ \A u \in Updates : update[u] # "setting"

(* The one that sets the servers holds the mutex.                          *)
DnsInv ==
    /\ update \in [Updates -> {"none", "started", "setting", "done"}]
    /\ \A u \in Updates : update[u] = "setting" => dnsUpdateMu = u
    /\ \E n \in 0..MaxUpdates : CameUpTo(n)

(* A new update is the next one, and the newest.                           *)
LEMMA UpdateKeepsDnsInv ==
    ASSUME DnsInv, NEW u \in Updates, UpdateDns(u)
    PROVE  DnsInv'
<1> USE RunsAssumption DEF UpdateDns, Updates
<1>1. PICK n \in 0..MaxUpdates : CameUpTo(n)
  BY DEF DnsInv
<1>2. u = n + 1
  BY <1>1 DEF CameUpTo
<1>3. CameUpTo(u)'
  BY <1>1, <1>2 DEF CameUpTo, DnsInv
<1> QED BY <1>3 DEF DnsInv

(* An update that is not the newest when it looks sets nothing; one that   *)
(* is waits for the mutex first.                                           *)
LEMMA LookKeepsDnsInv ==
    ASSUME DnsInv, NEW u \in Updates, LookAtSeq(u)
    PROVE  DnsInv'
<1> USE RunsAssumption, TunAssumption DEF LookAtSeq, Updates
<1>1. PICK n \in 0..MaxUpdates : CameUpTo(n)
  BY DEF DnsInv
<1>2. n \in Updates /\ u <= n
  BY <1>1 DEF CameUpTo
<1>3. \A v \in Updates : update[v] # "setting"
  BY DEF LockDns, DnsInv
<1>4. CASE Newest(u)
  <2>1. u = n
    BY <1>1, <1>2, <1>4 DEF CameUpTo, Newest
  <2>2. update' = [update EXCEPT ![u] = "setting"] /\ dnsUpdateMu' = u /\ servers' = servers
    BY <1>4 DEF LockDns
  <2>3. CameUpTo(n)'
    BY <1>1, <1>2, <2>1, <2>2 DEF CameUpTo, DnsInv
  <2> QED BY <1>3, <2>2, <2>3 DEF DnsInv
<1>5. CASE ~Newest(u)
  <2>1. u # n
    BY <1>1, <1>5 DEF CameUpTo, Newest
  <2>2. update' = [update EXCEPT ![u] = "done"] /\ UNCHANGED <<dnsUpdateMu, servers>>
    BY <1>5
  <2>3. CameUpTo(n)'
    BY <1>1, <1>2, <2>1, <2>2 DEF CameUpTo, DnsInv
  <2> QED BY <2>2, <2>3 DEF DnsInv
<1> QED BY <1>4, <1>5

(* An older update that is still setting finds the newest not done.        *)
LEMMA SetKeepsDnsInv ==
    ASSUME DnsInv, NEW u \in Updates, UpdateSystemDns(u)
    PROVE  DnsInv'
<1> USE RunsAssumption DEF UpdateSystemDns, Updates
<1>1. PICK n \in 0..MaxUpdates : CameUpTo(n)
  BY DEF DnsInv
<1>2. n \in Updates /\ u <= n
  BY <1>1 DEF CameUpTo
<1>3. \A v \in Updates : v # u => update[v] # "setting"
  BY DEF DnsInv
<1>4. CameUpTo(n)'
  BY <1>1, <1>2, <1>3 DEF CameUpTo, DnsInv
<1> QED BY <1>3, <1>4 DEF DnsInv

(* Every step keeps the invariant of the updates.                          *)
LEMMA NextKeepsDnsInv == DnsInv /\ [RNext]_allVars => DnsInv'
<1> SUFFICES ASSUME DnsInv, [RNext]_allVars PROVE DnsInv'
  OBVIOUS
<1>1. CASE \E u \in Updates : DnsStep(u)
  BY <1>1, UpdateKeepsDnsInv, LookKeepsDnsInv, SetKeepsDnsInv DEF DnsStep
<1>2. CASE UNCHANGED dnsVars
  BY <1>2 DEF dnsVars, DnsInv, CameUpTo
<1> QED BY <1>1, <1>2 DEF RNext, TunView, JobsView, RunsView, DnsView, DnsQuiet, allVars

(* Whichever goroutine is overtaken, the servers in use are the newest     *)
(* update's once none is under way.                                        *)
THEOREM NewestServersWin == RSpec => []DnsSettles
<1>1. RInit => DnsInv
  <2> SUFFICES ASSUME RInit PROVE DnsInv
    OBVIOUS
  <2>1. CameUpTo(0) /\ 0 \in 0..MaxUpdates
    BY RunsAssumption DEF RInit, CameUpTo, Updates
  <2> QED BY <2>1 DEF RInit, DnsInv
<1>2. DnsInv => DnsSettles
  <2> SUFFICES ASSUME DnsInv, \A u \in Updates : update[u] \in {"none", "done"}
               PROVE  servers = Cardinality({u \in Updates : update[u] # "none"})
    BY DEF DnsSettles
  <2>1. PICK n \in 0..MaxUpdates : CameUpTo(n)
    BY DEF DnsInv
  <2>2. {u \in Updates : update[u] # "none"} = 1..n
    BY <2>1, RunsAssumption DEF CameUpTo, Updates
  <2>3. Cardinality(1..n) = n
    BY <2>1, FS_Interval
  <2>4. servers = n
    BY <2>1, RunsAssumption DEF CameUpTo, Updates
  <2> QED BY <2>2, <2>3, <2>4
<1> QED BY <1>1, <1>2, NextKeepsDnsInv, PTL DEF RSpec

-----------------------------------------------------------------------------
(***************************************************************************)
(* The runs.  RunSettles speaks of a state in which nothing is under way;  *)
(* what makes it true is said of every state, job by job: which locks a    *)
(* place holds, which token it carries, and, while intent, run and core    *)
(* disagree, which job is on its way to make them agree.                   *)
(***************************************************************************)
PlaceOf(j) == job[j].at
TokenOf(j) == job[j].token
BindingOf(j) == job[j].binding
CoreOf(j) == job[j].core

StartToken(k) == [by |-> k, running |-> TRUE, reset |-> FALSE]
StopToken(k) == [by |-> k, running |-> FALSE, reset |-> FALSE]
Tokens == [by : Jobs \cup {0}, running : BOOLEAN, reset : BOOLEAN]

(* Where a start is: before it is let in, waiting, and with the service.   *)
Waiting == {"prepare", "prompt", "enter"}
OnTheWay == {"setup", "apply", "permission", "start"} \cup Waiting
Bound == {"establish", "adopt", "refused", "refusedStopped", "established", "running"}
Ending == {"stopService", "release"}
BeforeBind == {"idle", "claim", "flutterStart", "bind"} \cup OnTheWay

(* The places that hold each lock.                                         *)
FlutterPlaces == {"flutterStart", "flutterStopped"}
PreparationPlaces == Waiting \cup {"bind", "leave", "leaveFailed"} \cup Bound
TransitionPlaces == {"bind", "leave", "leaveFailed", "leaveStop", "teardown"} \cup Bound \cup Ending
ControllerPlaces == {"leaveFailed", "leaveStop", "released"} \cup Bound \cup Ending
TunPlaces == {"refused", "refusedStopped", "established", "revoked", "disconnected"}

StartCalls == {"flutterStart", "established", "running"}
StopCalls == {"flutterStopped", "refusedStopped", "release", "leaveFailed", "leaveStop",
              "revoked", "disconnected", "released"}

JobPlaces ==
    {"idle", "claim", "drop", "reconcile", "claimStop", "stop", "ended", "lost", "settle",
     "onRevoke", "revokeAction"}
    \cup OnTheWay \cup TransitionPlaces \cup ControllerPlaces \cup TunPlaces \cup FlutterPlaces

Cores == {"none", "start", "stop"}
JobRecords ==
    [at : JobPlaces, token : Tokens \cup {None}, binding : Jobs \cup {None}, core : Cores]

(* Types; the jobs that have come are the first ones.                      *)
RunTypes ==
    /\ latest \in Tokens
    /\ runtime \in BOOLEAN /\ binding \in Jobs \cup {None}
    /\ tunRunning \in BOOLEAN /\ tunUp \in BOOLEAN
    /\ isRunning \in BOOLEAN /\ listening \in BOOLEAN /\ missed \in BOOLEAN
    /\ lock \in [Locks -> Jobs \cup {None}]
    /\ job \in [Jobs -> JobRecords]
    /\ \A j \in Jobs : PlaceOf(j) = "idle" => job[j] = NoJob
    /\ \A i, j \in Jobs : i < j /\ PlaceOf(i) = "idle" => PlaceOf(j) = "idle"

(* A lock is held at its places, and by nobody elsewhere; a service that   *)
(* ends may be that of a start or not, and its TUN stopped or not.         *)
LocksFit ==
    \A j \in Jobs :
        /\ lock["flutter"] = j <=> PlaceOf(j) \in FlutterPlaces
        /\ PlaceOf(j) \in PreparationPlaces => lock["preparation"] = j
        /\ lock["preparation"] = j => PlaceOf(j) \in PreparationPlaces \cup Ending
        /\ lock["transition"] = j <=> PlaceOf(j) \in TransitionPlaces
        /\ lock["controller"] = j <=> PlaceOf(j) \in ControllerPlaces
        /\ PlaceOf(j) \in TunPlaces => lock["tun"] = j
        /\ lock["tun"] = j => PlaceOf(j) \in TunPlaces \cup {"release"}

(* A call of the core is made from its places; an engine that goes leaves  *)
(* its call behind.                                                        *)
CallsFit ==
    \A j \in Jobs :
        /\ CoreOf(j) = "start" => PlaceOf(j) \in StartCalls \/ (missed /\ PlaceOf(j) = "ended")
        /\ CoreOf(j) = "stop" => PlaceOf(j) \in StopCalls \/ (missed /\ PlaceOf(j) = "ended")

(* Inside transitioning, for a start and for a stop.                       *)
StartingAt(j) ==
    \/ PlaceOf(j) \in {"bind", "leave", "leaveFailed"} \cup Bound
    \/ PlaceOf(j) \in Ending /\ lock["preparation"] = j
StoppingAt(j) ==
    \/ PlaceOf(j) \in {"teardown", "leaveStop"}
    \/ PlaceOf(j) \in Ending /\ lock["preparation"] # j

(* A job carries the token it asked with, and a run that is wanted is      *)
(* wanted by a start that has not given up.                                *)
TokensFit ==
    /\ \A j \in Jobs :
        /\ PlaceOf(j) \in OnTheWay \cup {"drop"} \/ StartingAt(j) => TokenOf(j) = StartToken(j)
        /\ PlaceOf(j) = "stop" => TokenOf(j) = StopToken(j)
        /\ PlaceOf(j) \in {"lost", "released", "settle"} => TokenOf(j) \in Tokens
    /\ latest.running =>
        /\ latest.by \in Jobs /\ latest = StartToken(latest.by)
        /\ PlaceOf(latest.by) \in OnTheWay \cup {"drop", "ended"} \/ StartingAt(latest.by)

TransitionFits ==
    /\ lock["transition"] = None => transition = None
    /\ \A j \in Jobs :
        /\ StartingAt(j) => transition = "STARTING"
        /\ StoppingAt(j) => transition = "STOPPING" \/ (transition = None /\ ~runtime)
        /\ StartingAt(j) /\ PlaceOf(j) # "leave" => ~runtime
        /\ PlaceOf(j) \in {"leaveStop", "released"} => ~runtime

(* The state shown is the one publish would show, or a job is about to.    *)
ShownFits ==
    \/ shown = Derived(transition, runtime, latest.running)
    \/ transition = None /\ ~runtime /\ \E j \in Jobs : PlaceOf(j) \in {"released", "settle"}
    \/ transition = None /\ runtime /\ \E j \in Jobs : PlaceOf(j) = "reconcile"

BindingFits ==
    /\ runtime => binding # None
    /\ binding # None =>
        runtime \/ \E j \in Jobs : PlaceOf(j) \in Bound \cup Ending /\ lock["preparation"] = j
    /\ \A j \in Jobs :
        /\ PlaceOf(j) \in Bound => binding = j
        /\ PlaceOf(j) \in {"released", "leaveFailed", "leaveStop"} => binding = None
        /\ binding = j => PlaceOf(j) \notin BeforeBind

(* The interface stands for the core's TUN or for one about to be.         *)
TunFits ==
    /\ tunUp => tunRunning \/ \E j \in Jobs : PlaceOf(j) = "adopt"
    /\ tunRunning =>
        runtime \/ \E j \in Jobs : PlaceOf(j) \in {"refused", "established", "running"}
    /\ \A j \in Jobs :
        /\ PlaceOf(j) \in {"release", "refusedStopped", "revoked", "disconnected"} => ~tunRunning
        /\ PlaceOf(j) = "stopService" /\ lock["preparation"] = j => ~tunRunning
        /\ PlaceOf(j) = "established" => tunRunning

(* A lost service whose binding is still the one in use.                   *)
Loses(j) == PlaceOf(j) = "lost" /\ binding # None /\ BindingOf(j) = binding

LossFits ==
    /\ \A j \in Jobs : Loses(j) => ~tunRunning
    /\ \A j, k \in Jobs :
        PlaceOf(j) = "lost" /\ BindingOf(j) = k => PlaceOf(k) \notin BeforeBind \cup {"establish", "adopt"}
    /\ \A j \in Jobs : PlaceOf(j) = "disconnected" =>
        /\ binding # None
        /\ \A k \in Jobs : PlaceOf(k) \notin {"establish", "adopt", "release"} /\ ~Loses(k)

(* A loss that will reset the intent of a run remembers that intent.       *)
LossRemembers ==
    ~missed /\ latest.running /\ PlaceOf(latest.by) \in {"running", "leave", "ended"} =>
        \A j \in Jobs : Loses(j) => TokenOf(j) = latest

(* A run nobody wants has a job on its way to stop it...                   *)
UnwantedStops ==
    runtime /\ ~latest.running =>
        \E j \in Jobs :
            \/ PlaceOf(j) \in {"leave", "drop", "reconcile", "teardown"} \cup Ending
            \/ PlaceOf(j) = "stop" /\ IsCurrent(j)

(* ...a run that is wanted and is not there a start to make it, or a loss  *)
(* to take the intent back...                                              *)
WantedStarts ==
    ~missed /\ latest.running /\ ~runtime =>
        \/ PlaceOf(latest.by) \notin {"ended", "leave"}
        \/ \E j \in Jobs : PlaceOf(j) \in {"released", "settle"} /\ TokenOf(j) = latest

(* ...and while a stop is at work the start that is wanted has yet to come.*)
StopsFirst ==
    \A j \in Jobs :
        StoppingAt(j) /\ latest.running => PlaceOf(latest.by) \in OnTheWay \cup {"drop"}

(* A run without its interface will end, or a start has yet to come.       *)
DeadRunEnds ==
    ~missed /\ runtime /\ ~tunUp =>
        \/ ~latest.running
        \/ PlaceOf(latest.by) \in OnTheWay \cup {"drop"}
        \/ \E j \in Jobs :
            \/ PlaceOf(j) \in {"disconnected", "onRevoke", "revoked", "revokeAction", "claimStop"}
            \/ Loses(j)

(* So does a start whose interface goes before it has set runtime.         *)
DeadStartHears ==
    \A k \in Jobs :
        ~missed /\ PlaceOf(k) \in {"adopt", "established", "running"} /\ ~tunUp =>
            \E j \in Jobs :
                PlaceOf(j) \in {"disconnected", "onRevoke", "revoked", "revokeAction"} \/ Loses(j)

(* The ports are open only with the flag raised, and no run is wanted      *)
(* while Flutter closes them.                                              *)
FlagFits ==
    /\ listening => isRunning
    /\ \A j \in Jobs : ~missed /\ PlaceOf(j) = "flutterStopped" => ~latest.running

(* A run with its TUN has the flag raised, unless Flutter stopped it and   *)
(* native code has yet to raise it.                                        *)
FlagRaised ==
    ~missed /\ tunRunning /\ ~isRunning /\ (runtime \/ \E j \in Jobs : On(j, "running")) =>
        /\ latest.running => PlaceOf(latest.by) \in {"setup", "drop"}
        /\ \A j \in Jobs : ~On(j, "flutterStart")

(* A raised flag whose ports are closed has a job that opens or lowers it. *)
FlagSettles ==
    ~missed /\ isRunning /\ ~listening =>
        \E j \in Jobs :
            \/ PlaceOf(j) \in {"setup", "apply", "drop", "reconcile", "teardown"} \cup Ending
            \/ CoreOf(j) = "stop"

(* A core that runs without a run has a job that starts or closes it.      *)
ClosingPlaces ==
    {"flutterStart", "bind", "leaveFailed", "drop", "reconcile", "teardown"}
    \cup OnTheWay \cup Bound \cup Ending
CoreCloses ==
    ~missed /\ isRunning /\ ~runtime =>
        \E j \in Jobs : PlaceOf(j) \in ClosingPlaces \/ CoreOf(j) = "stop"

RunsInv ==
    /\ RunTypes /\ LocksFit /\ CallsFit /\ TokensFit /\ TransitionFits /\ ShownFits
    /\ BindingFits /\ TunFits /\ LossFits /\ LossRemembers
    /\ UnwantedStops /\ WantedStarts /\ StopsFirst /\ DeadRunEnds /\ DeadStartHears
    /\ FlagFits /\ FlagRaised /\ FlagSettles /\ CoreCloses

(* No job is the constant that stands for none.                            *)
LEMMA JobIsNotNone == \A j \in Jobs : j # None /\ j \in Nat /\ j # 0
  BY TunAssumption DEF Jobs

(* What the tokens of a start and of a stop say.                           *)
LEMMA TokenFacts ==
    /\ \A k : StartToken(k).by = k /\ StartToken(k).running = TRUE
    /\ \A k : StopToken(k).by = k /\ StopToken(k).running = FALSE
    /\ \A k \in Jobs : StartToken(k) \in Tokens /\ StopToken(k) \in Tokens
  BY DEF StartToken, StopToken, Tokens

(* What a step does to the jobs and the locks, field by field.             *)
Moved(j, at, core, token, bound) ==
    /\ job' \in [Jobs -> JobRecords]
    /\ job'[j].at = at /\ job'[j].core = core
    /\ job'[j].token = token /\ job'[j].binding = bound
    /\ \A i \in Jobs : i # j => job'[i] = job[i]

Taken(j, l) ==
    /\ lock' \in [Locks -> Jobs \cup {None}]
    /\ lock'[l] = j /\ \A m \in Locks : m # l => lock'[m] = lock[m]

Given(ls) ==
    /\ lock' \in [Locks -> Jobs \cup {None}]
    /\ \A l \in Locks : lock'[l] = IF l \in ls THEN None ELSE lock[l]

(* Set moves one job and leaves its token and binding.                     *)
LEMMA SetMoves ==
    ASSUME RunsInv, NEW j \in Jobs, NEW at \in JobPlaces, NEW core \in Cores, Set(j, at, core)
    PROVE  Moved(j, at, core, TokenOf(j), BindingOf(j))
  <1>1. job \in [Jobs -> JobRecords] BY DEF RunsInv, RunTypes
  <1> QED BY <1>1 DEF Set, Moved, JobRecords, TokenOf, BindingOf

(* So does To, which leaves no call of the core behind.                    *)
LEMMA ToMoves ==
    ASSUME RunsInv, NEW j \in Jobs, NEW at \in JobPlaces, To(j, at)
    PROVE  Moved(j, at, "none", TokenOf(j), BindingOf(j))
  BY SetMoves DEF To, Cores

(* A job that mints a token moves with it.                                 *)
LEMMA TokenMoves ==
    ASSUME RunsInv, NEW j \in Jobs, NEW at \in JobPlaces, NEW token \in Tokens,
           job' = [job EXCEPT ![j].at = at, ![j].token = token]
    PROVE  Moved(j, at, CoreOf(j), token, BindingOf(j))
  <1>1. job \in [Jobs -> JobRecords] BY DEF RunsInv, RunTypes
  <1> QED BY <1>1 DEF Moved, JobRecords, CoreOf, BindingOf

(* A call of the core that ends leaves its job where it is.                *)
LEMMA CoreMoves ==
    ASSUME RunsInv, NEW j \in Jobs, job' = [job EXCEPT ![j].core = "none"]
    PROVE  Moved(j, PlaceOf(j), "none", TokenOf(j), BindingOf(j))
  <1>1. job \in [Jobs -> JobRecords] BY DEF RunsInv, RunTypes
  <1> QED BY <1>1 DEF Moved, JobRecords, PlaceOf, TokenOf, BindingOf, Cores

(* Take takes a lock that is free.                                         *)
LEMMA TakeTakes ==
    ASSUME RunsInv, NEW j \in Jobs, NEW l \in Locks, Take(j, l)
    PROVE  lock[l] = None /\ Taken(j, l)
  <1>1. lock \in [Locks -> Jobs \cup {None}] BY DEF RunsInv, RunTypes
  <1> QED BY <1>1 DEF Take, Taken

(* Give gives back the locks it names.                                     *)
LEMMA GiveGives ==
    ASSUME RunsInv, NEW ls, Give(ls)
    PROVE  Given(ls)
  <1>1. lock \in [Locks -> Jobs \cup {None}] BY DEF RunsInv, RunTypes
  <1> QED BY <1>1 DEF Give, Given

(* A job that comes is idle, and the ones before it have come.             *)
LEMMA FreshIsFirst ==
    ASSUME RunsInv, NEW j \in Jobs, Fresh(j)
    PROVE  job[j] = NoJob /\ job[j].at = "idle" /\ job[j].core = "none"
           /\ \A i \in Jobs : i < j => PlaceOf(i) # "idle"
  <1>1. job[j] = NoJob /\ job[j].at = "idle" /\ job[j].core = "none" BY DEF Fresh, NoJob
  <1>2. ASSUME NEW i \in Jobs, i < j PROVE PlaceOf(i) # "idle"
    <2>1. i \in 1..(j - 1) BY <1>2, RunsAssumption DEF Jobs
    <2>2. job[i] # NoJob BY <2>1 DEF Fresh
    <2> QED BY <2>2 DEF RunsInv, RunTypes
  <1> QED BY <1>1, <1>2

(* A loss remembers the newest token and the binding.                      *)
LEMMA LostMoves ==
    ASSUME RunsInv, NEW j \in Jobs, CoreOf(j) = "none",
           job' = [job EXCEPT ![j].at = "lost", ![j].token = latest, ![j].binding = binding]
    PROVE  Moved(j, "lost", "none", latest, binding)
  <1>1. job \in [Jobs -> JobRecords] /\ latest \in Tokens /\ binding \in Jobs \cup {None}
    BY DEF RunsInv, RunTypes
  <1>2. "lost" \in JobPlaces BY DEF JobPlaces
  <1> QED BY <1>1, <1>2 DEF Moved, JobRecords, CoreOf

(* A stop of Flutter is two jobs at once.                                  *)
TwoJobs(j, i) ==
    job' = [job EXCEPT ![j] = [NoJob EXCEPT !.at = "flutterStopped", !.core = "stop"],
                       ![i] = [NoJob EXCEPT !.at = "stop", !.token = StopToken(i)]]

(* It moves the two and leaves the others.                                 *)
LEMMA TwoMove ==
    ASSUME RunsInv, NEW j \in Jobs, NEW i \in Jobs, i # j, TwoJobs(j, i)
    PROVE  /\ job' \in [Jobs -> JobRecords]
           /\ job'[j].at = "flutterStopped" /\ job'[j].core = "stop"
           /\ job'[i].at = "stop" /\ job'[i].core = "none" /\ job'[i].token = StopToken(i)
           /\ \A k \in Jobs : k # j /\ k # i => job'[k] = job[k]
  <1>1. job \in [Jobs -> JobRecords] BY DEF RunsInv, RunTypes
  <1>2. StopToken(i) \in Tokens BY TokenFacts
  <1>3. "flutterStopped" \in JobPlaces /\ "stop" \in JobPlaces BY DEF JobPlaces, FlutterPlaces
  <1>4. [NoJob EXCEPT !.at = "flutterStopped", !.core = "stop"] \in JobRecords
    BY <1>3 DEF NoJob, JobRecords, Cores
  <1>5. [NoJob EXCEPT !.at = "stop", !.token = StopToken(i)] \in JobRecords
    BY <1>2, <1>3 DEF NoJob, JobRecords, Cores
  <1> QED BY <1>1, <1>4, <1>5 DEF TwoJobs, NoJob

(* Where the jobs are is said in terms of these throughout.                *)
USE DEF PlaceOf, CoreOf, TokenOf, BindingOf, On, Waiting, OnTheWay, Bound, Ending, BeforeBind,
        FlutterPlaces, PreparationPlaces, TransitionPlaces, ControllerPlaces, TunPlaces,
        StartCalls, StopCalls, ClosingPlaces, StartingAt, StoppingAt

(* A call of the core ends: its flag and its ports agree again, and the    *)
(* job that made it goes on from where it was.                             *)
LEMMA CoreActsKeepsRuns ==
    ASSUME RunsInv, NEW j \in Jobs, CoreActs(j)
    PROVE  RunsInv'
  <1>1. CASE job[j].core = "start"
    <2>1. CoreOf(j) = "start"
      BY <1>1 DEF CoreActs
    <2>2. Moved(j, PlaceOf(j), "none", TokenOf(j), BindingOf(j))
      BY <1>1, CoreMoves DEF CoreActs
    <2>3. UNCHANGED <<latest, transition, shown, runtime, binding, tunRunning, tunUp, missed,
          lock>>
      BY <1>1 DEF CoreActs, intentVars, controlVars, coreVars
    <2>4. isRunning' = TRUE /\ listening' = TRUE
      BY <1>1, <2>1 DEF CoreActs
    <2> USE <1>1, <2>1, <2>2, <2>3, <2>4, JobIsNotNone, TokenFacts DEF RunsInv, Moved, Taken,
            Given, Locks
    <2>5. LocksFit' /\ CallsFit' /\ TokensFit' /\ TransitionFits' /\ ShownFits'
      BY RunsAssumption DEF LocksFit, CallsFit, TokensFit, TransitionFits, ShownFits, Derived
    <2>6. BindingFits' /\ TunFits' /\ LossFits'
      BY DEF BindingFits, TunFits, LossFits, Loses
    <2>7. UnwantedStops' /\ DeadStartHears'
      BY DEF UnwantedStops, IsCurrent, DeadStartHears, Loses
    <2>8. FlagFits' /\ FlagSettles'
      BY DEF FlagFits, FlagSettles
    <2>9. RunTypes' BY DEF RunTypes, TokensFit, CallsFit
    <2>10. LossRemembers' /\ WantedStarts' /\ StopsFirst' /\ DeadRunEnds' /\ FlagRaised'
      BY DEF LossRemembers, Loses, TokensFit, WantedStarts, StopsFirst, DeadRunEnds, FlagRaised
    <2>11. CoreCloses' BY DEF CoreCloses, RunTypes, TokensFit, CallsFit
    <2> QED BY ONLY <2>5, <2>6, <2>7, <2>8, <2>9, <2>10, <2>11 DEF RunsInv
  <1>2. CASE job[j].core = "stop"
    <2>1. CoreOf(j) = "stop"
      BY <1>2 DEF CoreActs
    <2>2. Moved(j, PlaceOf(j), "none", TokenOf(j), BindingOf(j))
      BY <1>2, CoreMoves DEF CoreActs
    <2>3. UNCHANGED <<latest, transition, shown, runtime, binding, tunRunning, tunUp, missed,
          lock>>
      BY <1>2 DEF CoreActs, intentVars, controlVars, coreVars
    <2>4. isRunning' = FALSE /\ listening' = FALSE /\ isRunning' \in BOOLEAN /\ listening' \in
          BOOLEAN
      BY <1>2, <2>1 DEF CoreActs
    <2> USE <1>2, <2>1, <2>2, <2>3, <2>4, JobIsNotNone, TokenFacts DEF RunsInv, Moved, Taken,
            Given, Locks
    <2>5. LocksFit' /\ CallsFit' /\ TokensFit' /\ TransitionFits' /\ ShownFits'
      BY RunsAssumption DEF LocksFit, CallsFit, TokensFit, TransitionFits, ShownFits, Derived
    <2>6. BindingFits' /\ TunFits' /\ LossFits' /\ UnwantedStops' /\ DeadStartHears'
      BY DEF BindingFits, TunFits, LossFits, Loses, UnwantedStops, IsCurrent, DeadStartHears
    <2>7. FlagFits' /\ FlagSettles' /\ CoreCloses'
      BY DEF FlagFits, FlagSettles, CoreCloses
    <2>8. RunTypes' BY DEF RunTypes, TokensFit, CallsFit
    <2>9. LossRemembers' /\ WantedStarts' /\ StopsFirst' /\ DeadRunEnds'
      BY DEF LossRemembers, Loses, TokensFit, WantedStarts, StopsFirst, DeadRunEnds
    <2>10. FlagRaised' BY DEF FlagRaised, RunTypes, LocksFit, CallsFit, TokensFit, TransitionFits,
                          TunFits, FlagFits
    <2> QED BY ONLY <2>5, <2>6, <2>7, <2>8, <2>9, <2>10 DEF RunsInv
  <1> QED BY <1>1, <1>2 DEF CoreActs, RunsInv, RunTypes, JobRecords, Cores

(* A start comes; it has asked for nothing yet.                            *)
LEMMA StartActionKeepsRuns ==
    ASSUME RunsInv, NEW j \in Jobs, StartAction(j)
    PROVE  RunsInv'
  <1>1. job[j] = NoJob /\ PlaceOf(j) = "idle" /\ CoreOf(j) = "none"
        /\ \A k \in Jobs : k < j => PlaceOf(k) # "idle"
    BY FreshIsFirst DEF StartAction
  <1>2. Moved(j, "claim", "none", TokenOf(j), BindingOf(j))
    BY ToMoves DEF StartAction, JobPlaces
  <1>3. UNCHANGED <<latest, transition, shown, runtime, binding, tunRunning, tunUp, isRunning,
        listening, missed, lock>>
    BY DEF StartAction, intentVars, controlVars, coreVars
  <1>4. ~latest.running
    BY DEF StartAction
  <1> USE <1>1, <1>2, <1>3, <1>4, JobIsNotNone, TokenFacts DEF RunsInv, Moved, Taken, Given, Locks
  <1>5. RunTypes' /\ LocksFit' /\ CallsFit' /\ TokensFit' /\ TransitionFits'
    BY DEF RunTypes, LocksFit, CallsFit, TokensFit, TransitionFits
  <1>6. ShownFits' /\ BindingFits' /\ TunFits' /\ LossFits' /\ LossRemembers'
    BY RunsAssumption DEF ShownFits, Derived, BindingFits, TunFits, LossFits, Loses, LossRemembers
  <1>7. UnwantedStops' /\ WantedStarts' /\ StopsFirst' /\ DeadRunEnds' /\ DeadStartHears'
    BY DEF UnwantedStops, IsCurrent, WantedStarts, StopsFirst, DeadRunEnds, Loses, DeadStartHears
  <1>8. FlagFits' /\ FlagSettles' /\ CoreCloses'
    BY DEF FlagFits, FlagSettles, CoreCloses
  <1>9. FlagRaised' BY DEF FlagRaised, TokensFit
  <1> QED BY ONLY <1>5, <1>6, <1>7, <1>8, <1>9 DEF RunsInv

(* The start mints the newest token: whatever was wanted before, a run is  *)
(* now, and this start is on its way to it.                                *)
LEMMA ClaimKeepsRuns ==
    ASSUME RunsInv, NEW j \in Jobs, NEW configured \in BOOLEAN, Claim(j, configured)
    PROVE  RunsInv'
  <1>1. CASE configured
    <2>1. PlaceOf(j) = "claim" /\ CoreOf(j) = "none"
      BY <1>1 DEF Claim
    <2>2. latest' = StartToken(j)
      BY <1>1 DEF Claim, Request, StartToken
    <2>3. Moved(j, "setup", "none", StartToken(j), BindingOf(j))
      BY <1>1, <2>1, <2>2, TokenMoves, TokenFacts DEF Claim, JobPlaces
    <2>4. shown' = Derived(transition, runtime, TRUE)
      BY <1>1 DEF Claim, Request, Publish
    <2>5. UNCHANGED <<transition, runtime, binding, tunRunning, tunUp, isRunning, listening,
          lock>>
      BY <1>1 DEF Claim, intentVars, controlVars, coreVars
    <2>6. missed' \in BOOLEAN /\ (~missed' => ~missed /\ \A k \in Jobs : PlaceOf(k) #
          "flutterStopped")
      BY <1>1 DEF Claim, Miss, ClaimedEarly
    <2> USE <1>1, <2>1, <2>2, <2>3, <2>4, <2>5, <2>6, JobIsNotNone, TokenFacts DEF RunsInv, Moved,
            Taken, Given, Locks
    <2>7. RunTypes' /\ LocksFit' /\ CallsFit' /\ TokensFit' /\ TransitionFits'
      BY DEF RunTypes, LocksFit, CallsFit, TokensFit, TransitionFits
    <2>8. ShownFits' /\ BindingFits' /\ TunFits' /\ LossFits' /\ LossRemembers'
      BY RunsAssumption DEF ShownFits, Derived, BindingFits, TunFits, LossFits, Loses,
         LossRemembers
    <2>9. UnwantedStops' /\ WantedStarts' /\ StopsFirst' /\ DeadRunEnds' /\ DeadStartHears'
      BY DEF UnwantedStops, IsCurrent, WantedStarts, StopsFirst, DeadRunEnds, Loses,
         DeadStartHears
    <2>10. FlagFits' /\ FlagSettles' /\ CoreCloses'
      BY DEF FlagFits, FlagSettles, CoreCloses
    <2>11. FlagRaised' BY DEF FlagRaised, TokensFit
    <2> QED BY ONLY <2>7, <2>8, <2>9, <2>10, <2>11 DEF RunsInv
  <1>2. CASE ~configured
    <2>1. PlaceOf(j) = "claim" /\ CoreOf(j) = "none"
      BY <1>2 DEF Claim
    <2>2. latest' = StartToken(j)
      BY <1>2 DEF Claim, Request, StartToken
    <2>3. Moved(j, "drop", "none", StartToken(j), BindingOf(j))
      BY <1>2, <2>1, <2>2, TokenMoves, TokenFacts DEF Claim, JobPlaces
    <2>4. shown' = Derived(transition, runtime, TRUE)
      BY <1>2 DEF Claim, Request, Publish
    <2>5. UNCHANGED <<transition, runtime, binding, tunRunning, tunUp, isRunning, listening,
          lock>>
      BY <1>2 DEF Claim, intentVars, controlVars, coreVars
    <2>6. missed' \in BOOLEAN /\ (~missed' => ~missed /\ \A k \in Jobs : PlaceOf(k) #
          "flutterStopped")
      BY <1>2 DEF Claim, Miss, ClaimedEarly
    <2> USE <1>2, <2>1, <2>2, <2>3, <2>4, <2>5, <2>6, JobIsNotNone, TokenFacts DEF RunsInv, Moved,
            Taken, Given, Locks
    <2>7. RunTypes' /\ LocksFit' /\ CallsFit' /\ TokensFit' /\ TransitionFits'
      BY DEF RunTypes, LocksFit, CallsFit, TokensFit, TransitionFits
    <2>8. ShownFits' /\ BindingFits' /\ TunFits' /\ LossFits' /\ LossRemembers'
      BY RunsAssumption DEF ShownFits, Derived, BindingFits, TunFits, LossFits, Loses,
         LossRemembers
    <2>9. UnwantedStops' /\ WantedStarts' /\ StopsFirst' /\ DeadRunEnds' /\ DeadStartHears'
      BY DEF UnwantedStops, IsCurrent, WantedStarts, StopsFirst, DeadRunEnds, Loses,
         DeadStartHears
    <2>10. FlagFits' /\ FlagSettles' /\ CoreCloses'
      BY DEF FlagFits, FlagSettles, CoreCloses
    <2>11. FlagRaised' BY DEF FlagRaised, TokensFit
    <2> QED BY ONLY <2>7, <2>8, <2>9, <2>10, <2>11 DEF RunsInv
  <1> QED BY <1>1, <1>2

(* The flag is raised, and the start that raised it will open the ports.   *)
LEMMA QuickSetupKeepsRuns ==
    ASSUME RunsInv, NEW j \in Jobs, QuickSetup(j)
    PROVE  RunsInv'
  <1>1. PlaceOf(j) = "setup" /\ CoreOf(j) = "none"
    BY DEF QuickSetup
  <1>2. Moved(j, "apply", "none", TokenOf(j), BindingOf(j))
    BY ToMoves DEF QuickSetup, JobPlaces
  <1>3. UNCHANGED <<latest, transition, shown, runtime, binding, tunRunning, tunUp, listening,
        missed, lock>>
    BY DEF QuickSetup, intentVars, controlVars, coreVars
  <1>4. isRunning' = TRUE
    BY DEF QuickSetup
  <1> USE <1>1, <1>2, <1>3, <1>4, JobIsNotNone, TokenFacts DEF RunsInv, Moved, Taken, Given, Locks
  <1>5. RunTypes' /\ LocksFit' /\ CallsFit' /\ TokensFit' /\ TransitionFits'
    BY DEF RunTypes, LocksFit, CallsFit, TokensFit, TransitionFits
  <1>6. ShownFits' /\ BindingFits' /\ TunFits' /\ LossFits' /\ UnwantedStops'
    BY RunsAssumption DEF ShownFits, Derived, BindingFits, TunFits, LossFits, Loses,
       UnwantedStops, IsCurrent
  <1>7. DeadStartHears' /\ FlagFits' /\ FlagSettles' /\ CoreCloses'
    BY DEF DeadStartHears, Loses, FlagFits, FlagSettles, CoreCloses
  <1>8. LossRemembers' /\ WantedStarts' /\ StopsFirst' /\ DeadRunEnds' /\ FlagRaised'
    BY DEF LossRemembers, Loses, TokensFit, WantedStarts, StopsFirst, DeadRunEnds, FlagRaised
  <1> QED BY ONLY <1>5, <1>6, <1>7, <1>8 DEF RunsInv

(* The ports are opened, unless the config could not be written; a start   *)
(* that failed gives its intent up.                                        *)
LEMMA QuickApplyKeepsRuns ==
    ASSUME RunsInv, NEW j \in Jobs, NEW outcome \in {"applied", "rejected", "failed"},
           QuickApply(j, outcome)
    PROVE  RunsInv'
  <1>1. CASE outcome = "applied" /\ attached
    <2>1. PlaceOf(j) = "apply" /\ CoreOf(j) = "none"
      BY <1>1 DEF QuickApply
    <2>2. Moved(j, "permission", "none", TokenOf(j), BindingOf(j))
      BY <1>1, ToMoves DEF QuickApply, JobPlaces
    <2>3. UNCHANGED <<latest, transition, shown, runtime, binding, tunRunning, tunUp, isRunning,
          missed, lock>>
      BY <1>1 DEF QuickApply, intentVars, controlVars, coreVars
    <2>4. listening' \in BOOLEAN /\ (listening' <=> listening \/ isRunning)
      BY <1>1 DEF QuickApply
    <2> USE <1>1, <2>1, <2>2, <2>3, <2>4, JobIsNotNone, TokenFacts DEF RunsInv, Moved, Taken,
            Given, Locks
    <2>5. RunTypes' BY DEF RunTypes
    <2>6. LocksFit' /\ CallsFit' /\ TokensFit' /\ TransitionFits'
      BY DEF LocksFit, CallsFit, TokensFit, TransitionFits
    <2>7. ShownFits' /\ BindingFits' /\ TunFits' /\ LossFits' /\ UnwantedStops'
      BY RunsAssumption DEF ShownFits, Derived, BindingFits, TunFits, LossFits, Loses,
         UnwantedStops, IsCurrent
    <2>8. DeadStartHears' /\ FlagFits' /\ FlagSettles' /\ CoreCloses'
      BY DEF DeadStartHears, Loses, FlagFits, FlagSettles, CoreCloses
    <2>9. LossRemembers' /\ WantedStarts' /\ StopsFirst' /\ DeadRunEnds' /\ FlagRaised'
      BY DEF LossRemembers, Loses, TokensFit, WantedStarts, StopsFirst, DeadRunEnds, FlagRaised
    <2> QED BY ONLY <2>5, <2>6, <2>7, <2>8, <2>9 DEF RunsInv
  <1>2. CASE outcome = "applied" /\ ~attached
    <2>1. PlaceOf(j) = "apply" /\ CoreOf(j) = "none"
      BY <1>2 DEF QuickApply
    <2>2. Moved(j, "start", "none", TokenOf(j), BindingOf(j))
      BY <1>2, ToMoves DEF QuickApply, JobPlaces
    <2>3. UNCHANGED <<latest, transition, shown, runtime, binding, tunRunning, tunUp, isRunning,
          missed, lock>>
      BY <1>2 DEF QuickApply, intentVars, controlVars, coreVars
    <2>4. listening' \in BOOLEAN /\ (listening' <=> listening \/ isRunning)
      BY <1>2 DEF QuickApply
    <2> USE <1>2, <2>1, <2>2, <2>3, <2>4, JobIsNotNone, TokenFacts DEF RunsInv, Moved, Taken,
            Given, Locks
    <2>5. RunTypes' BY DEF RunTypes
    <2>6. LocksFit' /\ CallsFit' /\ TokensFit' /\ TransitionFits'
      BY DEF LocksFit, CallsFit, TokensFit, TransitionFits
    <2>7. ShownFits' /\ BindingFits' /\ TunFits' /\ LossFits' /\ UnwantedStops'
      BY RunsAssumption DEF ShownFits, Derived, BindingFits, TunFits, LossFits, Loses,
         UnwantedStops, IsCurrent
    <2>8. DeadStartHears' /\ FlagFits' /\ FlagSettles' /\ CoreCloses'
      BY DEF DeadStartHears, Loses, FlagFits, FlagSettles, CoreCloses
    <2>9. LossRemembers' /\ WantedStarts' /\ StopsFirst' /\ DeadRunEnds' /\ FlagRaised'
      BY DEF LossRemembers, Loses, TokensFit, WantedStarts, StopsFirst, DeadRunEnds, FlagRaised
    <2> QED BY ONLY <2>5, <2>6, <2>7, <2>8, <2>9 DEF RunsInv
  <1>3. CASE outcome = "rejected"
    <2>1. PlaceOf(j) = "apply" /\ CoreOf(j) = "none"
      BY <1>3 DEF QuickApply
    <2>2. Moved(j, "drop", "none", TokenOf(j), BindingOf(j))
      BY <1>3, ToMoves DEF QuickApply, JobPlaces
    <2>3. UNCHANGED <<latest, transition, shown, runtime, binding, tunRunning, tunUp, isRunning,
          missed, lock>>
      BY <1>3 DEF QuickApply, intentVars, controlVars, coreVars
    <2>4. listening' \in BOOLEAN /\ (listening' <=> listening \/ isRunning)
      BY <1>3 DEF QuickApply
    <2> USE <1>3, <2>1, <2>2, <2>3, <2>4, JobIsNotNone, TokenFacts DEF RunsInv, Moved, Taken,
            Given, Locks
    <2>5. RunTypes' /\ LocksFit' /\ CallsFit' /\ TokensFit' /\ TransitionFits'
      BY DEF RunTypes, LocksFit, CallsFit, TokensFit, TransitionFits
    <2>6. ShownFits' /\ BindingFits' /\ TunFits' /\ LossFits' /\ UnwantedStops'
      BY RunsAssumption DEF ShownFits, Derived, BindingFits, TunFits, LossFits, Loses,
         UnwantedStops, IsCurrent
    <2>7. DeadStartHears' /\ FlagFits' /\ FlagSettles' /\ CoreCloses'
      BY DEF DeadStartHears, Loses, FlagFits, FlagSettles, CoreCloses
    <2>8. LossRemembers' /\ WantedStarts' /\ StopsFirst' /\ DeadRunEnds' /\ FlagRaised'
      BY DEF LossRemembers, Loses, TokensFit, WantedStarts, StopsFirst, DeadRunEnds, FlagRaised
    <2> QED BY ONLY <2>5, <2>6, <2>7, <2>8 DEF RunsInv
  <1>4. CASE outcome = "failed"
    <2>1. PlaceOf(j) = "apply" /\ CoreOf(j) = "none"
      BY <1>4 DEF QuickApply
    <2>2. Moved(j, "drop", "none", TokenOf(j), BindingOf(j))
      BY <1>4, ToMoves DEF QuickApply, JobPlaces
    <2>3. UNCHANGED <<latest, transition, shown, runtime, binding, tunRunning, tunUp, isRunning,
          missed, lock>>
      BY <1>4 DEF QuickApply, intentVars, controlVars, coreVars
    <2>4. listening' = listening
      BY <1>4 DEF QuickApply, RunsInv, RunTypes
    <2> USE <1>4, <2>1, <2>2, <2>3, <2>4, JobIsNotNone, TokenFacts DEF RunsInv, Moved, Taken,
            Given, Locks
    <2>5. RunTypes' /\ LocksFit' /\ CallsFit' /\ TokensFit' /\ TransitionFits'
      BY DEF RunTypes, LocksFit, CallsFit, TokensFit, TransitionFits
    <2>6. ShownFits' /\ BindingFits' /\ TunFits' /\ LossFits' /\ UnwantedStops'
      BY RunsAssumption DEF ShownFits, Derived, BindingFits, TunFits, LossFits, Loses,
         UnwantedStops, IsCurrent
    <2>7. DeadStartHears' /\ FlagFits' /\ CoreCloses'
      BY DEF DeadStartHears, Loses, FlagFits, CoreCloses
    <2>8. LossRemembers' /\ WantedStarts' /\ StopsFirst' /\ DeadRunEnds' /\ FlagRaised'
      BY DEF LossRemembers, Loses, TokensFit, WantedStarts, StopsFirst, DeadRunEnds, FlagRaised
    <2>9. FlagSettles' BY DEF FlagSettles, TokensFit, IsCurrent, LocksFit
    <2> QED BY ONLY <2>5, <2>6, <2>7, <2>8, <2>9 DEF RunsInv
  <1> QED BY <1>1, <1>2, <1>3, <1>4

(* A command of Flutter comes and has the core opened.                     *)
LEMMA FlutterStartKeepsRuns ==
    ASSUME RunsInv, NEW j \in Jobs, FlutterStart(j)
    PROVE  RunsInv'
  <1>1. job[j] = NoJob /\ PlaceOf(j) = "idle" /\ CoreOf(j) = "none"
        /\ \A k \in Jobs : k < j => PlaceOf(k) # "idle"
    BY FreshIsFirst DEF FlutterStart
  <1>2. Moved(j, "flutterStart", "start", TokenOf(j), BindingOf(j))
    BY SetMoves DEF FlutterStart, JobPlaces, Cores
  <1>3. lock["flutter"] = None /\ Taken(j, "flutter")
    BY TakeTakes DEF FlutterStart, Locks
  <1>4. UNCHANGED <<latest, transition, shown, runtime, binding, tunRunning, tunUp, isRunning,
        listening, missed>>
    BY DEF FlutterStart, intentVars, controlVars, coreVars
  <1> USE <1>1, <1>2, <1>3, <1>4, JobIsNotNone, TokenFacts DEF RunsInv, Moved, Taken, Given, Locks
  <1>5. RunTypes' /\ LocksFit' /\ CallsFit' /\ TokensFit' /\ TransitionFits'
    BY DEF RunTypes, LocksFit, CallsFit, TokensFit, TransitionFits
  <1>6. ShownFits' /\ BindingFits' /\ TunFits'
    BY RunsAssumption DEF ShownFits, Derived, BindingFits, TunFits
  <1>7. LossFits' /\ UnwantedStops'
    BY DEF LossFits, Loses, UnwantedStops, IsCurrent
  <1>8. DeadStartHears' /\ FlagFits' /\ CoreCloses'
    BY DEF DeadStartHears, Loses, FlagFits, CoreCloses
  <1>9. LossRemembers' /\ WantedStarts' /\ StopsFirst' /\ DeadRunEnds' /\ FlagRaised'
    BY DEF LossRemembers, Loses, TokensFit, WantedStarts, StopsFirst, DeadRunEnds, FlagRaised
  <1>10. FlagSettles' BY DEF FlagSettles, TokensFit
  <1> QED BY ONLY <1>5, <1>6, <1>7, <1>8, <1>9, <1>10 DEF RunsInv

(* It asks for a run, or finds the one it wants.                           *)
LEMMA RequestStartKeepsRuns ==
    ASSUME RunsInv, NEW j \in Jobs, RequestStart(j)
    PROVE  RunsInv'
  <1>1. CASE shown = "STARTED" /\ runtime
    <2>1. PlaceOf(j) = "flutterStart" /\ CoreOf(j) = "none"
      BY <1>1 DEF RequestStart
    <2>2. Moved(j, "ended", "none", TokenOf(j), BindingOf(j))
      BY <1>1, ToMoves DEF RequestStart, JobPlaces
    <2>3. Given({"flutter"})
      BY <1>1, GiveGives DEF RequestStart
    <2>4. UNCHANGED <<latest, transition, shown, runtime, binding, tunRunning, tunUp, isRunning,
          listening, missed>>
      BY <1>1 DEF RequestStart, intentVars, controlVars, coreVars
    <2> USE <1>1, <2>1, <2>2, <2>3, <2>4, JobIsNotNone, TokenFacts DEF RunsInv, Moved, Taken,
            Given, Locks
    <2>5. RunTypes' /\ LocksFit' /\ CallsFit' /\ TokensFit' /\ TransitionFits'
      BY DEF RunTypes, LocksFit, CallsFit, TokensFit, TransitionFits
    <2>6. ShownFits' /\ BindingFits' /\ TunFits' /\ LossFits' /\ UnwantedStops'
      BY RunsAssumption DEF ShownFits, Derived, BindingFits, TunFits, LossFits, Loses,
         UnwantedStops, IsCurrent
    <2>7. WantedStarts' /\ DeadStartHears' /\ FlagFits' /\ CoreCloses'
      BY DEF WantedStarts, DeadStartHears, Loses, FlagFits, CoreCloses
    <2>8. LossRemembers' /\ StopsFirst' /\ DeadRunEnds' /\ FlagRaised' /\ FlagSettles'
      BY DEF LossRemembers, Loses, TokensFit, StopsFirst, DeadRunEnds, FlagRaised, FlagSettles
    <2> QED BY ONLY <2>5, <2>6, <2>7, <2>8 DEF RunsInv
  <1>2. CASE ~(shown = "STARTED" /\ runtime)
    <2>1. PlaceOf(j) = "flutterStart" /\ CoreOf(j) = "none"
      BY <1>2 DEF RequestStart
    <2>2. latest' = StartToken(j)
      BY <1>2 DEF RequestStart, Request, StartToken
    <2>3. Moved(j, "permission", "none", StartToken(j), BindingOf(j))
      BY <1>2, <2>1, <2>2, TokenMoves, TokenFacts DEF RequestStart, JobPlaces
    <2>4. shown' = Derived(transition, runtime, TRUE)
      BY <1>2 DEF RequestStart, Request, Publish
    <2>5. Given({"flutter"})
      BY <1>2, GiveGives DEF RequestStart
    <2>6. UNCHANGED <<transition, runtime, binding, tunRunning, tunUp, isRunning, listening,
          missed>>
      BY <1>2 DEF RequestStart, intentVars, controlVars, coreVars
    <2> USE <1>2, <2>1, <2>2, <2>3, <2>4, <2>5, <2>6, JobIsNotNone, TokenFacts DEF RunsInv, Moved,
            Taken, Given, Locks
    <2>7. RunTypes' /\ LocksFit' /\ CallsFit' /\ TokensFit' /\ TransitionFits'
      BY DEF RunTypes, LocksFit, CallsFit, TokensFit, TransitionFits
    <2>8. ShownFits' /\ BindingFits' /\ TunFits' /\ LossFits' /\ LossRemembers'
      BY RunsAssumption DEF ShownFits, Derived, BindingFits, TunFits, LossFits, Loses,
         LossRemembers
    <2>9. UnwantedStops' /\ WantedStarts' /\ StopsFirst' /\ DeadRunEnds' /\ DeadStartHears'
      BY DEF UnwantedStops, IsCurrent, WantedStarts, StopsFirst, DeadRunEnds, Loses,
         DeadStartHears
    <2>10. CoreCloses' BY DEF CoreCloses
    <2>11. FlagFits' BY DEF FlagFits, LocksFit
    <2>12. FlagRaised' BY DEF FlagRaised, TokensFit
    <2>13. FlagSettles' BY DEF FlagSettles, FlagFits
    <2> QED BY ONLY <2>7, <2>8, <2>9, <2>10, <2>11, <2>12, <2>13 DEF RunsInv
  <1> QED BY <1>1, <1>2

(* A start that may not go on gives up.                                    *)
LEMMA PermissionKeepsRuns ==
    ASSUME RunsInv, NEW j \in Jobs, NEW permitted \in BOOLEAN, Permission(j, permitted)
    PROVE  RunsInv'
  <1>1. CASE permitted
    <2>1. PlaceOf(j) = "permission" /\ CoreOf(j) = "none"
      BY <1>1 DEF Permission
    <2>2. Moved(j, "start", "none", TokenOf(j), BindingOf(j))
      BY <1>1, ToMoves DEF Permission, JobPlaces
    <2>3. UNCHANGED <<latest, transition, shown, runtime, binding, tunRunning, tunUp, isRunning,
          listening, missed, lock>>
      BY <1>1 DEF Permission, intentVars, controlVars, coreVars
    <2> USE <1>1, <2>1, <2>2, <2>3, JobIsNotNone, TokenFacts DEF RunsInv, Moved, Taken, Given,
            Locks
    <2>4. RunTypes' /\ LocksFit' /\ CallsFit' /\ TokensFit' /\ TransitionFits'
      BY DEF RunTypes, LocksFit, CallsFit, TokensFit, TransitionFits
    <2>5. ShownFits' /\ BindingFits' /\ TunFits' /\ LossFits' /\ UnwantedStops'
      BY RunsAssumption DEF ShownFits, Derived, BindingFits, TunFits, LossFits, Loses,
         UnwantedStops, IsCurrent
    <2>6. DeadStartHears' /\ FlagFits' /\ CoreCloses'
      BY DEF DeadStartHears, Loses, FlagFits, CoreCloses
    <2>7. LossRemembers' /\ WantedStarts' /\ StopsFirst' /\ DeadRunEnds' /\ FlagRaised'
      BY DEF LossRemembers, Loses, TokensFit, WantedStarts, StopsFirst, DeadRunEnds, FlagRaised
    <2>8. FlagSettles' BY DEF FlagSettles, TokensFit
    <2> QED BY ONLY <2>4, <2>5, <2>6, <2>7, <2>8 DEF RunsInv
  <1>2. CASE ~permitted
    <2>1. PlaceOf(j) = "permission" /\ CoreOf(j) = "none"
      BY <1>2 DEF Permission
    <2>2. Moved(j, "drop", "none", TokenOf(j), BindingOf(j))
      BY <1>2, ToMoves DEF Permission, JobPlaces
    <2>3. UNCHANGED <<latest, transition, shown, runtime, binding, tunRunning, tunUp, isRunning,
          listening, missed, lock>>
      BY <1>2 DEF Permission, intentVars, controlVars, coreVars
    <2> USE <1>2, <2>1, <2>2, <2>3, JobIsNotNone, TokenFacts DEF RunsInv, Moved, Taken, Given,
            Locks
    <2>4. RunTypes' /\ LocksFit' /\ CallsFit' /\ TokensFit' /\ TransitionFits'
      BY DEF RunTypes, LocksFit, CallsFit, TokensFit, TransitionFits
    <2>5. ShownFits' /\ BindingFits' /\ TunFits' /\ LossFits' /\ UnwantedStops'
      BY RunsAssumption DEF ShownFits, Derived, BindingFits, TunFits, LossFits, Loses,
         UnwantedStops, IsCurrent
    <2>6. DeadStartHears' /\ FlagFits' /\ CoreCloses'
      BY DEF DeadStartHears, Loses, FlagFits, CoreCloses
    <2>7. LossRemembers' /\ WantedStarts' /\ StopsFirst' /\ DeadRunEnds' /\ FlagRaised'
      BY DEF LossRemembers, Loses, TokensFit, WantedStarts, StopsFirst, DeadRunEnds, FlagRaised
    <2>8. FlagSettles' BY DEF FlagSettles, TokensFit
    <2> QED BY ONLY <2>4, <2>5, <2>6, <2>7, <2>8 DEF RunsInv
  <1> QED BY <1>1, <1>2

(* A start that is still the newest prepares; another one gives up.        *)
LEMMA BeginStartKeepsRuns ==
    ASSUME RunsInv, NEW j \in Jobs, BeginStart(j)
    PROVE  RunsInv'
  <1>1. CASE IsCurrent(j)
    <2>1. PlaceOf(j) = "start" /\ CoreOf(j) = "none"
      BY <1>1 DEF BeginStart
    <2>2. Moved(j, "prepare", "none", TokenOf(j), BindingOf(j))
      BY <1>1, ToMoves DEF BeginStart, JobPlaces
    <2>3. lock["preparation"] = None /\ Taken(j, "preparation")
      BY <1>1, TakeTakes DEF BeginStart, Locks
    <2>4. UNCHANGED <<latest, transition, shown, runtime, binding, tunRunning, tunUp, isRunning,
          listening, missed>>
      BY <1>1 DEF BeginStart, intentVars, controlVars, coreVars
    <2> USE <1>1, <2>1, <2>2, <2>3, <2>4, JobIsNotNone, TokenFacts DEF RunsInv, Moved, Taken,
            Given, Locks
    <2>5. RunTypes' /\ LocksFit' /\ CallsFit' /\ TokensFit' /\ TransitionFits'
      BY DEF RunTypes, LocksFit, CallsFit, TokensFit, TransitionFits
    <2>6. ShownFits' /\ BindingFits' /\ TunFits'
      BY RunsAssumption DEF ShownFits, Derived, BindingFits, TunFits
    <2>7. LossFits' /\ UnwantedStops'
      BY DEF LossFits, Loses, UnwantedStops, IsCurrent
    <2>8. DeadStartHears' /\ FlagFits' /\ CoreCloses'
      BY DEF DeadStartHears, Loses, FlagFits, CoreCloses
    <2>9. LossRemembers' /\ WantedStarts' /\ StopsFirst' /\ DeadRunEnds' /\ FlagRaised'
      BY DEF LossRemembers, Loses, TokensFit, WantedStarts, StopsFirst, DeadRunEnds, FlagRaised
    <2>10. FlagSettles' BY DEF FlagSettles, TokensFit
    <2> QED BY ONLY <2>5, <2>6, <2>7, <2>8, <2>9, <2>10 DEF RunsInv
  <1>2. CASE ~IsCurrent(j)
    <2>1. PlaceOf(j) = "start" /\ CoreOf(j) = "none"
      BY <1>2 DEF BeginStart
    <2>2. Moved(j, "drop", "none", TokenOf(j), BindingOf(j))
      BY <1>2, ToMoves DEF BeginStart, JobPlaces
    <2>3. lock["preparation"] = None /\ lock' = lock
      BY <1>2 DEF BeginStart
    <2>4. UNCHANGED <<latest, transition, shown, runtime, binding, tunRunning, tunUp, isRunning,
          listening, missed>>
      BY <1>2 DEF BeginStart, intentVars, controlVars, coreVars
    <2> USE <1>2, <2>1, <2>2, <2>3, <2>4, JobIsNotNone, TokenFacts DEF RunsInv, Moved, Taken,
            Given, Locks
    <2>5. RunTypes' BY DEF RunTypes
    <2>6. LocksFit' /\ CallsFit' /\ TokensFit' /\ TransitionFits'
      BY DEF LocksFit, CallsFit, TokensFit, TransitionFits
    <2>7. ShownFits' /\ BindingFits' /\ TunFits' /\ LossFits' /\ UnwantedStops'
      BY RunsAssumption DEF ShownFits, Derived, BindingFits, TunFits, LossFits, Loses,
         UnwantedStops, IsCurrent
    <2>8. DeadStartHears' /\ FlagFits' /\ CoreCloses'
      BY DEF DeadStartHears, Loses, FlagFits, CoreCloses
    <2>9. LossRemembers' /\ WantedStarts' /\ StopsFirst' /\ DeadRunEnds' /\ FlagRaised'
      BY DEF LossRemembers, Loses, TokensFit, WantedStarts, StopsFirst, DeadRunEnds, FlagRaised
    <2>10. FlagSettles' BY DEF FlagSettles, TokensFit
    <2> QED BY ONLY <2>5, <2>6, <2>7, <2>8, <2>9, <2>10 DEF RunsInv
  <1> QED BY <1>1, <1>2

(* The prompt is shown.                                                    *)
LEMMA PrepareVpnKeepsRuns ==
    ASSUME RunsInv, NEW j \in Jobs, PrepareVpn(j)
    PROVE  RunsInv'
  <1>1. PlaceOf(j) = "prepare" /\ CoreOf(j) = "none"
    BY DEF PrepareVpn
  <1>2. Moved(j, "prompt", "none", TokenOf(j), BindingOf(j))
    BY ToMoves DEF PrepareVpn, JobPlaces
  <1>3. UNCHANGED <<latest, transition, shown, runtime, binding, tunRunning, tunUp, isRunning,
        listening, missed, lock>>
    BY DEF PrepareVpn, intentVars, controlVars, coreVars
  <1> USE <1>1, <1>2, <1>3, JobIsNotNone, TokenFacts DEF RunsInv, Moved, Taken, Given, Locks
  <1>4. RunTypes' /\ LocksFit' /\ CallsFit' /\ TokensFit' /\ TransitionFits'
    BY DEF RunTypes, LocksFit, CallsFit, TokensFit, TransitionFits
  <1>5. ShownFits' /\ BindingFits' /\ TunFits' /\ LossFits' /\ UnwantedStops'
    BY RunsAssumption DEF ShownFits, Derived, BindingFits, TunFits, LossFits, Loses,
       UnwantedStops, IsCurrent
  <1>6. DeadStartHears' /\ FlagFits' /\ CoreCloses'
    BY DEF DeadStartHears, Loses, FlagFits, CoreCloses
  <1>7. LossRemembers' /\ WantedStarts' /\ StopsFirst' /\ DeadRunEnds' /\ FlagRaised'
    BY DEF LossRemembers, Loses, TokensFit, WantedStarts, StopsFirst, DeadRunEnds, FlagRaised
  <1>8. FlagSettles' BY DEF FlagSettles, TokensFit
  <1> QED BY ONLY <1>4, <1>5, <1>6, <1>7, <1>8 DEF RunsInv

(* The prompt is answered, or none was needed.                             *)
LEMMA PreparedKeepsRuns ==
    ASSUME RunsInv, NEW j \in Jobs, NEW granted \in BOOLEAN, Prepared(j, granted)
    PROVE  RunsInv'
  <1>1. CASE granted
    <2>1. PlaceOf(j) \in {"prepare", "prompt"} /\ CoreOf(j) = "none"
      BY <1>1 DEF Prepared
    <2>2. Moved(j, "enter", "none", TokenOf(j), BindingOf(j))
      BY <1>1, ToMoves DEF Prepared, JobPlaces
    <2>3. UNCHANGED <<latest, transition, shown, runtime, binding, tunRunning, tunUp, isRunning,
          listening, missed, lock>>
      BY <1>1 DEF Prepared, intentVars, controlVars, coreVars
    <2> USE <1>1, <2>1, <2>2, <2>3, JobIsNotNone, TokenFacts DEF RunsInv, Moved, Taken, Given,
            Locks
    <2>4. RunTypes' /\ LocksFit' /\ CallsFit' /\ TokensFit' /\ TransitionFits'
      BY DEF RunTypes, LocksFit, CallsFit, TokensFit, TransitionFits
    <2>5. ShownFits' /\ BindingFits' /\ TunFits' /\ LossFits' /\ UnwantedStops'
      BY RunsAssumption DEF ShownFits, Derived, BindingFits, TunFits, LossFits, Loses,
         UnwantedStops, IsCurrent
    <2>6. DeadStartHears' /\ FlagFits' /\ CoreCloses'
      BY DEF DeadStartHears, Loses, FlagFits, CoreCloses
    <2>7. LossRemembers' /\ WantedStarts' /\ StopsFirst' /\ DeadRunEnds' /\ FlagRaised'
      BY DEF LossRemembers, Loses, TokensFit, WantedStarts, StopsFirst, DeadRunEnds, FlagRaised
    <2>8. FlagSettles' BY DEF FlagSettles, TokensFit
    <2> QED BY ONLY <2>4, <2>5, <2>6, <2>7, <2>8 DEF RunsInv
  <1>2. CASE ~granted
    <2>1. PlaceOf(j) \in {"prepare", "prompt"} /\ CoreOf(j) = "none"
      BY <1>2 DEF Prepared
    <2>2. Moved(j, "drop", "none", TokenOf(j), BindingOf(j))
      BY <1>2, ToMoves DEF Prepared, JobPlaces
    <2>3. Given({"preparation"})
      BY <1>2, GiveGives DEF Prepared
    <2>4. UNCHANGED <<latest, transition, shown, runtime, binding, tunRunning, tunUp, isRunning,
          listening, missed>>
      BY <1>2 DEF Prepared, intentVars, controlVars, coreVars
    <2> USE <1>2, <2>1, <2>2, <2>3, <2>4, JobIsNotNone, TokenFacts DEF RunsInv, Moved, Taken,
            Given, Locks
    <2>5. RunTypes' /\ LocksFit' /\ CallsFit' /\ ShownFits' /\ TunFits'
      BY RunsAssumption DEF RunTypes, LocksFit, CallsFit, ShownFits, Derived, TunFits
    <2>6. LossFits' /\ UnwantedStops' /\ DeadStartHears' /\ FlagFits' /\ CoreCloses'
      BY DEF LossFits, Loses, UnwantedStops, IsCurrent, DeadStartHears, FlagFits, CoreCloses
    <2>7. TokensFit' /\ TransitionFits' /\ BindingFits'
      BY DEF TokensFit, LocksFit, TransitionFits, BindingFits
    <2>8. LossRemembers' /\ WantedStarts' /\ DeadRunEnds' /\ FlagRaised' /\ FlagSettles'
      BY DEF LossRemembers, Loses, TokensFit, WantedStarts, DeadRunEnds, FlagRaised, FlagSettles
    <2>9. StopsFirst' BY DEF StopsFirst, LocksFit, TokensFit
    <2> QED BY ONLY <2>5, <2>6, <2>7, <2>8, <2>9 DEF RunsInv
  <1> QED BY <1>1, <1>2

(* The prompt was taken away by a stop.                                    *)
LEMMA PromptAbandonedKeepsRuns ==
    ASSUME RunsInv, NEW j \in Jobs, PromptAbandoned(j)
    PROVE  RunsInv'
  <1>1. PlaceOf(j) = "prompt" /\ CoreOf(j) = "none"
    BY DEF PromptAbandoned
  <1>2. Moved(j, "drop", "none", TokenOf(j), BindingOf(j))
    BY ToMoves DEF PromptAbandoned, JobPlaces
  <1>3. Given({"preparation"})
    BY GiveGives DEF PromptAbandoned
  <1>4. UNCHANGED <<latest, transition, shown, runtime, binding, tunRunning, tunUp, isRunning,
        listening, missed>>
    BY DEF PromptAbandoned, intentVars, controlVars, coreVars
  <1> USE <1>1, <1>2, <1>3, <1>4, JobIsNotNone, TokenFacts DEF RunsInv, Moved, Taken, Given, Locks
  <1>5. RunTypes' /\ LocksFit' /\ CallsFit' /\ ShownFits' /\ TunFits'
    BY RunsAssumption DEF RunTypes, LocksFit, CallsFit, ShownFits, Derived, TunFits
  <1>6. LossFits' /\ UnwantedStops' /\ DeadStartHears'
    BY DEF LossFits, Loses, UnwantedStops, IsCurrent, DeadStartHears
  <1>7. FlagFits' BY DEF FlagFits
  <1>8. CoreCloses' BY DEF CoreCloses
  <1>9. TokensFit' /\ TransitionFits' /\ BindingFits'
    BY DEF TokensFit, LocksFit, TransitionFits, BindingFits
  <1>10. LossRemembers' /\ WantedStarts' /\ DeadRunEnds' /\ FlagRaised' /\ FlagSettles'
    BY DEF LossRemembers, Loses, TokensFit, WantedStarts, DeadRunEnds, FlagRaised, FlagSettles
  <1>11. StopsFirst' BY DEF StopsFirst, LocksFit, TokensFit
  <1> QED BY ONLY <1>5, <1>6, <1>7, <1>8, <1>9, <1>10, <1>11 DEF RunsInv

(* The start is let in, or finds a run that is there: what it wanted,      *)
(* unless its TUN is gone, which missed marks.                             *)
LEMMA EnterStartKeepsRuns ==
    ASSUME RunsInv, NEW j \in Jobs, EnterStart(j)
    PROVE  RunsInv'
  <1>1. CASE IsCurrent(j) /\ ~runtime
    <2>1. PlaceOf(j) = "enter" /\ CoreOf(j) = "none"
      BY <1>1 DEF EnterStart
    <2>2. Moved(j, "bind", "none", TokenOf(j), BindingOf(j))
      BY <1>1, ToMoves DEF EnterStart, JobPlaces
    <2>3. lock["transition"] = None /\ Taken(j, "transition")
      BY <1>1, TakeTakes DEF EnterStart, Locks
    <2>4. UNCHANGED <<latest, runtime, binding, tunRunning, tunUp, isRunning, listening>>
      BY <1>1 DEF EnterStart, intentVars, controlVars, coreVars
    <2>5. transition' = "STARTING" /\ shown' = "STARTING"
      BY <1>1, RunsAssumption DEF EnterStart, Publish, Derived
    <2>6. missed' \in BOOLEAN /\ (~missed' => ~missed)
      BY <1>1 DEF EnterStart, Miss
    <2> USE <1>1, <2>1, <2>2, <2>3, <2>4, <2>5, <2>6, JobIsNotNone, TokenFacts DEF RunsInv, Moved,
            Taken, Given, Locks
    <2>7. RunTypes' /\ LocksFit' /\ CallsFit' /\ TokensFit' /\ ShownFits'
      BY RunsAssumption DEF RunTypes, LocksFit, CallsFit, TokensFit, ShownFits, Derived
    <2>8. BindingFits' /\ TunFits' /\ LossFits' /\ UnwantedStops' /\ DeadRunEnds'
      BY DEF BindingFits, TunFits, LossFits, Loses, UnwantedStops, IsCurrent, DeadRunEnds
    <2>9. DeadStartHears' /\ FlagFits' /\ CoreCloses'
      BY DEF DeadStartHears, Loses, FlagFits, CoreCloses
    <2>10. TransitionFits' /\ StopsFirst'
      BY DEF TransitionFits, LocksFit, StopsFirst
    <2>11. LossRemembers' /\ WantedStarts' /\ FlagRaised' /\ FlagSettles'
      BY DEF LossRemembers, Loses, TokensFit, WantedStarts, FlagRaised, FlagSettles
    <2> QED BY ONLY <2>7, <2>8, <2>9, <2>10, <2>11 DEF RunsInv
  <1>2. CASE IsCurrent(j) /\ runtime
    <2>1. PlaceOf(j) = "enter" /\ CoreOf(j) = "none"
      BY <1>2 DEF EnterStart
    <2>2. Moved(j, "ended", "none", TokenOf(j), BindingOf(j))
      BY <1>2, ToMoves DEF EnterStart, JobPlaces
    <2>3. Given({"preparation"})
      BY <1>2, GiveGives DEF EnterStart
    <2>4. UNCHANGED <<latest, transition, shown, runtime, binding, tunRunning, tunUp, isRunning,
          listening>>
      BY <1>2 DEF EnterStart, intentVars, controlVars, coreVars
    <2>5. missed' \in BOOLEAN /\ (~missed' => ~missed /\ tunUp)
      BY <1>2 DEF EnterStart, Miss, TakenForUp
    <2>6. lock["transition"] = None
      BY <1>2 DEF EnterStart
    <2> USE <1>2, <2>1, <2>2, <2>3, <2>4, <2>5, <2>6, JobIsNotNone, TokenFacts DEF RunsInv, Moved,
            Taken, Given, Locks
    <2>7. RunTypes' /\ LocksFit' /\ CallsFit' /\ TransitionFits' /\ ShownFits'
      BY RunsAssumption DEF RunTypes, LocksFit, CallsFit, TransitionFits, ShownFits, Derived
    <2>8. BindingFits' /\ TunFits' /\ LossFits' /\ UnwantedStops' /\ WantedStarts'
      BY DEF BindingFits, TunFits, LossFits, Loses, UnwantedStops, IsCurrent, WantedStarts
    <2>9. DeadRunEnds' /\ DeadStartHears' /\ FlagFits' /\ CoreCloses'
      BY DEF DeadRunEnds, Loses, DeadStartHears, FlagFits, CoreCloses
    <2>10. TokensFit' /\ StopsFirst'
      BY DEF TokensFit, LocksFit, StopsFirst
    <2>11. LossRemembers' BY DEF LossRemembers, Loses, LocksFit, TunFits, LossFits, TokensFit,
                             IsCurrent
    <2>12. FlagRaised' /\ FlagSettles'
      BY DEF FlagRaised, TokensFit, FlagSettles
    <2> QED BY ONLY <2>7, <2>8, <2>9, <2>10, <2>11, <2>12 DEF RunsInv
  <1>3. CASE ~IsCurrent(j)
    <2>1. PlaceOf(j) = "enter" /\ CoreOf(j) = "none"
      BY <1>3 DEF EnterStart
    <2>2. Moved(j, "drop", "none", TokenOf(j), BindingOf(j))
      BY <1>3, ToMoves DEF EnterStart, JobPlaces
    <2>3. Given({"preparation"})
      BY <1>3, GiveGives DEF EnterStart
    <2>4. UNCHANGED <<latest, transition, shown, runtime, binding, tunRunning, tunUp, isRunning,
          listening>>
      BY <1>3 DEF EnterStart, intentVars, controlVars, coreVars
    <2>5. missed' \in BOOLEAN /\ (~missed' => ~missed)
      BY <1>3 DEF EnterStart, Miss
    <2>6. lock["transition"] = None
      BY <1>3 DEF EnterStart
    <2> USE <1>3, <2>1, <2>2, <2>3, <2>4, <2>5, <2>6, JobIsNotNone, TokenFacts DEF RunsInv, Moved,
            Taken, Given, Locks
    <2>7. RunTypes' /\ LocksFit' /\ CallsFit' /\ TransitionFits' /\ ShownFits'
      BY RunsAssumption DEF RunTypes, LocksFit, CallsFit, TransitionFits, ShownFits, Derived
    <2>8. TunFits' /\ LossFits' /\ UnwantedStops'
      BY DEF TunFits, LossFits, Loses, UnwantedStops, IsCurrent
    <2>9. DeadStartHears' /\ FlagFits'
      BY DEF DeadStartHears, Loses, FlagFits
    <2>10. CoreCloses' BY DEF CoreCloses
    <2>11. TokensFit' /\ BindingFits' /\ StopsFirst'
      BY DEF TokensFit, LocksFit, BindingFits, StopsFirst
    <2>12. LossRemembers' /\ WantedStarts' /\ DeadRunEnds' /\ FlagRaised' /\ FlagSettles'
      BY DEF LossRemembers, Loses, TokensFit, WantedStarts, DeadRunEnds, FlagRaised, FlagSettles
    <2> QED BY ONLY <2>7, <2>8, <2>9, <2>10, <2>11, <2>12 DEF RunsInv
  <1> QED BY <1>1, <1>2, <1>3

(* No service is bound when a start binds its own.                         *)
LEMMA BindKeepsRuns ==
    ASSUME RunsInv, NEW j \in Jobs, NEW bound \in BOOLEAN, Bind(j, bound)
    PROVE  RunsInv'
  <1>1. CASE bound
    <2>1. PlaceOf(j) = "bind" /\ CoreOf(j) = "none"
      BY <1>1 DEF Bind
    <2>2. binding = None
      BY <1>1, <2>1, JobIsNotNone DEF RunsInv, BindingFits, TransitionFits, LocksFit
    <2>3. binding' = j
      BY <1>1, <2>2 DEF Bind
    <2>4. Moved(j, "establish", "none", TokenOf(j), BindingOf(j))
      BY <1>1, <2>3, JobIsNotNone, ToMoves DEF Bind, JobPlaces
    <2>5. lock["controller"] = None /\ Taken(j, "controller")
      BY <1>1, TakeTakes DEF Bind, Locks
    <2>6. UNCHANGED <<latest, transition, shown, runtime, tunRunning, tunUp, isRunning, listening,
          missed>>
      BY <1>1 DEF Bind, intentVars, controlVars, coreVars
    <2> USE <1>1, <2>1, <2>2, <2>3, <2>4, <2>5, <2>6, JobIsNotNone, TokenFacts DEF RunsInv, Moved,
            Taken, Given, Locks
    <2>7. RunTypes' /\ LocksFit' /\ CallsFit' /\ TokensFit' /\ TransitionFits'
      BY DEF RunTypes, LocksFit, CallsFit, TokensFit, TransitionFits
    <2>8. ShownFits' /\ TunFits' /\ LossFits'
      BY RunsAssumption DEF ShownFits, Derived, TunFits, LossFits, Loses
    <2>9. UnwantedStops' /\ DeadStartHears'
      BY DEF UnwantedStops, IsCurrent, DeadStartHears, Loses
    <2>10. FlagFits' /\ CoreCloses'
      BY DEF FlagFits, CoreCloses
    <2>11. BindingFits' /\ StopsFirst'
      BY DEF BindingFits, LocksFit, StopsFirst
    <2>12. LossRemembers' BY DEF LossRemembers, Loses, LossFits, LocksFit, BindingFits
    <2>13. WantedStarts' /\ DeadRunEnds' /\ FlagRaised' /\ FlagSettles'
      BY DEF WantedStarts, TokensFit, DeadRunEnds, Loses, FlagRaised, FlagSettles
    <2> QED BY ONLY <2>7, <2>8, <2>9, <2>10, <2>11, <2>12, <2>13 DEF RunsInv
  <1>2. CASE ~bound
    <2>1. PlaceOf(j) = "bind" /\ CoreOf(j) = "none"
      BY <1>2 DEF Bind
    <2>2. binding = None
      BY <1>2, <2>1, JobIsNotNone DEF RunsInv, BindingFits, TransitionFits, LocksFit
    <2>3. binding' = None
      BY <1>2, <2>2 DEF Bind
    <2>4. Moved(j, "release", "none", TokenOf(j), BindingOf(j))
      BY <1>2, <2>3, ToMoves DEF Bind, JobPlaces
    <2>5. lock["controller"] = None /\ Taken(j, "controller")
      BY <1>2, TakeTakes DEF Bind, Locks
    <2>6. UNCHANGED <<latest, transition, shown, runtime, tunRunning, tunUp, isRunning, listening,
          missed>>
      BY <1>2 DEF Bind, intentVars, controlVars, coreVars
    <2> USE <1>2, <2>1, <2>2, <2>3, <2>4, <2>5, <2>6, JobIsNotNone, TokenFacts DEF RunsInv, Moved,
            Taken, Given, Locks
    <2>7. RunTypes' /\ LocksFit' /\ CallsFit' /\ ShownFits' /\ BindingFits'
      BY RunsAssumption DEF RunTypes, LocksFit, CallsFit, ShownFits, Derived, BindingFits
    <2>8. LossFits' /\ LossRemembers' /\ UnwantedStops' /\ DeadStartHears' /\ FlagFits'
      BY DEF LossFits, Loses, LossRemembers, UnwantedStops, IsCurrent, DeadStartHears, FlagFits
    <2>9. FlagSettles' /\ CoreCloses'
      BY DEF FlagSettles, CoreCloses
    <2>10. TokensFit' /\ TransitionFits' /\ StopsFirst'
      BY DEF TokensFit, LocksFit, TransitionFits, StopsFirst
    <2>11. TunFits' BY DEF TunFits, LocksFit, TransitionFits
    <2>12. WantedStarts' /\ DeadRunEnds' /\ FlagRaised'
      BY DEF WantedStarts, TokensFit, DeadRunEnds, Loses, FlagRaised
    <2> QED BY ONLY <2>7, <2>8, <2>9, <2>10, <2>11, <2>12 DEF RunsInv
  <1> QED BY <1>1, <1>2

(* The interface comes up, or the start fails.                             *)
LEMMA EstablishKeepsRuns ==
    ASSUME RunsInv, NEW j \in Jobs, NEW established \in BOOLEAN, Establish(j, established)
    PROVE  RunsInv'
  <1>1. CASE established
    <2>1. PlaceOf(j) = "establish" /\ CoreOf(j) = "none"
      BY <1>1 DEF Establish
    <2>2. Moved(j, "adopt", "none", TokenOf(j), BindingOf(j))
      BY <1>1, ToMoves DEF Establish, JobPlaces
    <2>3. UNCHANGED <<latest, transition, shown, runtime, binding, tunRunning, isRunning,
          listening, missed, lock>>
      BY <1>1 DEF Establish, intentVars, controlVars, coreVars
    <2>4. tunUp' = TRUE
      BY <1>1 DEF Establish
    <2> USE <1>1, <2>1, <2>2, <2>3, <2>4, JobIsNotNone, TokenFacts DEF RunsInv, Moved, Taken,
            Given, Locks
    <2>5. RunTypes' /\ LocksFit' /\ CallsFit' /\ TokensFit' /\ TransitionFits'
      BY DEF RunTypes, LocksFit, CallsFit, TokensFit, TransitionFits
    <2>6. ShownFits' /\ BindingFits' /\ TunFits' /\ LossFits' /\ UnwantedStops'
      BY RunsAssumption DEF ShownFits, Derived, BindingFits, TunFits, LossFits, Loses,
         UnwantedStops, IsCurrent
    <2>7. FlagFits' /\ CoreCloses'
      BY DEF FlagFits, CoreCloses
    <2>8. LossRemembers' BY DEF LossRemembers, Loses, LossFits, TokensFit, LocksFit, TunFits
    <2>9. DeadStartHears' BY DEF DeadStartHears, Loses, LossFits, TokensFit, LocksFit, TunFits
    <2>10. WantedStarts' /\ DeadRunEnds' /\ FlagRaised' /\ FlagSettles'
      BY DEF WantedStarts, TokensFit, DeadRunEnds, Loses, FlagRaised, FlagSettles
    <2>11. StopsFirst' BY DEF StopsFirst, LocksFit
    <2> QED BY ONLY <2>5, <2>6, <2>7, <2>8, <2>9, <2>10, <2>11 DEF RunsInv
  <1>2. CASE ~established
    <2>1. PlaceOf(j) = "establish" /\ CoreOf(j) = "none"
      BY <1>2 DEF Establish
    <2>2. Moved(j, "stopService", "none", TokenOf(j), BindingOf(j))
      BY <1>2, ToMoves DEF Establish, JobPlaces
    <2>3. UNCHANGED <<latest, transition, shown, runtime, binding, tunRunning, tunUp, isRunning,
          listening, missed, lock>>
      BY <1>2 DEF Establish, intentVars, controlVars, coreVars
    <2> USE <1>2, <2>1, <2>2, <2>3, JobIsNotNone, TokenFacts DEF RunsInv, Moved, Taken, Given,
            Locks
    <2>4. RunTypes' /\ LocksFit' /\ CallsFit' /\ ShownFits' /\ BindingFits'
      BY RunsAssumption DEF RunTypes, LocksFit, CallsFit, ShownFits, Derived, BindingFits
    <2>5. LossFits' /\ UnwantedStops' /\ DeadStartHears' /\ FlagFits' /\ FlagSettles'
      BY DEF LossFits, Loses, UnwantedStops, IsCurrent, DeadStartHears, FlagFits, FlagSettles
    <2>6. CoreCloses' BY DEF CoreCloses
    <2>7. TokensFit' /\ TransitionFits' /\ StopsFirst'
      BY DEF TokensFit, LocksFit, TransitionFits, StopsFirst
    <2>8. TunFits' BY DEF TunFits, LocksFit, TransitionFits
    <2>9. LossRemembers' /\ WantedStarts' /\ DeadRunEnds' /\ FlagRaised'
      BY DEF LossRemembers, Loses, TokensFit, WantedStarts, DeadRunEnds, FlagRaised
    <2> QED BY ONLY <2>4, <2>5, <2>6, <2>7, <2>8, <2>9 DEF RunsInv
  <1> QED BY <1>1, <1>2

(* The core takes the descriptor, of an interface that may be gone, or     *)
(* refuses it.                                                             *)
LEMMA AdoptKeepsRuns ==
    ASSUME RunsInv, NEW j \in Jobs, NEW up \in BOOLEAN, Adopt(j, up)
    PROVE  RunsInv'
  <1>1. CASE up
    <2>1. PlaceOf(j) = "adopt" /\ CoreOf(j) = "none"
      BY <1>1 DEF Adopt
    <2>2. PICK c \in {"none", "start"} :
          Moved(j, "established", c, TokenOf(j), BindingOf(j)) /\ (c = "start" <=> ~isRunning)
      BY <1>1, SetMoves DEF Adopt, JobPlaces, Cores, StartIfStopped
    <2>3. lock["tun"] = None /\ Taken(j, "tun")
      BY <1>1, TakeTakes DEF Adopt, Locks
    <2>4. UNCHANGED <<latest, transition, shown, runtime, binding, tunUp, isRunning, listening,
          missed>>
      BY <1>1 DEF Adopt, intentVars, controlVars, coreVars
    <2>5. tunRunning' = TRUE
      BY <1>1 DEF Adopt
    <2> USE <1>1, <2>1, <2>2, <2>3, <2>4, <2>5, JobIsNotNone, TokenFacts DEF RunsInv, Moved,
            Taken, Given, Locks
    <2>6. RunTypes' /\ LocksFit' /\ CallsFit' /\ TokensFit' /\ TransitionFits'
      BY DEF RunTypes, LocksFit, CallsFit, TokensFit, TransitionFits
    <2>7. ShownFits' /\ BindingFits' /\ UnwantedStops' /\ DeadRunEnds' /\ DeadStartHears'
      BY RunsAssumption DEF ShownFits, Derived, BindingFits, UnwantedStops, IsCurrent,
         DeadRunEnds, Loses, DeadStartHears
    <2>8. FlagFits' /\ CoreCloses'
      BY DEF FlagFits, CoreCloses
    <2>9. TunFits' /\ StopsFirst'
      BY DEF TunFits, LocksFit, StopsFirst
    <2>10. LossFits' BY DEF LossFits, Loses, BindingFits, LocksFit, TokensFit
    <2>11. LossRemembers' /\ WantedStarts' /\ FlagSettles'
      BY DEF LossRemembers, Loses, TokensFit, WantedStarts, FlagSettles
    <2>12. FlagRaised' BY DEF FlagRaised, LocksFit, TransitionFits
    <2> QED BY ONLY <2>6, <2>7, <2>8, <2>9, <2>10, <2>11, <2>12 DEF RunsInv
  <1>2. CASE ~up
    <2>1. PlaceOf(j) = "adopt" /\ CoreOf(j) = "none"
      BY <1>2 DEF Adopt
    <2>2. Moved(j, "refused", "none", TokenOf(j), BindingOf(j))
      BY <1>2, ToMoves DEF Adopt, JobPlaces
    <2>3. lock["tun"] = None /\ Taken(j, "tun")
      BY <1>2, TakeTakes DEF Adopt, Locks
    <2>4. UNCHANGED <<latest, transition, shown, runtime, binding, tunUp, isRunning, listening,
          missed>>
      BY <1>2 DEF Adopt, intentVars, controlVars, coreVars
    <2>5. tunRunning' = TRUE
      BY <1>2 DEF Adopt
    <2> USE <1>2, <2>1, <2>2, <2>3, <2>4, <2>5, JobIsNotNone, TokenFacts DEF RunsInv, Moved,
            Taken, Given, Locks
    <2>6. RunTypes' /\ LocksFit' /\ CallsFit' /\ TokensFit' /\ TransitionFits'
      BY DEF RunTypes, LocksFit, CallsFit, TokensFit, TransitionFits
    <2>7. ShownFits' /\ BindingFits' /\ UnwantedStops' /\ DeadRunEnds' /\ DeadStartHears'
      BY RunsAssumption DEF ShownFits, Derived, BindingFits, UnwantedStops, IsCurrent,
         DeadRunEnds, Loses, DeadStartHears
    <2>8. FlagFits' /\ CoreCloses'
      BY DEF FlagFits, CoreCloses
    <2>9. TunFits' /\ StopsFirst'
      BY DEF TunFits, LocksFit, StopsFirst
    <2>10. LossFits' BY DEF LossFits, Loses, BindingFits, LocksFit, TokensFit
    <2>11. LossRemembers' /\ WantedStarts' /\ FlagSettles'
      BY DEF LossRemembers, Loses, TokensFit, WantedStarts, FlagSettles
    <2>12. FlagRaised' BY DEF FlagRaised, LocksFit, TransitionFits
    <2> QED BY ONLY <2>6, <2>7, <2>8, <2>9, <2>10, <2>11, <2>12 DEF RunsInv
  <1> QED BY <1>1, <1>2

(* The core refused the descriptor: the start fails.                       *)
LEMMA RefusedKeepsRuns ==
    ASSUME RunsInv, NEW j \in Jobs, Refused(j)
    PROVE  RunsInv'
  <1>1. PlaceOf(j) = "refused" /\ CoreOf(j) = "none"
    BY DEF Refused
  <1>2. PICK c \in {"none", "stop"} :
        Moved(j, "refusedStopped", c, TokenOf(j), BindingOf(j)) /\ (c = "stop" <=> isRunning)
    BY SetMoves DEF Refused, JobPlaces, Cores, StopIfRunning
  <1>3. UNCHANGED <<latest, transition, shown, runtime, binding, isRunning, listening, missed,
        lock>>
    BY DEF Refused, intentVars, controlVars, coreVars
  <1>4. tunRunning' = FALSE /\ tunUp' = FALSE /\ tunRunning' \in BOOLEAN /\ tunUp' \in BOOLEAN
    BY DEF Refused
  <1> USE <1>1, <1>2, <1>3, <1>4, JobIsNotNone, TokenFacts DEF RunsInv, Moved, Taken, Given, Locks
  <1>5. RunTypes' /\ LocksFit' /\ CallsFit' /\ TokensFit' /\ TransitionFits'
    BY DEF RunTypes, LocksFit, CallsFit, TokensFit, TransitionFits
  <1>6. ShownFits' /\ BindingFits' /\ LossFits' /\ UnwantedStops' /\ FlagFits'
    BY RunsAssumption DEF ShownFits, Derived, BindingFits, LossFits, Loses, UnwantedStops,
       IsCurrent, FlagFits
  <1>7. FlagSettles' /\ CoreCloses'
    BY DEF FlagSettles, CoreCloses
  <1>8. TunFits' /\ StopsFirst' /\ DeadStartHears'
    BY DEF TunFits, LocksFit, StopsFirst, DeadStartHears, Loses
  <1>9. LossRemembers' /\ WantedStarts' /\ FlagRaised'
    BY DEF LossRemembers, Loses, TokensFit, WantedStarts, FlagRaised
  <1>10. DeadRunEnds' BY DEF DeadRunEnds, Loses, TransitionFits
  <1> QED BY ONLY <1>5, <1>6, <1>7, <1>8, <1>9, <1>10 DEF RunsInv

(* The start that was refused goes on to release its service.              *)
LEMMA RefusedStoppedKeepsRuns ==
    ASSUME RunsInv, NEW j \in Jobs, RefusedStopped(j)
    PROVE  RunsInv'
  <1>1. PlaceOf(j) = "refusedStopped" /\ CoreOf(j) = "none"
    BY DEF RefusedStopped
  <1>2. Moved(j, "stopService", "none", TokenOf(j), BindingOf(j))
    BY ToMoves DEF RefusedStopped, JobPlaces
  <1>3. Given({"tun"})
    BY GiveGives DEF RefusedStopped
  <1>4. UNCHANGED <<latest, transition, shown, runtime, binding, tunRunning, tunUp, isRunning,
        listening, missed>>
    BY DEF RefusedStopped, intentVars, controlVars, coreVars
  <1> USE <1>1, <1>2, <1>3, <1>4, JobIsNotNone, TokenFacts DEF RunsInv, Moved, Taken, Given, Locks
  <1>5. RunTypes' /\ LocksFit' /\ CallsFit' /\ ShownFits' /\ BindingFits'
    BY RunsAssumption DEF RunTypes, LocksFit, CallsFit, ShownFits, Derived, BindingFits
  <1>6. TunFits' /\ LossFits' /\ UnwantedStops' /\ DeadStartHears' /\ FlagFits'
    BY DEF TunFits, LossFits, Loses, UnwantedStops, IsCurrent, DeadStartHears, FlagFits
  <1>7. FlagSettles' /\ CoreCloses'
    BY DEF FlagSettles, CoreCloses
  <1>8. TokensFit' /\ TransitionFits' /\ StopsFirst'
    BY DEF TokensFit, LocksFit, TransitionFits, StopsFirst
  <1>9. LossRemembers' /\ WantedStarts' /\ DeadRunEnds' /\ FlagRaised'
    BY DEF LossRemembers, Loses, TokensFit, WantedStarts, DeadRunEnds, FlagRaised
  <1> QED BY ONLY <1>5, <1>6, <1>7, <1>8, <1>9 DEF RunsInv

(* The start looks at the core once more.                                  *)
LEMMA EstablishedKeepsRuns ==
    ASSUME RunsInv, NEW j \in Jobs, Established(j)
    PROVE  RunsInv'
  <1>1. PlaceOf(j) = "established" /\ CoreOf(j) = "none"
    BY DEF Established
  <1>2. PICK c \in {"none", "start"} :
        Moved(j, "running", c, TokenOf(j), BindingOf(j)) /\ (c = "start" <=> ~isRunning)
    BY SetMoves DEF Established, JobPlaces, Cores, StartIfStopped
  <1>3. Given({"tun"})
    BY GiveGives DEF Established
  <1>4. UNCHANGED <<latest, transition, shown, runtime, binding, tunRunning, tunUp, isRunning,
        listening, missed>>
    BY DEF Established, intentVars, controlVars, coreVars
  <1> USE <1>1, <1>2, <1>3, <1>4, JobIsNotNone, TokenFacts DEF RunsInv, Moved, Taken, Given, Locks
  <1>5. RunTypes' /\ LocksFit' /\ CallsFit' /\ TokensFit' /\ TransitionFits'
    BY DEF RunTypes, LocksFit, CallsFit, TokensFit, TransitionFits
  <1>6. ShownFits' /\ BindingFits' /\ TunFits' /\ LossFits' /\ UnwantedStops'
    BY RunsAssumption DEF ShownFits, Derived, BindingFits, TunFits, LossFits, Loses,
       UnwantedStops, IsCurrent
  <1>7. FlagFits' /\ CoreCloses'
    BY DEF FlagFits, CoreCloses
  <1>8. LossRemembers' BY DEF LossRemembers, Loses, LossFits, TokensFit, LocksFit, TunFits
  <1>9. DeadStartHears' BY DEF DeadStartHears, Loses, LossFits, TokensFit, LocksFit, TunFits
  <1>10. WantedStarts' /\ DeadRunEnds' /\ FlagRaised' /\ FlagSettles'
    BY DEF WantedStarts, TokensFit, DeadRunEnds, Loses, FlagRaised, FlagSettles
  <1>11. StopsFirst' BY DEF StopsFirst, LocksFit
  <1> QED BY ONLY <1>5, <1>6, <1>7, <1>8, <1>9, <1>10, <1>11 DEF RunsInv

(* The run exists, under the token of its start or one that came since.    *)
LEMMA RunningKeepsRuns ==
    ASSUME RunsInv, NEW j \in Jobs, Running(j)
    PROVE  RunsInv'
  <1>1. PlaceOf(j) = "running" /\ CoreOf(j) = "none"
    BY DEF Running
  <1>2. Moved(j, "leave", "none", TokenOf(j), BindingOf(j))
    BY ToMoves DEF Running, JobPlaces
  <1>3. Given({"controller"})
    BY GiveGives DEF Running
  <1>4. UNCHANGED <<latest, transition, shown, binding, tunRunning, tunUp, isRunning, listening,
        missed>>
    BY DEF Running, intentVars, controlVars, coreVars
  <1>5. runtime' = TRUE
    BY DEF Running
  <1> USE <1>1, <1>2, <1>3, <1>4, <1>5, JobIsNotNone, TokenFacts DEF RunsInv, Moved, Taken, Given,
          Locks
  <1>6. RunTypes' /\ LocksFit' /\ CallsFit' /\ TokensFit' /\ BindingFits'
    BY DEF RunTypes, LocksFit, CallsFit, TokensFit, BindingFits
  <1>7. TunFits' /\ LossFits' /\ UnwantedStops' /\ WantedStarts' /\ DeadStartHears'
    BY DEF TunFits, LossFits, Loses, UnwantedStops, IsCurrent, WantedStarts, DeadStartHears
  <1>8. FlagFits' /\ CoreCloses'
    BY DEF FlagFits, CoreCloses
  <1>9. TransitionFits' /\ StopsFirst'
    BY DEF TransitionFits, LocksFit, StopsFirst
  <1>10. ShownFits' BY RunsAssumption DEF ShownFits, Derived, TransitionFits
  <1>11. LossRemembers' /\ FlagRaised' /\ FlagSettles'
    BY DEF LossRemembers, Loses, TokensFit, FlagRaised, FlagSettles
  <1>12. DeadRunEnds' BY DEF DeadRunEnds, Loses, DeadStartHears, TokensFit
  <1> QED BY ONLY <1>6, <1>7, <1>8, <1>9, <1>10, <1>11, <1>12 DEF RunsInv

(* The TUN goes; the listeners are looked at.                              *)
LEMMA StopServiceKeepsRuns ==
    ASSUME RunsInv, NEW j \in Jobs, StopService(j)
    PROVE  RunsInv'
  <1>1. CASE tunRunning
    <2>1. PlaceOf(j) = "stopService" /\ CoreOf(j) = "none"
      BY <1>1 DEF StopService
    <2>2. PICK c \in {"none", "stop"} :
          Moved(j, "release", c, TokenOf(j), BindingOf(j)) /\ (c = "stop" <=> isRunning)
      BY <1>1, SetMoves DEF StopService, JobPlaces, Cores, StopIfRunning
    <2>3. lock["tun"] = None /\ Taken(j, "tun")
      BY <1>1, TakeTakes DEF StopService, Locks
    <2>4. UNCHANGED <<latest, transition, shown, runtime, binding, isRunning, listening, missed>>
      BY <1>1 DEF StopService, intentVars, controlVars, coreVars
    <2>5. tunRunning' = FALSE /\ tunUp' = FALSE /\ tunRunning' \in BOOLEAN /\ tunUp' \in BOOLEAN
      BY <1>1 DEF StopService
    <2> USE <1>1, <2>1, <2>2, <2>3, <2>4, <2>5, JobIsNotNone, TokenFacts DEF RunsInv, Moved,
            Taken, Given, Locks
    <2>6. RunTypes' /\ LocksFit' /\ CallsFit' /\ TokensFit' /\ TransitionFits'
      BY DEF RunTypes, LocksFit, CallsFit, TokensFit, TransitionFits
    <2>7. ShownFits' /\ BindingFits' /\ UnwantedStops' /\ FlagFits' /\ FlagSettles'
      BY RunsAssumption DEF ShownFits, Derived, BindingFits, UnwantedStops, IsCurrent, FlagFits,
         FlagSettles
    <2>8. CoreCloses' BY DEF CoreCloses
    <2>9. TunFits' /\ LossFits' /\ DeadStartHears'
      BY DEF TunFits, LocksFit, LossFits, Loses, DeadStartHears
    <2>10. LossRemembers' /\ WantedStarts' /\ StopsFirst' /\ FlagRaised'
      BY DEF LossRemembers, Loses, TokensFit, WantedStarts, StopsFirst, FlagRaised
    <2>11. DeadRunEnds' BY DEF DeadRunEnds, Loses, StopsFirst, TokensFit, LocksFit, TransitionFits
    <2> QED BY ONLY <2>6, <2>7, <2>8, <2>9, <2>10, <2>11 DEF RunsInv
  <1>2. CASE ~tunRunning
    <2>1. PlaceOf(j) = "stopService" /\ CoreOf(j) = "none"
      BY <1>2 DEF StopService
    <2>2. Moved(j, "release", "none", TokenOf(j), BindingOf(j))
      BY <1>2, ToMoves DEF StopService, JobPlaces
    <2>3. lock["tun"] = None /\ lock' = lock
      BY <1>2 DEF StopService
    <2>4. UNCHANGED <<latest, transition, shown, runtime, binding, tunRunning, tunUp, isRunning,
          listening, missed>>
      BY <1>2 DEF StopService, intentVars, controlVars, coreVars
    <2> USE <1>2, <2>1, <2>2, <2>3, <2>4, JobIsNotNone, TokenFacts DEF RunsInv, Moved, Taken,
            Given, Locks
    <2>5. RunTypes' /\ LocksFit' /\ CallsFit' /\ TokensFit' /\ TransitionFits'
      BY DEF RunTypes, LocksFit, CallsFit, TokensFit, TransitionFits
    <2>6. ShownFits' /\ BindingFits' /\ TunFits' /\ UnwantedStops' /\ DeadStartHears'
      BY RunsAssumption DEF ShownFits, Derived, BindingFits, TunFits, UnwantedStops, IsCurrent,
         DeadStartHears, Loses
    <2>7. FlagFits' /\ FlagSettles' /\ CoreCloses'
      BY DEF FlagFits, FlagSettles, CoreCloses
    <2>8. LossFits' BY DEF LossFits, Loses, LocksFit
    <2>9. LossRemembers' /\ WantedStarts' /\ StopsFirst' /\ DeadRunEnds' /\ FlagRaised'
      BY DEF LossRemembers, Loses, TokensFit, WantedStarts, StopsFirst, DeadRunEnds, FlagRaised
    <2> QED BY ONLY <2>5, <2>6, <2>7, <2>8, <2>9 DEF RunsInv
  <1> QED BY <1>1, <1>2

(* The run is over, and what runs of the core is stopped.                  *)
LEMMA ReleaseKeepsRuns ==
    ASSUME RunsInv, NEW j \in Jobs, Release(j)
    PROVE  RunsInv'
  <1>1. CASE lock["preparation"] = j
    <2>1. PlaceOf(j) = "release" /\ CoreOf(j) = "none"
      BY <1>1 DEF Release, Starting
    <2>2. PICK c \in {"none", "stop"} :
          Moved(j, "leaveFailed", c, TokenOf(j), BindingOf(j)) /\ (c = "stop" <=> isRunning)
      BY <1>1, SetMoves DEF Release, JobPlaces, Cores, StopIfRunning, Starting
    <2>3. Given({l \in {"tun"} : lock[l] = j})
      BY <1>1, GiveGives DEF Release, Starting
    <2>4. UNCHANGED <<latest, transition, shown, tunRunning, tunUp, isRunning, listening, missed>>
      BY <1>1 DEF Release, intentVars, controlVars, coreVars, Starting
    <2>5. runtime' = FALSE /\ binding' = None /\ runtime' \in BOOLEAN
      BY <1>1 DEF Release
    <2> USE <1>1, <2>1, <2>2, <2>3, <2>4, <2>5, JobIsNotNone, TokenFacts DEF RunsInv, Moved,
            Taken, Given, Locks
    <2>6. RunTypes' /\ LocksFit' /\ CallsFit' /\ TokensFit' /\ TransitionFits'
      BY DEF RunTypes, LocksFit, CallsFit, TokensFit, TransitionFits
    <2>7. TunFits' /\ LossFits' /\ LossRemembers' /\ UnwantedStops' /\ DeadRunEnds'
      BY DEF TunFits, LossFits, Loses, LossRemembers, UnwantedStops, IsCurrent, DeadRunEnds
    <2>8. FlagFits' /\ FlagSettles' /\ CoreCloses'
      BY DEF FlagFits, FlagSettles, CoreCloses
    <2>9. ShownFits' BY RunsAssumption DEF ShownFits, Derived, TransitionFits
    <2>10. BindingFits' /\ StopsFirst' /\ DeadStartHears'
      BY DEF BindingFits, LocksFit, StopsFirst, DeadStartHears, Loses
    <2>11. WantedStarts' BY DEF WantedStarts, LocksFit, TokensFit, TransitionFits
    <2>12. FlagRaised' BY DEF FlagRaised, TokensFit
    <2> QED BY ONLY <2>6, <2>7, <2>8, <2>9, <2>10, <2>11, <2>12 DEF RunsInv
  <1>2. CASE lock["preparation"] # j
    <2>1. PlaceOf(j) = "release" /\ CoreOf(j) = "none"
      BY <1>2 DEF Release, Starting
    <2>2. PICK c \in {"none", "stop"} :
          Moved(j, "leaveStop", c, TokenOf(j), BindingOf(j)) /\ (c = "stop" <=> isRunning)
      BY <1>2, SetMoves DEF Release, JobPlaces, Cores, StopIfRunning, Starting
    <2>3. Given({l \in {"tun"} : lock[l] = j})
      BY <1>2, GiveGives DEF Release, Starting
    <2>4. UNCHANGED <<latest, transition, shown, tunRunning, tunUp, isRunning, listening, missed>>
      BY <1>2 DEF Release, intentVars, controlVars, coreVars, Starting
    <2>5. runtime' = FALSE /\ binding' = None /\ runtime' \in BOOLEAN
      BY <1>2 DEF Release
    <2> USE <1>2, <2>1, <2>2, <2>3, <2>4, <2>5, JobIsNotNone, TokenFacts DEF RunsInv, Moved,
            Taken, Given, Locks
    <2>6. RunTypes' /\ LocksFit' /\ CallsFit' /\ TokensFit' /\ TransitionFits'
      BY DEF RunTypes, LocksFit, CallsFit, TokensFit, TransitionFits
    <2>7. TunFits' /\ LossFits' /\ LossRemembers' /\ UnwantedStops' /\ DeadRunEnds'
      BY DEF TunFits, LossFits, Loses, LossRemembers, UnwantedStops, IsCurrent, DeadRunEnds
    <2>8. FlagFits' /\ FlagSettles' /\ CoreCloses'
      BY DEF FlagFits, FlagSettles, CoreCloses
    <2>9. ShownFits' BY RunsAssumption DEF ShownFits, Derived, TransitionFits
    <2>10. BindingFits' /\ DeadStartHears'
      BY DEF BindingFits, LocksFit, DeadStartHears, Loses
    <2>11. WantedStarts' BY DEF WantedStarts, StopsFirst, TokensFit, LocksFit, TransitionFits
    <2>12. StopsFirst' /\ FlagRaised'
      BY DEF StopsFirst, TokensFit, FlagRaised
    <2> QED BY ONLY <2>6, <2>7, <2>8, <2>9, <2>10, <2>11, <2>12 DEF RunsInv
  <1> QED BY <1>1, <1>2

(* The transition is over and the state is published; a start that failed  *)
(* or was overtaken gives up.                                              *)
LEMMA LeaveKeepsRuns ==
    ASSUME RunsInv, NEW j \in Jobs, Leave(j)
    PROVE  RunsInv'
  <1>1. CASE On(j, "leave") /\ IsCurrent(j)
    <2>1. PlaceOf(j) = "leave" /\ CoreOf(j) = "none"
      BY <1>1 DEF Leave
    <2>2. Moved(j, "ended", "none", TokenOf(j), BindingOf(j))
      BY <1>1, ToMoves DEF Leave, JobPlaces
    <2>3. Given({l \in Locks : lock[l] = j})
      BY <1>1, GiveGives DEF Leave
    <2>4. UNCHANGED <<latest, runtime, binding, tunRunning, tunUp, isRunning, listening, missed>>
      BY <1>1 DEF Leave, intentVars, controlVars, coreVars
    <2>5. transition' = None /\ shown' = Derived(None, runtime, latest.running)
      BY <1>1 DEF Leave, Publish
    <2> USE <1>1, <2>1, <2>2, <2>3, <2>4, <2>5, JobIsNotNone, TokenFacts DEF RunsInv, Moved,
            Taken, Given, Locks
    <2>6. RunTypes' /\ LocksFit' /\ CallsFit' /\ TokensFit' /\ ShownFits'
      BY RunsAssumption DEF RunTypes, LocksFit, CallsFit, TokensFit, ShownFits, Derived
    <2>7. BindingFits' /\ TunFits' /\ LossFits' /\ DeadStartHears' /\ FlagFits'
      BY DEF BindingFits, TunFits, LossFits, Loses, DeadStartHears, FlagFits
    <2>8. CoreCloses' BY DEF CoreCloses
    <2>9. TransitionFits' /\ StopsFirst'
      BY DEF TransitionFits, LocksFit, StopsFirst
    <2>10. LossRemembers' /\ UnwantedStops' /\ WantedStarts' /\ DeadRunEnds' /\ FlagRaised'
      BY DEF LossRemembers, Loses, TokensFit, UnwantedStops, IsCurrent, WantedStarts, DeadRunEnds,
         FlagRaised
    <2>11. FlagSettles' BY DEF FlagSettles, TokensFit
    <2> QED BY ONLY <2>6, <2>7, <2>8, <2>9, <2>10, <2>11 DEF RunsInv
  <1>2. CASE On(j, "leave") /\ ~IsCurrent(j)
    <2>1. PlaceOf(j) = "leave" /\ CoreOf(j) = "none"
      BY <1>2 DEF Leave
    <2>2. Moved(j, "drop", "none", TokenOf(j), BindingOf(j))
      BY <1>2, ToMoves DEF Leave, JobPlaces
    <2>3. Given({l \in Locks : lock[l] = j})
      BY <1>2, GiveGives DEF Leave
    <2>4. UNCHANGED <<latest, runtime, binding, tunRunning, tunUp, isRunning, listening, missed>>
      BY <1>2 DEF Leave, intentVars, controlVars, coreVars
    <2>5. transition' = None /\ shown' = Derived(None, runtime, latest.running)
      BY <1>2 DEF Leave, Publish
    <2> USE <1>2, <2>1, <2>2, <2>3, <2>4, <2>5, JobIsNotNone, TokenFacts DEF RunsInv, Moved,
            Taken, Given, Locks
    <2>6. RunTypes' /\ LocksFit' /\ CallsFit' /\ TokensFit' /\ ShownFits'
      BY RunsAssumption DEF RunTypes, LocksFit, CallsFit, TokensFit, ShownFits, Derived
    <2>7. BindingFits' /\ TunFits' /\ LossFits' /\ UnwantedStops' /\ DeadStartHears'
      BY DEF BindingFits, TunFits, LossFits, Loses, UnwantedStops, IsCurrent, DeadStartHears
    <2>8. FlagFits' /\ CoreCloses'
      BY DEF FlagFits, CoreCloses
    <2>9. TransitionFits' /\ StopsFirst'
      BY DEF TransitionFits, LocksFit, StopsFirst
    <2>10. LossRemembers' /\ WantedStarts' /\ DeadRunEnds' /\ FlagRaised' /\ FlagSettles'
      BY DEF LossRemembers, Loses, TokensFit, WantedStarts, DeadRunEnds, FlagRaised, FlagSettles
    <2> QED BY ONLY <2>6, <2>7, <2>8, <2>9, <2>10 DEF RunsInv
  <1>3. CASE On(j, "leaveFailed")
    <2>1. PlaceOf(j) = "leaveFailed" /\ CoreOf(j) = "none"
      BY <1>3 DEF Leave
    <2>2. Moved(j, "drop", "none", TokenOf(j), BindingOf(j))
      BY <1>3, ToMoves DEF Leave, JobPlaces
    <2>3. Given({l \in Locks : lock[l] = j})
      BY <1>3, GiveGives DEF Leave
    <2>4. UNCHANGED <<latest, runtime, binding, tunRunning, tunUp, isRunning, listening, missed>>
      BY <1>3 DEF Leave, intentVars, controlVars, coreVars
    <2>5. transition' = None /\ shown' = Derived(None, runtime, latest.running)
      BY <1>3 DEF Leave, Publish
    <2> USE <1>3, <2>1, <2>2, <2>3, <2>4, <2>5, JobIsNotNone, TokenFacts DEF RunsInv, Moved,
            Taken, Given, Locks
    <2>6. RunTypes' /\ LocksFit' /\ CallsFit' /\ TokensFit' /\ ShownFits'
      BY RunsAssumption DEF RunTypes, LocksFit, CallsFit, TokensFit, ShownFits, Derived
    <2>7. BindingFits' /\ TunFits' /\ LossFits' /\ UnwantedStops' /\ DeadStartHears'
      BY DEF BindingFits, TunFits, LossFits, Loses, UnwantedStops, IsCurrent, DeadStartHears
    <2>8. FlagFits' /\ CoreCloses'
      BY DEF FlagFits, CoreCloses
    <2>9. TransitionFits' /\ StopsFirst'
      BY DEF TransitionFits, LocksFit, StopsFirst
    <2>10. LossRemembers' /\ WantedStarts' /\ DeadRunEnds' /\ FlagRaised' /\ FlagSettles'
      BY DEF LossRemembers, Loses, TokensFit, WantedStarts, DeadRunEnds, FlagRaised, FlagSettles
    <2> QED BY ONLY <2>6, <2>7, <2>8, <2>9, <2>10 DEF RunsInv
  <1>4. CASE On(j, "leaveStop")
    <2>1. PlaceOf(j) = "leaveStop" /\ CoreOf(j) = "none"
      BY <1>4 DEF Leave
    <2>2. Moved(j, "ended", "none", TokenOf(j), BindingOf(j))
      BY <1>4, ToMoves DEF Leave, JobPlaces
    <2>3. Given({l \in Locks : lock[l] = j})
      BY <1>4, GiveGives DEF Leave
    <2>4. UNCHANGED <<latest, runtime, binding, tunRunning, tunUp, isRunning, listening, missed>>
      BY <1>4 DEF Leave, intentVars, controlVars, coreVars
    <2>5. transition' = None /\ shown' = Derived(None, runtime, latest.running)
      BY <1>4 DEF Leave, Publish
    <2> USE <1>4, <2>1, <2>2, <2>3, <2>4, <2>5, JobIsNotNone, TokenFacts DEF RunsInv, Moved,
            Taken, Given, Locks
    <2>6. RunTypes' /\ LocksFit' /\ CallsFit' /\ TokensFit' /\ TransitionFits'
      BY DEF RunTypes, LocksFit, CallsFit, TokensFit, TransitionFits
    <2>7. ShownFits' /\ BindingFits' /\ TunFits' /\ LossFits' /\ UnwantedStops'
      BY RunsAssumption DEF ShownFits, Derived, BindingFits, TunFits, LossFits, Loses,
         UnwantedStops, IsCurrent
    <2>8. DeadStartHears' /\ FlagFits' /\ CoreCloses'
      BY DEF DeadStartHears, Loses, FlagFits, CoreCloses
    <2>9. LossRemembers' /\ WantedStarts' /\ DeadRunEnds' /\ FlagRaised' /\ FlagSettles'
      BY DEF LossRemembers, Loses, TokensFit, WantedStarts, DeadRunEnds, FlagRaised, FlagSettles
    <2>10. StopsFirst' BY DEF StopsFirst, LocksFit
    <2> QED BY ONLY <2>6, <2>7, <2>8, <2>9, <2>10 DEF RunsInv
  <1> QED BY <1>1, <1>2, <1>3, <1>4 DEF Leave

(* A start that gives up takes its intent back, if it is the newest.       *)
LEMMA DropKeepsRuns ==
    ASSUME RunsInv, NEW j \in Jobs, Drop(j)
    PROVE  RunsInv'
  <1>1. CASE IsCurrent(j)
    <2>1. PlaceOf(j) = "drop" /\ CoreOf(j) = "none"
      BY <1>1 DEF Drop
    <2>2. Moved(j, "reconcile", "none", TokenOf(j), BindingOf(j))
      BY <1>1, ToMoves DEF Drop, JobPlaces
    <2>3. UNCHANGED <<transition, shown, runtime, binding, tunRunning, tunUp, isRunning,
          listening, missed, lock>>
      BY <1>1 DEF Drop, intentVars, controlVars, coreVars
    <2>4. latest' = [by |-> latest.by, running |-> FALSE, reset |-> TRUE]
      BY <1>1 DEF Drop, ResetToStopped, IsCurrent
    <2>5. latest' \in Tokens /\ latest'.running = FALSE /\ latest'.by = latest.by
      BY <1>1, <2>4 DEF RunsInv, RunTypes, Tokens
    <2> USE <1>1, <2>1, <2>2, <2>3, <2>5, JobIsNotNone, TokenFacts DEF RunsInv, Moved, Taken,
            Given, Locks
    <2>6. RunTypes' /\ LocksFit' /\ CallsFit' /\ TokensFit' /\ TransitionFits'
      BY DEF RunTypes, LocksFit, CallsFit, TokensFit, TransitionFits
    <2>7. ShownFits' /\ BindingFits' /\ TunFits' /\ LossFits' /\ LossRemembers'
      BY RunsAssumption DEF ShownFits, Derived, BindingFits, TunFits, LossFits, Loses,
         LossRemembers
    <2>8. UnwantedStops' /\ WantedStarts' /\ StopsFirst'
      BY DEF UnwantedStops, IsCurrent, WantedStarts, StopsFirst
    <2>9. DeadRunEnds' /\ DeadStartHears'
      BY DEF DeadRunEnds, Loses, DeadStartHears
    <2>10. FlagFits' /\ FlagSettles' /\ CoreCloses'
      BY DEF FlagFits, FlagSettles, CoreCloses
    <2>11. FlagRaised' BY DEF FlagRaised, TokensFit
    <2> QED BY ONLY <2>6, <2>7, <2>8, <2>9, <2>10, <2>11 DEF RunsInv
  <1>2. CASE ~IsCurrent(j)
    <2>1. PlaceOf(j) = "drop" /\ CoreOf(j) = "none"
      BY <1>2 DEF Drop, ResetToStopped, IsCurrent
    <2>2. Moved(j, "reconcile", "none", TokenOf(j), BindingOf(j))
      BY <1>2, ToMoves DEF Drop, JobPlaces, ResetToStopped, IsCurrent
    <2>3. UNCHANGED <<latest, transition, shown, runtime, binding, tunRunning, tunUp, isRunning,
          listening, missed, lock>>
      BY <1>2 DEF Drop, intentVars, controlVars, coreVars, ResetToStopped, IsCurrent
    <2> USE <1>2, <2>1, <2>2, <2>3, JobIsNotNone, TokenFacts DEF RunsInv, Moved, Taken, Given,
            Locks
    <2>4. RunTypes' BY DEF RunTypes
    <2>5. LocksFit' /\ CallsFit' /\ TransitionFits' /\ ShownFits'
      BY RunsAssumption DEF LocksFit, CallsFit, TransitionFits, ShownFits, Derived
    <2>6. BindingFits' /\ TunFits' /\ LossFits' /\ UnwantedStops' /\ DeadStartHears'
      BY DEF BindingFits, TunFits, LossFits, Loses, UnwantedStops, IsCurrent, DeadStartHears
    <2>7. FlagFits' /\ CoreCloses'
      BY DEF FlagFits, CoreCloses
    <2>8. TokensFit' BY DEF TokensFit, IsCurrent, LocksFit
    <2>9. LossRemembers' /\ WantedStarts'
      BY DEF LossRemembers, Loses, TokensFit, WantedStarts
    <2>10. StopsFirst' BY DEF StopsFirst, TokensFit, IsCurrent, LocksFit
    <2>11. DeadRunEnds' BY DEF DeadRunEnds, Loses, TokensFit, IsCurrent, LocksFit
    <2>12. FlagSettles' BY DEF FlagSettles, TokensFit, IsCurrent, LocksFit
    <2>13. FlagRaised' BY DEF FlagRaised, TokensFit, IsCurrent
    <2> QED BY ONLY <2>4, <2>5, <2>6, <2>7, <2>8, <2>9, <2>10, <2>11, <2>12, <2>13 DEF RunsInv
  <1> QED BY <1>1, <1>2

(* What is there after a start gave up is brought to what is wanted; a run *)
(* that is wanted but was lost, or a flag that was left raised, is marked  *)
(* by missed.                                                              *)
LEMMA ReconcileKeepsRuns ==
    ASSUME RunsInv, NEW j \in Jobs, Reconcile(j)
    PROVE  RunsInv'
  <1>1. CASE latest.running
    <2>1. PlaceOf(j) = "reconcile" /\ CoreOf(j) = "none"
      BY <1>1 DEF Reconcile
    <2>2. Moved(j, "ended", "none", TokenOf(j), BindingOf(j))
      BY <1>1, ToMoves DEF Reconcile, JobPlaces
    <2>3. UNCHANGED <<latest, transition, runtime, binding, tunRunning, tunUp, isRunning,
          listening, lock>>
      BY <1>1 DEF Reconcile, intentVars, controlVars, coreVars
    <2>4. shown' = Derived(transition, runtime, latest.running)
      BY <1>1 DEF Reconcile, Publish
    <2>5. missed' \in BOOLEAN /\ (~missed' => ~missed /\ (runtime \/ PlaceOf(latest.by) # "ended")
          /\ (isRunning => listening))
      BY <1>1 DEF Reconcile, Miss, TakenForRun, FlagLeft
    <2>6. lock["transition"] = None
      BY <1>1 DEF Reconcile
    <2> USE <1>1, <2>1, <2>2, <2>3, <2>4, <2>5, <2>6, JobIsNotNone, TokenFacts DEF RunsInv, Moved,
            Taken, Given, Locks
    <2>7. RunTypes' BY DEF RunTypes
    <2>8. LocksFit' /\ CallsFit' /\ TokensFit' /\ TransitionFits'
      BY DEF LocksFit, CallsFit, TokensFit, TransitionFits
    <2>9. ShownFits' /\ BindingFits' /\ TunFits' /\ LossFits' /\ UnwantedStops'
      BY RunsAssumption DEF ShownFits, Derived, BindingFits, TunFits, LossFits, Loses,
         UnwantedStops, IsCurrent
    <2>10. DeadStartHears' /\ FlagFits'
      BY DEF DeadStartHears, Loses, FlagFits
    <2>11. LossRemembers' /\ WantedStarts' /\ DeadRunEnds' /\ FlagRaised' /\ FlagSettles'
      BY DEF LossRemembers, Loses, TokensFit, WantedStarts, DeadRunEnds, FlagRaised, FlagSettles
    <2>12. StopsFirst' BY DEF StopsFirst, LocksFit
    <2>13. CoreCloses' BY DEF CoreCloses, LocksFit, TokensFit
    <2> QED BY ONLY <2>7, <2>8, <2>9, <2>10, <2>11, <2>12, <2>13 DEF RunsInv
  <1>2. CASE ~latest.running /\ runtime
    <2>1. PlaceOf(j) = "reconcile" /\ CoreOf(j) = "none"
      BY <1>2 DEF Reconcile, BeginStopping
    <2>2. Moved(j, "teardown", "none", TokenOf(j), BindingOf(j))
      BY <1>2, ToMoves DEF Reconcile, JobPlaces, BeginStopping
    <2>3. lock["transition"] = None /\ Taken(j, "transition")
      BY <1>2, TakeTakes DEF Reconcile, Locks, BeginStopping
    <2>4. UNCHANGED <<latest, runtime, binding, tunRunning, tunUp, isRunning, listening>>
      BY <1>2 DEF Reconcile, intentVars, controlVars, coreVars, BeginStopping
    <2>5. missed' \in BOOLEAN /\ (~missed' => ~missed)
      BY <1>2 DEF Reconcile, Miss
    <2>6. transition' = "STOPPING" /\ shown' = "STOPPING"
      BY <1>2, RunsAssumption DEF Reconcile, BeginStopping, Publish, Derived
    <2> USE <1>2, <2>1, <2>2, <2>3, <2>4, <2>5, <2>6, JobIsNotNone, TokenFacts DEF RunsInv, Moved,
            Taken, Given, Locks
    <2>7. RunTypes' BY DEF RunTypes
    <2>8. LocksFit' /\ CallsFit' /\ TokensFit' /\ ShownFits'
      BY RunsAssumption DEF LocksFit, CallsFit, TokensFit, ShownFits, Derived
    <2>9. BindingFits' /\ TunFits' /\ LossFits'
      BY DEF BindingFits, TunFits, LossFits, Loses
    <2>10. LossRemembers' /\ UnwantedStops'
      BY DEF LossRemembers, Loses, UnwantedStops, IsCurrent
    <2>11. WantedStarts' /\ StopsFirst' /\ DeadRunEnds' /\ DeadStartHears' /\ FlagFits'
      BY DEF WantedStarts, StopsFirst, DeadRunEnds, Loses, DeadStartHears, FlagFits
    <2>12. FlagSettles' /\ CoreCloses'
      BY DEF FlagSettles, CoreCloses
    <2>13. TransitionFits' BY DEF TransitionFits, LocksFit
    <2>14. FlagRaised' BY DEF FlagRaised, TokensFit
    <2> QED BY ONLY <2>7, <2>8, <2>9, <2>10, <2>11, <2>12, <2>13, <2>14 DEF RunsInv
  <1>3. CASE ~latest.running /\ ~runtime
    <2>1. PlaceOf(j) = "reconcile" /\ CoreOf(j) = "none"
      BY <1>3 DEF Reconcile, CloseAhead
    <2>2. Moved(j, "teardown", "none", TokenOf(j), BindingOf(j))
      BY <1>3, ToMoves DEF Reconcile, JobPlaces, CloseAhead
    <2>3. lock["transition"] = None /\ Taken(j, "transition")
      BY <1>3, TakeTakes DEF Reconcile, Locks, CloseAhead
    <2>4. UNCHANGED <<latest, transition, shown, runtime, binding, tunRunning, tunUp, isRunning,
          listening>>
      BY <1>3 DEF Reconcile, intentVars, controlVars, coreVars, CloseAhead
    <2>5. missed' \in BOOLEAN /\ (~missed' => ~missed)
      BY <1>3 DEF Reconcile, Miss
    <2> USE <1>3, <2>1, <2>2, <2>3, <2>4, <2>5, JobIsNotNone, TokenFacts DEF RunsInv, Moved,
            Taken, Given, Locks
    <2>6. RunTypes' BY DEF RunTypes
    <2>7. LocksFit' /\ CallsFit' /\ TokensFit' /\ TransitionFits'
      BY DEF LocksFit, CallsFit, TokensFit, TransitionFits
    <2>8. ShownFits' /\ BindingFits' /\ TunFits'
      BY RunsAssumption DEF ShownFits, Derived, BindingFits, TunFits
    <2>9. LossFits' /\ LossRemembers'
      BY DEF LossFits, Loses, LossRemembers
    <2>10. UnwantedStops' /\ WantedStarts' /\ StopsFirst' /\ DeadRunEnds' /\ DeadStartHears'
      BY DEF UnwantedStops, IsCurrent, WantedStarts, StopsFirst, DeadRunEnds, Loses,
         DeadStartHears
    <2>11. FlagFits' /\ FlagSettles' /\ CoreCloses'
      BY DEF FlagFits, FlagSettles, CoreCloses
    <2>12. FlagRaised' BY DEF FlagRaised, TokensFit
    <2> QED BY ONLY <2>6, <2>7, <2>8, <2>9, <2>10, <2>11, <2>12 DEF RunsInv
  <1> QED BY <1>1, <1>2, <1>3

(* A stop comes.                                                           *)
LEMMA StopActionKeepsRuns ==
    ASSUME RunsInv, NEW j \in Jobs, StopAction(j)
    PROVE  RunsInv'
  <1>1. job[j] = NoJob /\ PlaceOf(j) = "idle" /\ CoreOf(j) = "none"
        /\ \A k \in Jobs : k < j => PlaceOf(k) # "idle"
    BY FreshIsFirst DEF StopAction
  <1>2. Moved(j, "claimStop", "none", TokenOf(j), BindingOf(j))
    BY ToMoves DEF StopAction, JobPlaces
  <1>3. UNCHANGED <<latest, transition, shown, runtime, binding, tunRunning, tunUp, isRunning,
        listening, missed, lock>>
    BY DEF StopAction, intentVars, controlVars, coreVars
  <1> USE <1>1, <1>2, <1>3, JobIsNotNone, TokenFacts DEF RunsInv, Moved, Taken, Given, Locks
  <1>4. RunTypes' BY DEF RunTypes
  <1>5. LocksFit' /\ CallsFit' /\ TokensFit' /\ TransitionFits'
    BY DEF LocksFit, CallsFit, TokensFit, TransitionFits
  <1>6. ShownFits' /\ BindingFits' /\ TunFits' /\ LossFits' /\ UnwantedStops'
    BY RunsAssumption DEF ShownFits, Derived, BindingFits, TunFits, LossFits, Loses,
       UnwantedStops, IsCurrent
  <1>7. DeadRunEnds' /\ DeadStartHears' /\ FlagFits' /\ CoreCloses'
    BY DEF DeadRunEnds, Loses, DeadStartHears, FlagFits, CoreCloses
  <1>8. LossRemembers' /\ WantedStarts' /\ StopsFirst' /\ FlagRaised' /\ FlagSettles'
    BY DEF LossRemembers, Loses, TokensFit, WantedStarts, StopsFirst, FlagRaised, FlagSettles
  <1> QED BY ONLY <1>4, <1>5, <1>6, <1>7, <1>8 DEF RunsInv

(* The stop mints the newest token, and is on its way to stop the run.     *)
LEMMA ClaimStopKeepsRuns ==
    ASSUME RunsInv, NEW j \in Jobs, ClaimStop(j)
    PROVE  RunsInv'
  <1>1. PlaceOf(j) = "claimStop" /\ CoreOf(j) = "none"
    BY DEF ClaimStop
  <1>2. latest' = StopToken(j)
    BY DEF ClaimStop, Request, StopToken
  <1>3. Moved(j, "stop", "none", StopToken(j), BindingOf(j))
    BY <1>1, <1>2, TokenMoves, TokenFacts DEF ClaimStop, JobPlaces
  <1>4. shown' = Derived(transition, runtime, FALSE)
    BY DEF ClaimStop, Request, Publish
  <1>5. UNCHANGED <<transition, runtime, binding, tunRunning, tunUp, isRunning, listening, missed,
        lock>>
    BY DEF ClaimStop, intentVars, controlVars, coreVars
  <1> USE <1>1, <1>2, <1>3, <1>4, <1>5, JobIsNotNone, TokenFacts DEF RunsInv, Moved, Taken, Given,
          Locks
  <1>6. RunTypes' /\ LocksFit' /\ CallsFit' /\ TokensFit' /\ TransitionFits'
    BY DEF RunTypes, LocksFit, CallsFit, TokensFit, TransitionFits
  <1>7. ShownFits' /\ BindingFits' /\ TunFits' /\ LossFits' /\ LossRemembers'
    BY RunsAssumption DEF ShownFits, Derived, BindingFits, TunFits, LossFits, Loses, LossRemembers
  <1>8. UnwantedStops' /\ WantedStarts' /\ StopsFirst' /\ DeadRunEnds' /\ DeadStartHears'
    BY DEF UnwantedStops, IsCurrent, WantedStarts, StopsFirst, DeadRunEnds, Loses, DeadStartHears
  <1>9. FlagFits' /\ CoreCloses'
    BY DEF FlagFits, CoreCloses
  <1>10. FlagRaised' /\ FlagSettles'
    BY DEF FlagRaised, TokensFit, FlagSettles
  <1> QED BY ONLY <1>6, <1>7, <1>8, <1>9, <1>10 DEF RunsInv

(* The command of Flutter is over.                                         *)
LEMMA FlutterStoppedKeepsRuns ==
    ASSUME RunsInv, NEW j \in Jobs, FlutterStopped(j)
    PROVE  RunsInv'
  <1>1. PlaceOf(j) = "flutterStopped" /\ CoreOf(j) = "none"
    BY DEF FlutterStopped
  <1>2. Moved(j, "ended", "none", TokenOf(j), BindingOf(j))
    BY ToMoves DEF FlutterStopped, JobPlaces
  <1>3. Given({"flutter"})
    BY GiveGives DEF FlutterStopped
  <1>4. UNCHANGED <<latest, transition, shown, runtime, binding, tunRunning, tunUp, isRunning,
        listening, missed>>
    BY DEF FlutterStopped, intentVars, controlVars, coreVars
  <1> USE <1>1, <1>2, <1>3, <1>4, JobIsNotNone, TokenFacts DEF RunsInv, Moved, Taken, Given, Locks
  <1>5. RunTypes' BY DEF RunTypes
  <1>6. LocksFit' /\ CallsFit' /\ TokensFit' /\ TransitionFits'
    BY DEF LocksFit, CallsFit, TokensFit, TransitionFits
  <1>7. ShownFits' /\ BindingFits' /\ TunFits'
    BY RunsAssumption DEF ShownFits, Derived, BindingFits, TunFits
  <1>8. LossFits' /\ UnwantedStops'
    BY DEF LossFits, Loses, UnwantedStops, IsCurrent
  <1>9. DeadStartHears' /\ FlagFits' /\ CoreCloses'
    BY DEF DeadStartHears, Loses, FlagFits, CoreCloses
  <1>10. LossRemembers' /\ WantedStarts' /\ StopsFirst' /\ DeadRunEnds' /\ FlagRaised'
    BY DEF LossRemembers, Loses, TokensFit, WantedStarts, StopsFirst, DeadRunEnds, FlagRaised
  <1>11. FlagSettles' BY DEF FlagSettles, TokensFit
  <1> QED BY ONLY <1>5, <1>6, <1>7, <1>8, <1>9, <1>10, <1>11 DEF RunsInv

(* The stop that is the newest stops the run, if there is one.             *)
LEMMA StopKeepsRuns ==
    ASSUME RunsInv, NEW j \in Jobs, Stop(j)
    PROVE  RunsInv'
  <1>1. CASE ~IsCurrent(j)
    <2>1. PlaceOf(j) = "stop" /\ CoreOf(j) = "none"
      BY <1>1 DEF Stop
    <2>2. Moved(j, "ended", "none", TokenOf(j), BindingOf(j))
      BY <1>1, ToMoves DEF Stop, JobPlaces
    <2>3. UNCHANGED <<latest, transition, shown, runtime, binding, tunRunning, tunUp, isRunning,
          listening, missed, lock>>
      BY <1>1 DEF Stop, intentVars, controlVars, coreVars
    <2>4. lock["transition"] = None
      BY <1>1 DEF Stop, StopWaitsFor
    <2> USE <1>1, <2>1, <2>2, <2>3, <2>4, JobIsNotNone, TokenFacts DEF RunsInv, Moved, Taken,
            Given, Locks
    <2>5. RunTypes' /\ LocksFit' /\ CallsFit' /\ TokensFit' /\ TransitionFits'
      BY DEF RunTypes, LocksFit, CallsFit, TokensFit, TransitionFits
    <2>6. ShownFits' /\ BindingFits' /\ TunFits' /\ LossFits' /\ UnwantedStops'
      BY RunsAssumption DEF ShownFits, Derived, BindingFits, TunFits, LossFits, Loses,
         UnwantedStops, IsCurrent
    <2>7. DeadStartHears' /\ FlagFits' /\ CoreCloses'
      BY DEF DeadStartHears, Loses, FlagFits, CoreCloses
    <2>8. LossRemembers' /\ WantedStarts' /\ DeadRunEnds' /\ FlagRaised' /\ FlagSettles'
      BY DEF LossRemembers, Loses, TokensFit, WantedStarts, DeadRunEnds, FlagRaised, FlagSettles
    <2>9. StopsFirst' BY DEF StopsFirst, LocksFit
    <2> QED BY ONLY <2>5, <2>6, <2>7, <2>8, <2>9 DEF RunsInv
  <1>2. CASE IsCurrent(j) /\ runtime
    <2>1. PlaceOf(j) = "stop" /\ CoreOf(j) = "none"
      BY <1>2 DEF Stop, BeginStopping
    <2>2. Moved(j, "teardown", "none", TokenOf(j), BindingOf(j))
      BY <1>2, ToMoves DEF Stop, JobPlaces, BeginStopping
    <2>3. lock["transition"] = None /\ Taken(j, "transition")
      BY <1>2, TakeTakes DEF Stop, Locks, BeginStopping
    <2>4. UNCHANGED <<latest, runtime, binding, tunRunning, tunUp, isRunning, listening, missed>>
      BY <1>2 DEF Stop, intentVars, controlVars, coreVars, BeginStopping
    <2>5. transition' = "STOPPING" /\ shown' = "STOPPING"
      BY <1>2, RunsAssumption DEF Stop, BeginStopping, Publish, Derived
    <2>6. ~latest.running
      BY <1>2, <2>1, TokenFacts DEF Stop, IsCurrent, RunsInv, TokensFit
    <2> USE <1>2, <2>1, <2>2, <2>3, <2>4, <2>5, <2>6, JobIsNotNone, TokenFacts DEF RunsInv, Moved,
            Taken, Given, Locks
    <2>7. RunTypes' /\ LocksFit' /\ CallsFit' /\ TokensFit' /\ ShownFits'
      BY RunsAssumption DEF RunTypes, LocksFit, CallsFit, TokensFit, ShownFits, Derived
    <2>8. BindingFits' /\ TunFits' /\ LossFits' /\ UnwantedStops' /\ WantedStarts'
      BY DEF BindingFits, TunFits, LossFits, Loses, UnwantedStops, IsCurrent, WantedStarts
    <2>9. StopsFirst' /\ DeadStartHears' /\ FlagFits' /\ FlagSettles' /\ CoreCloses'
      BY DEF StopsFirst, DeadStartHears, Loses, FlagFits, FlagSettles, CoreCloses
    <2>10. TransitionFits' BY DEF TransitionFits, LocksFit
    <2>11. LossRemembers' /\ DeadRunEnds' /\ FlagRaised'
      BY DEF LossRemembers, Loses, TokensFit, DeadRunEnds, FlagRaised
    <2> QED BY ONLY <2>7, <2>8, <2>9, <2>10, <2>11 DEF RunsInv
  <1>3. CASE IsCurrent(j) /\ ~runtime
    <2>1. PlaceOf(j) = "stop" /\ CoreOf(j) = "none"
      BY <1>3 DEF Stop
    <2>2. Moved(j, "ended", "none", TokenOf(j), BindingOf(j))
      BY <1>3, ToMoves DEF Stop, JobPlaces
    <2>3. UNCHANGED <<latest, transition, shown, runtime, binding, tunRunning, tunUp, isRunning,
          listening, missed, lock>>
      BY <1>3 DEF Stop, intentVars, controlVars, coreVars
    <2>4. lock["transition"] = None
      BY <1>3 DEF Stop, StopWaitsFor
    <2> USE <1>3, <2>1, <2>2, <2>3, <2>4, JobIsNotNone, TokenFacts DEF RunsInv, Moved, Taken,
            Given, Locks
    <2>5. RunTypes' BY DEF RunTypes
    <2>6. LocksFit' /\ CallsFit' /\ TokensFit' /\ TransitionFits'
      BY DEF LocksFit, CallsFit, TokensFit, TransitionFits
    <2>7. ShownFits' /\ BindingFits' /\ TunFits' /\ LossFits' /\ UnwantedStops'
      BY RunsAssumption DEF ShownFits, Derived, BindingFits, TunFits, LossFits, Loses,
         UnwantedStops, IsCurrent
    <2>8. DeadRunEnds' /\ DeadStartHears' /\ FlagFits' /\ CoreCloses'
      BY DEF DeadRunEnds, Loses, DeadStartHears, FlagFits, CoreCloses
    <2>9. LossRemembers' /\ WantedStarts' /\ FlagRaised' /\ FlagSettles'
      BY DEF LossRemembers, Loses, TokensFit, WantedStarts, FlagRaised, FlagSettles
    <2>10. StopsFirst' BY DEF StopsFirst, LocksFit
    <2> QED BY ONLY <2>5, <2>6, <2>7, <2>8, <2>9, <2>10 DEF RunsInv
  <1> QED BY <1>1, <1>2, <1>3

(* The stop goes on to the service.                                        *)
LEMMA TearDownKeepsRuns ==
    ASSUME RunsInv, NEW j \in Jobs, TearDown(j)
    PROVE  RunsInv'
  <1>1. PlaceOf(j) = "teardown" /\ CoreOf(j) = "none"
    BY DEF TearDown
  <1>2. Moved(j, "stopService", "none", TokenOf(j), BindingOf(j))
    BY ToMoves DEF TearDown, JobPlaces
  <1>3. lock["controller"] = None /\ Taken(j, "controller")
    BY TakeTakes DEF TearDown, Locks
  <1>4. UNCHANGED <<latest, transition, shown, runtime, binding, tunRunning, tunUp, isRunning,
        listening, missed>>
    BY DEF TearDown, intentVars, controlVars, coreVars
  <1> USE <1>1, <1>2, <1>3, <1>4, JobIsNotNone, TokenFacts DEF RunsInv, Moved, Taken, Given, Locks
  <1>5. RunTypes' /\ LocksFit' /\ CallsFit' /\ ShownFits' /\ BindingFits'
    BY RunsAssumption DEF RunTypes, LocksFit, CallsFit, ShownFits, Derived, BindingFits
  <1>6. LossFits' /\ UnwantedStops' /\ DeadStartHears' /\ FlagFits' /\ FlagSettles'
    BY DEF LossFits, Loses, UnwantedStops, IsCurrent, DeadStartHears, FlagFits, FlagSettles
  <1>7. CoreCloses' BY DEF CoreCloses
  <1>8. TokensFit' /\ TransitionFits' /\ TunFits'
    BY DEF TokensFit, LocksFit, TransitionFits, TunFits
  <1>9. LossRemembers' /\ WantedStarts' /\ StopsFirst' /\ DeadRunEnds' /\ FlagRaised'
    BY DEF LossRemembers, Loses, TokensFit, WantedStarts, StopsFirst, DeadRunEnds, FlagRaised
  <1> QED BY ONLY <1>5, <1>6, <1>7, <1>8, <1>9 DEF RunsInv

(* The system takes the interface.                                         *)
LEMMA RevokeKeepsRuns ==
    ASSUME RunsInv, NEW j \in Jobs, Revoke(j)
    PROVE  RunsInv'
  <1>1. job[j] = NoJob /\ PlaceOf(j) = "idle" /\ CoreOf(j) = "none"
        /\ \A k \in Jobs : k < j => PlaceOf(k) # "idle"
    BY FreshIsFirst DEF Revoke
  <1>2. Moved(j, "onRevoke", "none", TokenOf(j), BindingOf(j))
    BY ToMoves DEF Revoke, JobPlaces
  <1>3. UNCHANGED <<latest, transition, shown, runtime, binding, tunRunning, isRunning, listening,
        missed, lock>>
    BY DEF Revoke, intentVars, controlVars, coreVars
  <1>4. tunUp /\ tunUp' = FALSE /\ tunUp' \in BOOLEAN
    BY DEF Revoke
  <1> USE <1>1, <1>2, <1>3, <1>4, JobIsNotNone, TokenFacts DEF RunsInv, Moved, Taken, Given, Locks
  <1>5. RunTypes' BY DEF RunTypes
  <1>6. LocksFit' /\ CallsFit' /\ TokensFit' /\ TransitionFits'
    BY DEF LocksFit, CallsFit, TokensFit, TransitionFits
  <1>7. ShownFits' /\ BindingFits' /\ TunFits' /\ LossFits' /\ UnwantedStops'
    BY RunsAssumption DEF ShownFits, Derived, BindingFits, TunFits, LossFits, Loses,
       UnwantedStops, IsCurrent
  <1>8. DeadRunEnds' /\ DeadStartHears' /\ FlagFits' /\ CoreCloses'
    BY DEF DeadRunEnds, Loses, DeadStartHears, FlagFits, CoreCloses
  <1>9. LossRemembers' /\ WantedStarts' /\ StopsFirst' /\ FlagRaised' /\ FlagSettles'
    BY DEF LossRemembers, Loses, TokensFit, WantedStarts, StopsFirst, FlagRaised, FlagSettles
  <1> QED BY ONLY <1>5, <1>6, <1>7, <1>8, <1>9 DEF RunsInv

(* The service stops the TUN it has, if it has one.                        *)
LEMMA OnRevokeKeepsRuns ==
    ASSUME RunsInv, NEW j \in Jobs, OnRevoke(j)
    PROVE  RunsInv'
  <1>1. CASE TunStops(j, "revoked")
    <2>1. PlaceOf(j) = "onRevoke" /\ CoreOf(j) = "none"
      BY <1>1 DEF OnRevoke, TunStops
    <2>2. PICK c \in {"none", "stop"} :
          Moved(j, "revoked", c, TokenOf(j), BindingOf(j)) /\ (c = "stop" <=> isRunning)
      BY <1>1, SetMoves DEF OnRevoke, JobPlaces, Cores, StopIfRunning, TunStops
    <2>3. lock["tun"] = None /\ Taken(j, "tun")
      BY <1>1, TakeTakes DEF OnRevoke, Locks, TunStops
    <2>4. UNCHANGED <<latest, transition, shown, runtime, binding, isRunning, listening, missed>>
      BY <1>1 DEF OnRevoke, intentVars, controlVars, coreVars, TunStops
    <2>5. tunRunning /\ tunRunning' = FALSE /\ tunUp' = FALSE /\ tunRunning' \in BOOLEAN /\ tunUp'
          \in BOOLEAN
      BY <1>1 DEF OnRevoke, TunStops
    <2> USE <1>1, <2>1, <2>2, <2>3, <2>4, <2>5, JobIsNotNone, TokenFacts DEF RunsInv, Moved,
            Taken, Given, Locks
    <2>6. RunTypes' BY DEF RunTypes
    <2>7. LocksFit' /\ CallsFit'
      BY DEF LocksFit, CallsFit
    <2>8. TokensFit' /\ TransitionFits'
      BY DEF TokensFit, TransitionFits
    <2>9. ShownFits' /\ BindingFits' /\ LossFits' /\ UnwantedStops' /\ DeadRunEnds'
      BY RunsAssumption DEF ShownFits, Derived, BindingFits, LossFits, Loses, UnwantedStops,
         IsCurrent, DeadRunEnds
    <2>10. DeadStartHears' /\ FlagFits' /\ FlagSettles' /\ CoreCloses'
      BY DEF DeadStartHears, Loses, FlagFits, FlagSettles, CoreCloses
    <2>11. TunFits' BY DEF TunFits, LocksFit
    <2>12. LossRemembers' /\ WantedStarts' /\ StopsFirst' /\ FlagRaised'
      BY DEF LossRemembers, Loses, TokensFit, WantedStarts, StopsFirst, FlagRaised
    <2> QED BY ONLY <2>6, <2>7, <2>8, <2>9, <2>10, <2>11, <2>12 DEF RunsInv
  <1>2. CASE ~TunStops(j, "revoked")
    <2>1. PlaceOf(j) = "onRevoke" /\ CoreOf(j) = "none"
      BY <1>2 DEF OnRevoke
    <2>2. Moved(j, "revokeAction", "none", TokenOf(j), BindingOf(j))
      BY <1>2, ToMoves DEF OnRevoke, JobPlaces
    <2>3. lock["tun"] = None /\ lock' = lock
      BY <1>2 DEF OnRevoke
    <2>4. UNCHANGED <<latest, transition, shown, runtime, binding, tunRunning, tunUp, isRunning,
          listening, missed>>
      BY <1>2 DEF OnRevoke, intentVars, controlVars, coreVars
    <2>5. ~tunRunning
      BY <1>2 DEF OnRevoke
    <2> USE <1>2, <2>1, <2>2, <2>3, <2>4, <2>5, JobIsNotNone, TokenFacts DEF RunsInv, Moved,
            Taken, Given, Locks
    <2>6. RunTypes' /\ LocksFit' /\ CallsFit' /\ TokensFit' /\ TransitionFits'
      BY DEF RunTypes, LocksFit, CallsFit, TokensFit, TransitionFits
    <2>7. ShownFits' /\ BindingFits' /\ TunFits' /\ LossFits' /\ UnwantedStops'
      BY RunsAssumption DEF ShownFits, Derived, BindingFits, TunFits, LossFits, Loses,
         UnwantedStops, IsCurrent
    <2>8. DeadRunEnds' /\ DeadStartHears' /\ FlagFits' /\ CoreCloses'
      BY DEF DeadRunEnds, Loses, DeadStartHears, FlagFits, CoreCloses
    <2>9. LossRemembers' /\ WantedStarts' /\ StopsFirst' /\ FlagRaised' /\ FlagSettles'
      BY DEF LossRemembers, Loses, TokensFit, WantedStarts, StopsFirst, FlagRaised, FlagSettles
    <2> QED BY ONLY <2>6, <2>7, <2>8, <2>9 DEF RunsInv
  <1> QED BY <1>1, <1>2 

(* A service is lost, and its TUN with it.                                 *)
LEMMA ServiceEndsKeepsRuns ==
    ASSUME RunsInv, NEW j \in Jobs, ServiceEnds(j)
    PROVE  RunsInv'
  <1>1. job[j] = NoJob /\ PlaceOf(j) = "idle" /\ CoreOf(j) = "none"
        /\ \A k \in Jobs : k < j => PlaceOf(k) # "idle"
    BY FreshIsFirst DEF ServiceEnds
  <1>2. PICK c \in {"none", "stop"} :
        Moved(j, "disconnected", c, TokenOf(j), BindingOf(j)) /\ (c = "stop" <=> isRunning)
    BY SetMoves DEF ServiceEnds, JobPlaces, Cores, StopIfRunning, TunStops
  <1>3. lock["tun"] = None /\ Taken(j, "tun")
    BY TakeTakes DEF ServiceEnds, Locks, TunStops
  <1>4. UNCHANGED <<latest, transition, shown, runtime, binding, isRunning, listening, missed>>
    BY DEF ServiceEnds, intentVars, controlVars, coreVars, TunStops
  <1>5. tunRunning /\ tunRunning' = FALSE /\ tunUp' = FALSE /\ tunRunning' \in BOOLEAN /\ tunUp'
        \in BOOLEAN
    BY DEF ServiceEnds, TunStops
  <1> USE <1>1, <1>2, <1>3, <1>4, <1>5, JobIsNotNone, TokenFacts DEF RunsInv, Moved, Taken, Given,
          Locks
  <1>6. RunTypes' /\ LocksFit' /\ CallsFit' /\ TokensFit' /\ TransitionFits'
    BY DEF RunTypes, LocksFit, CallsFit, TokensFit, TransitionFits
  <1>7. ShownFits' /\ BindingFits' /\ UnwantedStops' /\ DeadRunEnds' /\ DeadStartHears'
    BY RunsAssumption DEF ShownFits, Derived, BindingFits, UnwantedStops, IsCurrent, DeadRunEnds,
       Loses, DeadStartHears
  <1>8. FlagFits' /\ FlagSettles' /\ CoreCloses'
    BY DEF FlagFits, FlagSettles, CoreCloses
  <1>9. TunFits' BY DEF TunFits, LocksFit
  <1>10. LossFits' BY DEF LossFits, Loses, TunFits, TransitionFits, LocksFit, BindingFits
  <1>11. LossRemembers' /\ WantedStarts' /\ StopsFirst' /\ FlagRaised'
    BY DEF LossRemembers, Loses, TokensFit, WantedStarts, StopsFirst, FlagRaised
  <1> QED BY ONLY <1>6, <1>7, <1>8, <1>9, <1>10, <1>11 DEF RunsInv

(* The revocation is passed on.                                            *)
LEMMA NotifyRevokedKeepsRuns ==
    ASSUME RunsInv, NEW j \in Jobs, NotifyRevoked(j)
    PROVE  RunsInv'
  <1>1. PlaceOf(j) = "revoked" /\ CoreOf(j) = "none"
    BY DEF NotifyRevoked
  <1>2. Moved(j, "revokeAction", "none", TokenOf(j), BindingOf(j))
    BY ToMoves DEF NotifyRevoked, JobPlaces
  <1>3. Given({"tun"})
    BY GiveGives DEF NotifyRevoked
  <1>4. UNCHANGED <<latest, transition, shown, runtime, binding, tunRunning, tunUp, isRunning,
        listening, missed>>
    BY DEF NotifyRevoked, intentVars, controlVars, coreVars
  <1> USE <1>1, <1>2, <1>3, <1>4, JobIsNotNone, TokenFacts DEF RunsInv, Moved, Taken, Given, Locks
  <1>5. RunTypes' /\ LocksFit' /\ CallsFit' /\ TokensFit' /\ TransitionFits'
    BY DEF RunTypes, LocksFit, CallsFit, TokensFit, TransitionFits
  <1>6. ShownFits' /\ BindingFits' /\ TunFits' /\ LossFits' /\ UnwantedStops'
    BY RunsAssumption DEF ShownFits, Derived, BindingFits, TunFits, LossFits, Loses,
       UnwantedStops, IsCurrent
  <1>7. DeadRunEnds' /\ DeadStartHears' /\ FlagFits' /\ CoreCloses'
    BY DEF DeadRunEnds, Loses, DeadStartHears, FlagFits, CoreCloses
  <1>8. LossRemembers' /\ WantedStarts' /\ StopsFirst' /\ FlagRaised' /\ FlagSettles'
    BY DEF LossRemembers, Loses, TokensFit, WantedStarts, StopsFirst, FlagRaised, FlagSettles
  <1> QED BY ONLY <1>5, <1>6, <1>7, <1>8 DEF RunsInv

(* It becomes a stop of the run, unless it came too soon, which missed     *)
(* marks.                                                                  *)
LEMMA RevokeActionKeepsRuns ==
    ASSUME RunsInv, NEW j \in Jobs, RevokeAction(j)
    PROVE  RunsInv'
  <1>1. CASE runtime /\ latest.running
    <2>1. PlaceOf(j) = "revokeAction" /\ CoreOf(j) = "none"
      BY <1>1 DEF RevokeAction
    <2>2. Moved(j, "claimStop", "none", TokenOf(j), BindingOf(j))
      BY <1>1, ToMoves DEF RevokeAction, JobPlaces
    <2>3. UNCHANGED <<latest, transition, shown, runtime, binding, tunRunning, tunUp, isRunning,
          listening, lock>>
      BY <1>1 DEF RevokeAction, intentVars, controlVars, coreVars
    <2>4. missed' \in BOOLEAN /\ (~missed' => ~missed /\ (runtime \/ tunUp \/ \A k \in Jobs :
          PlaceOf(k) \notin {"adopt", "established", "running"}))
      BY <1>1 DEF RevokeAction, Miss, HeardTooSoon
    <2> USE <1>1, <2>1, <2>2, <2>3, <2>4, JobIsNotNone, TokenFacts DEF RunsInv, Moved, Taken,
            Given, Locks
    <2>5. RunTypes' BY DEF RunTypes
    <2>6. LocksFit' /\ CallsFit'
      BY DEF LocksFit, CallsFit
    <2>7. TokensFit' /\ TransitionFits'
      BY DEF TokensFit, TransitionFits
    <2>8. ShownFits' /\ BindingFits' /\ TunFits' /\ LossFits' /\ UnwantedStops'
      BY RunsAssumption DEF ShownFits, Derived, BindingFits, TunFits, LossFits, Loses,
         UnwantedStops, IsCurrent
    <2>9. WantedStarts' /\ DeadRunEnds' /\ FlagFits' /\ CoreCloses'
      BY DEF WantedStarts, DeadRunEnds, Loses, FlagFits, CoreCloses
    <2>10. LossRemembers' /\ StopsFirst' /\ FlagRaised' /\ FlagSettles'
      BY DEF LossRemembers, Loses, TokensFit, StopsFirst, FlagRaised, FlagSettles
    <2>11. DeadStartHears' BY DEF DeadStartHears, Loses, TransitionFits
    <2> QED BY ONLY <2>5, <2>6, <2>7, <2>8, <2>9, <2>10, <2>11 DEF RunsInv
  <1>2. CASE ~(runtime /\ latest.running)
    <2>1. PlaceOf(j) = "revokeAction" /\ CoreOf(j) = "none"
      BY <1>2 DEF RevokeAction
    <2>2. Moved(j, "ended", "none", TokenOf(j), BindingOf(j))
      BY <1>2, ToMoves DEF RevokeAction, JobPlaces
    <2>3. UNCHANGED <<latest, transition, shown, runtime, binding, tunRunning, tunUp, isRunning,
          listening, lock>>
      BY <1>2 DEF RevokeAction, intentVars, controlVars, coreVars
    <2>4. missed' \in BOOLEAN /\ (~missed' => ~missed /\ (runtime \/ tunUp \/ \A k \in Jobs :
          PlaceOf(k) \notin {"adopt", "established", "running"}))
      BY <1>2 DEF RevokeAction, Miss, HeardTooSoon
    <2> USE <1>2, <2>1, <2>2, <2>3, <2>4, JobIsNotNone, TokenFacts DEF RunsInv, Moved, Taken,
            Given, Locks
    <2>5. RunTypes' BY DEF RunTypes
    <2>6. LocksFit' /\ CallsFit' /\ TokensFit' /\ TransitionFits'
      BY DEF LocksFit, CallsFit, TokensFit, TransitionFits
    <2>7. ShownFits' /\ BindingFits' /\ TunFits' /\ LossFits' /\ UnwantedStops'
      BY RunsAssumption DEF ShownFits, Derived, BindingFits, TunFits, LossFits, Loses,
         UnwantedStops, IsCurrent
    <2>8. DeadRunEnds' /\ FlagFits' /\ CoreCloses'
      BY DEF DeadRunEnds, Loses, FlagFits, CoreCloses
    <2>9. LossRemembers' /\ WantedStarts' /\ StopsFirst' /\ FlagRaised' /\ FlagSettles'
      BY DEF LossRemembers, Loses, TokensFit, WantedStarts, StopsFirst, FlagRaised, FlagSettles
    <2>10. DeadStartHears' BY DEF DeadStartHears, Loses, TransitionFits
    <2> QED BY ONLY <2>5, <2>6, <2>7, <2>8, <2>9, <2>10 DEF RunsInv
  <1> QED BY <1>1, <1>2

(* The loss remembers the newest token and the binding.                    *)
LEMMA DisconnectedKeepsRuns ==
    ASSUME RunsInv, NEW j \in Jobs, Disconnected(j)
    PROVE  RunsInv'
  <1>1. PlaceOf(j) = "disconnected" /\ CoreOf(j) = "none"
    BY DEF Disconnected
  <1>2. Moved(j, "lost", "none", latest, binding)
    BY <1>1, LostMoves DEF Disconnected
  <1>3. Given({"tun"})
    BY GiveGives DEF Disconnected
  <1>4. UNCHANGED <<latest, transition, shown, runtime, binding, tunRunning, tunUp, isRunning,
        listening, missed>>
    BY DEF Disconnected, intentVars, controlVars, coreVars
  <1> USE <1>1, <1>2, <1>3, <1>4, JobIsNotNone, TokenFacts DEF RunsInv, Moved, Taken, Given, Locks
  <1>5. RunTypes' /\ LocksFit' /\ CallsFit' /\ TransitionFits' /\ ShownFits'
    BY RunsAssumption DEF RunTypes, LocksFit, CallsFit, TransitionFits, ShownFits, Derived
  <1>6. BindingFits' /\ TunFits' /\ UnwantedStops' /\ FlagFits' /\ CoreCloses'
    BY DEF BindingFits, TunFits, UnwantedStops, IsCurrent, FlagFits, CoreCloses
  <1>7. TokensFit' BY DEF TokensFit, RunTypes, CallsFit
  <1>8. LossFits' BY DEF LossFits, Loses, TunFits, TransitionFits, LocksFit, BindingFits
  <1>9. LossRemembers' /\ WantedStarts' /\ StopsFirst' /\ FlagRaised' /\ FlagSettles'
    BY DEF LossRemembers, Loses, TokensFit, WantedStarts, StopsFirst, FlagRaised, FlagSettles
  <1>10. DeadRunEnds' BY DEF DeadRunEnds, Loses, BindingFits, LocksFit, TokensFit
  <1>11. DeadStartHears' BY DEF DeadStartHears, Loses, BindingFits, LocksFit, TokensFit
  <1> QED BY ONLY <1>5, <1>6, <1>7, <1>8, <1>9, <1>10, <1>11 DEF RunsInv

(* The binding that was lost ends its run; another one is left alone.      *)
LEMMA LoseBindingKeepsRuns ==
    ASSUME RunsInv, NEW j \in Jobs, LoseBinding(j)
    PROVE  RunsInv'
  <1>1. CASE binding # None /\ binding = job[j].binding
    <2>1. PlaceOf(j) = "lost" /\ CoreOf(j) = "none"
      BY <1>1 DEF LoseBinding
    <2>2. PICK c \in {"none", "stop"} :
          Moved(j, "released", c, TokenOf(j), BindingOf(j)) /\ (c = "stop" <=> isRunning)
      BY <1>1, SetMoves DEF LoseBinding, JobPlaces, Cores, StopIfRunning
    <2>3. lock["controller"] = None /\ Taken(j, "controller")
      BY <1>1, TakeTakes DEF LoseBinding, Locks
    <2>4. UNCHANGED <<latest, transition, shown, tunRunning, tunUp, isRunning, listening, missed>>
      BY <1>1 DEF LoseBinding, intentVars, controlVars, coreVars
    <2>5. runtime' = FALSE /\ binding' = None /\ runtime' \in BOOLEAN
      BY <1>1 DEF LoseBinding
    <2> USE <1>1, <2>1, <2>2, <2>3, <2>4, <2>5, JobIsNotNone, TokenFacts DEF RunsInv, Moved,
            Taken, Given, Locks
    <2>6. RunTypes' BY DEF RunTypes
    <2>7. LocksFit' /\ CallsFit' /\ TokensFit' /\ TransitionFits'
      BY DEF LocksFit, CallsFit, TokensFit, TransitionFits
    <2>8. ShownFits' /\ LossFits' /\ LossRemembers' /\ UnwantedStops' /\ DeadRunEnds'
      BY RunsAssumption DEF ShownFits, Derived, LossFits, Loses, LossRemembers, UnwantedStops,
         IsCurrent, DeadRunEnds
    <2>9. FlagFits' /\ FlagSettles' /\ CoreCloses'
      BY DEF FlagFits, FlagSettles, CoreCloses
    <2>10. BindingFits' /\ DeadStartHears'
      BY DEF BindingFits, LocksFit, DeadStartHears, Loses
    <2>11. TunFits' BY DEF TunFits, LossFits, Loses, LocksFit, BindingFits
    <2>12. WantedStarts' BY DEF WantedStarts, LossRemembers, Loses, TokensFit
    <2>13. StopsFirst' /\ FlagRaised'
      BY DEF StopsFirst, TokensFit, FlagRaised
    <2> QED BY ONLY <2>6, <2>7, <2>8, <2>9, <2>10, <2>11, <2>12, <2>13 DEF RunsInv
  <1>2. CASE ~(binding # None /\ binding = job[j].binding)
    <2>1. PlaceOf(j) = "lost" /\ CoreOf(j) = "none"
      BY <1>2 DEF LoseBinding
    <2>2. Moved(j, "ended", "none", TokenOf(j), BindingOf(j))
      BY <1>2, ToMoves DEF LoseBinding, JobPlaces
    <2>3. lock["controller"] = None /\ lock' = lock
      BY <1>2 DEF LoseBinding
    <2>4. UNCHANGED <<latest, transition, shown, runtime, binding, tunRunning, tunUp, isRunning,
          listening, missed>>
      BY <1>2 DEF LoseBinding, intentVars, controlVars, coreVars
    <2> USE <1>2, <2>1, <2>2, <2>3, <2>4, JobIsNotNone, TokenFacts DEF RunsInv, Moved, Taken,
            Given, Locks
    <2>5. RunTypes' /\ LocksFit' /\ CallsFit' /\ TokensFit' /\ TransitionFits'
      BY DEF RunTypes, LocksFit, CallsFit, TokensFit, TransitionFits
    <2>6. ShownFits' /\ BindingFits' /\ TunFits' /\ LossFits' /\ UnwantedStops'
      BY RunsAssumption DEF ShownFits, Derived, BindingFits, TunFits, LossFits, Loses,
         UnwantedStops, IsCurrent
    <2>7. DeadStartHears' /\ FlagFits' /\ CoreCloses'
      BY DEF DeadStartHears, Loses, FlagFits, CoreCloses
    <2>8. LossRemembers' /\ WantedStarts' /\ StopsFirst' /\ DeadRunEnds' /\ FlagRaised'
      BY DEF LossRemembers, Loses, TokensFit, WantedStarts, StopsFirst, DeadRunEnds, FlagRaised
    <2>9. FlagSettles' BY DEF FlagSettles, TokensFit
    <2> QED BY ONLY <2>5, <2>6, <2>7, <2>8, <2>9 DEF RunsInv
  <1> QED BY <1>1, <1>2

(* The intent of the lost run is settled next.                             *)
LEMMA ReleasedKeepsRuns ==
    ASSUME RunsInv, NEW j \in Jobs, Released(j)
    PROVE  RunsInv'
  <1>1. PlaceOf(j) = "released" /\ CoreOf(j) = "none"
    BY DEF Released
  <1>2. Moved(j, "settle", "none", TokenOf(j), BindingOf(j))
    BY ToMoves DEF Released, JobPlaces
  <1>3. Given({"controller"})
    BY GiveGives DEF Released
  <1>4. UNCHANGED <<latest, transition, shown, runtime, binding, tunRunning, tunUp, isRunning,
        listening, missed>>
    BY DEF Released, intentVars, controlVars, coreVars
  <1> USE <1>1, <1>2, <1>3, <1>4, JobIsNotNone, TokenFacts DEF RunsInv, Moved, Taken, Given, Locks
  <1>5. RunTypes' /\ LocksFit' /\ CallsFit' /\ TokensFit' /\ TransitionFits'
    BY DEF RunTypes, LocksFit, CallsFit, TokensFit, TransitionFits
  <1>6. ShownFits' /\ BindingFits' /\ TunFits' /\ LossFits' /\ UnwantedStops'
    BY RunsAssumption DEF ShownFits, Derived, BindingFits, TunFits, LossFits, Loses,
       UnwantedStops, IsCurrent
  <1>7. DeadStartHears' /\ FlagFits' /\ CoreCloses'
    BY DEF DeadStartHears, Loses, FlagFits, CoreCloses
  <1>8. LossRemembers' /\ WantedStarts' /\ StopsFirst' /\ DeadRunEnds' /\ FlagRaised'
    BY DEF LossRemembers, Loses, TokensFit, WantedStarts, StopsFirst, DeadRunEnds, FlagRaised
  <1>9. FlagSettles' BY DEF FlagSettles, TokensFit
  <1> QED BY ONLY <1>5, <1>6, <1>7, <1>8, <1>9 DEF RunsInv

(* It is taken back, unless a newer request came.                          *)
LEMMA ServiceLostKeepsRuns ==
    ASSUME RunsInv, NEW j \in Jobs, ServiceLost(j)
    PROVE  RunsInv'
  <1>1. CASE runtime
    <2>1. PlaceOf(j) = "settle" /\ CoreOf(j) = "none"
      BY <1>1 DEF ServiceLost
    <2>2. Moved(j, "ended", "none", TokenOf(j), BindingOf(j))
      BY <1>1, ToMoves DEF ServiceLost, JobPlaces
    <2>3. UNCHANGED <<latest, transition, shown, runtime, binding, tunRunning, tunUp, isRunning,
          listening, missed, lock>>
      BY <1>1 DEF ServiceLost, intentVars, controlVars, coreVars
    <2>4. lock["transition"] = None
      BY <1>1 DEF ServiceLost
    <2> USE <1>1, <2>1, <2>2, <2>3, <2>4, JobIsNotNone, TokenFacts DEF RunsInv, Moved, Taken,
            Given, Locks
    <2>5. RunTypes' BY DEF RunTypes
    <2>6. LocksFit' /\ CallsFit' /\ TokensFit' /\ TransitionFits'
      BY DEF LocksFit, CallsFit, TokensFit, TransitionFits
    <2>7. ShownFits' /\ BindingFits' /\ TunFits' /\ LossFits' /\ UnwantedStops'
      BY RunsAssumption DEF ShownFits, Derived, BindingFits, TunFits, LossFits, Loses,
         UnwantedStops, IsCurrent
    <2>8. WantedStarts' /\ DeadStartHears' /\ FlagFits' /\ CoreCloses'
      BY DEF WantedStarts, DeadStartHears, Loses, FlagFits, CoreCloses
    <2>9. LossRemembers' /\ DeadRunEnds' /\ FlagRaised' /\ FlagSettles'
      BY DEF LossRemembers, Loses, TokensFit, DeadRunEnds, FlagRaised, FlagSettles
    <2>10. StopsFirst' BY DEF StopsFirst, LocksFit
    <2> QED BY ONLY <2>5, <2>6, <2>7, <2>8, <2>9, <2>10 DEF RunsInv
  <1>2. CASE ~runtime /\ IsCurrent(j)
    <2>1. PlaceOf(j) = "settle" /\ CoreOf(j) = "none"
      BY <1>2 DEF ServiceLost
    <2>2. Moved(j, "ended", "none", TokenOf(j), BindingOf(j))
      BY <1>2, ToMoves DEF ServiceLost, JobPlaces
    <2>3. UNCHANGED <<transition, runtime, binding, tunRunning, tunUp, isRunning, listening,
          missed, lock>>
      BY <1>2 DEF ServiceLost, intentVars, controlVars, coreVars
    <2>4. latest' = [by |-> latest.by, running |-> FALSE, reset |-> TRUE]
      BY <1>2 DEF ServiceLost, ResetToStopped, IsCurrent
    <2>5. latest' \in Tokens /\ latest'.running = FALSE /\ latest'.by = latest.by
      BY <1>2, <2>4 DEF RunsInv, RunTypes, Tokens
    <2>6. lock["transition"] = None
      BY <1>2 DEF ServiceLost
    <2>7. shown' = Derived(transition, runtime, FALSE)
      BY <1>2, <2>4 DEF ServiceLost, Publish
    <2> USE <1>2, <2>1, <2>2, <2>3, <2>5, <2>6, <2>7, JobIsNotNone, TokenFacts DEF RunsInv, Moved,
            Taken, Given, Locks
    <2>8. RunTypes' /\ LocksFit' /\ CallsFit' /\ TokensFit' /\ TransitionFits'
      BY DEF RunTypes, LocksFit, CallsFit, TokensFit, TransitionFits
    <2>9. ShownFits' /\ BindingFits' /\ TunFits' /\ LossFits' /\ LossRemembers'
      BY RunsAssumption DEF ShownFits, Derived, BindingFits, TunFits, LossFits, Loses,
         LossRemembers
    <2>10. UnwantedStops' /\ WantedStarts' /\ StopsFirst'
      BY DEF UnwantedStops, IsCurrent, WantedStarts, StopsFirst
    <2>11. DeadRunEnds' /\ DeadStartHears'
      BY DEF DeadRunEnds, Loses, DeadStartHears
    <2>12. FlagFits' /\ CoreCloses'
      BY DEF FlagFits, CoreCloses
    <2>13. FlagRaised' /\ FlagSettles'
      BY DEF FlagRaised, TokensFit, FlagSettles
    <2> QED BY ONLY <2>8, <2>9, <2>10, <2>11, <2>12, <2>13 DEF RunsInv
  <1>3. CASE ~runtime /\ ~IsCurrent(j)
    <2>1. PlaceOf(j) = "settle" /\ CoreOf(j) = "none"
      BY <1>3 DEF ServiceLost, ResetToStopped, IsCurrent
    <2>2. Moved(j, "ended", "none", TokenOf(j), BindingOf(j))
      BY <1>3, ToMoves DEF ServiceLost, JobPlaces, ResetToStopped, IsCurrent
    <2>3. UNCHANGED <<latest, transition, runtime, binding, tunRunning, tunUp, isRunning,
          listening, missed, lock>>
      BY <1>3 DEF ServiceLost, intentVars, controlVars, coreVars, ResetToStopped, IsCurrent
    <2>4. lock["transition"] = None
      BY <1>3 DEF ServiceLost
    <2>5. shown' = Derived(transition, runtime, latest.running)
      BY <1>3 DEF ServiceLost, Publish, ResetToStopped, IsCurrent
    <2> USE <1>3, <2>1, <2>2, <2>3, <2>4, <2>5, JobIsNotNone, TokenFacts DEF RunsInv, Moved,
            Taken, Given, Locks
    <2>6. RunTypes' BY DEF RunTypes
    <2>7. LocksFit' /\ CallsFit' /\ TokensFit' /\ TransitionFits'
      BY DEF LocksFit, CallsFit, TokensFit, TransitionFits
    <2>8. ShownFits' /\ BindingFits' /\ TunFits' /\ LossFits' /\ UnwantedStops'
      BY RunsAssumption DEF ShownFits, Derived, BindingFits, TunFits, LossFits, Loses,
         UnwantedStops, IsCurrent
    <2>9. DeadRunEnds' /\ DeadStartHears' /\ FlagFits' /\ CoreCloses'
      BY DEF DeadRunEnds, Loses, DeadStartHears, FlagFits, CoreCloses
    <2>10. LossRemembers' /\ FlagRaised' /\ FlagSettles'
      BY DEF LossRemembers, Loses, TokensFit, FlagRaised, FlagSettles
    <2>11. WantedStarts' BY DEF WantedStarts, TokensFit, IsCurrent, LocksFit
    <2>12. StopsFirst' BY DEF StopsFirst, LocksFit
    <2> QED BY ONLY <2>6, <2>7, <2>8, <2>9, <2>10, <2>11, <2>12 DEF RunsInv
  <1> QED BY <1>1, <1>2, <1>3

(* Flutter asks for a stop: a command that closes the core and the stop of *)
(* the service, which has the newest token.                                *)
LEMMA FlutterStopKeepsRuns ==
    ASSUME RunsInv, NEW j \in Jobs, NEW i \in Jobs, FlutterStop(j, i)
    PROVE  RunsInv'
  <1>1. job[j] = NoJob /\ PlaceOf(j) = "idle" /\ CoreOf(j) = "none"
        /\ \A k \in Jobs : k < j => PlaceOf(k) # "idle"
    BY FreshIsFirst DEF FlutterStop
  <1>2. i = j + 1 /\ i # j /\ PlaceOf(i) = "idle" /\ CoreOf(i) = "none"
    BY <1>1, JobIsNotNone DEF FlutterStop, RunsInv, RunTypes, NoJob, Jobs
  <1>3. latest' = StopToken(i)
    BY DEF FlutterStop, Request, StopToken
  <1>4. shown' = Derived(transition, runtime, FALSE)
    BY DEF FlutterStop, Request, Publish
  <1>5. TwoJobs(j, i)
    BY <1>3 DEF FlutterStop, TwoJobs
  <1>6. /\ job' \in [Jobs -> JobRecords]
        /\ job'[j].at = "flutterStopped" /\ job'[j].core = "stop"
        /\ job'[i].at = "stop" /\ job'[i].core = "none" /\ job'[i].token = StopToken(i)
        /\ \A k \in Jobs : k # j /\ k # i => job'[k] = job[k]
    BY <1>2, <1>5, TwoMove
  <1>7. lock["flutter"] = None /\ Taken(j, "flutter")
    BY TakeTakes DEF FlutterStop, Locks
  <1>8. UNCHANGED <<transition, runtime, binding, tunRunning, tunUp, isRunning, listening,
        missed>>
    BY DEF FlutterStop, intentVars, controlVars, coreVars
  <1> USE <1>1, <1>2, <1>3, <1>4, <1>5, <1>6, <1>7, <1>8, JobIsNotNone, TokenFacts DEF RunsInv,
          Moved, Taken, Given, Locks
  <1>9. RunTypes' BY DEF RunTypes
  <1>10. LocksFit' /\ CallsFit'
    BY DEF LocksFit, CallsFit
  <1>11. TokensFit' /\ TransitionFits'
    BY DEF TokensFit, TransitionFits
  <1>12. ShownFits' /\ BindingFits' /\ TunFits'
    BY RunsAssumption DEF ShownFits, Derived, BindingFits, TunFits
  <1>13. LossFits' /\ LossRemembers'
    BY DEF LossFits, Loses, LossRemembers
  <1>14. UnwantedStops' /\ WantedStarts' /\ StopsFirst' /\ DeadRunEnds' /\ DeadStartHears'
    BY DEF UnwantedStops, IsCurrent, WantedStarts, StopsFirst, DeadRunEnds, Loses, DeadStartHears
  <1>15. FlagFits' /\ FlagSettles' /\ CoreCloses'
    BY DEF FlagFits, FlagSettles, CoreCloses
  <1>16. FlagRaised' BY DEF FlagRaised, TokensFit
  <1> QED BY ONLY <1>9, <1>10, <1>11, <1>12, <1>13, <1>14, <1>15, <1>16 DEF RunsInv

(* Before any job has come nothing is wanted and nothing is there.         *)
LEMMA InitKeepsRuns == RInit => RunsInv
  <1> SUFFICES ASSUME RInit PROVE RunsInv
    OBVIOUS
  <1>1. /\ latest = NoToken /\ transition = None /\ shown = "STOPPED"
        /\ runtime = FALSE /\ binding = None
        /\ tunRunning = FALSE /\ tunUp = FALSE /\ isRunning = FALSE /\ listening = FALSE
        /\ missed = FALSE
        /\ lock = [l \in Locks |-> None] /\ job = [j \in Jobs |-> NoJob]
    BY DEF RInit, Init
  <1>2. \A j \in Jobs : job[j] = NoJob /\ job[j].at = "idle" /\ job[j].core = "none"
    BY <1>1 DEF NoJob
  <1>3. latest.running = FALSE /\ latest \in Tokens
    BY <1>1 DEF NoToken, Tokens
  <1>4. NoJob \in JobRecords
    BY DEF NoJob, JobRecords, JobPlaces, Cores
  <1> USE <1>1, <1>2, <1>3, JobIsNotNone DEF Locks
  <1>5. RunTypes BY <1>4 DEF RunTypes
  <1>6. LocksFit /\ CallsFit /\ TokensFit /\ TransitionFits
    BY DEF LocksFit, CallsFit, TokensFit, TransitionFits
  <1>7. ShownFits /\ BindingFits /\ TunFits /\ LossFits /\ LossRemembers
    BY DEF ShownFits, Derived, BindingFits, TunFits, LossFits, Loses, LossRemembers
  <1>8. UnwantedStops /\ WantedStarts /\ StopsFirst /\ DeadRunEnds /\ DeadStartHears
    BY DEF UnwantedStops, WantedStarts, StopsFirst, DeadRunEnds, DeadStartHears
  <1>9. FlagFits /\ FlagRaised /\ FlagSettles /\ CoreCloses
    BY DEF FlagFits, FlagRaised, FlagSettles, CoreCloses
  <1> QED BY ONLY <1>5, <1>6, <1>7, <1>8, <1>9 DEF RunsInv

(* A step that touches no run keeps what is said of them.                  *)
LEMMA QuietKeepsRuns ==
    ASSUME RunsInv, UNCHANGED <<runVars, isRunning>>
    PROVE  RunsInv'
  <1>1. UNCHANGED <<latest, transition, shown, runtime, binding, tunRunning, tunUp,
                    isRunning, listening, lock, job, missed>>
    BY DEF runVars, intentVars, controlVars
  <1> USE <1>1 DEF RunsInv
  <1>2. RunTypes' /\ LocksFit' /\ CallsFit' /\ TokensFit' /\ TransitionFits'
    BY DEF RunTypes, LocksFit, CallsFit, TokensFit, TransitionFits
  <1>3. ShownFits' /\ BindingFits' /\ TunFits' /\ LossFits' /\ LossRemembers'
    BY DEF ShownFits, BindingFits, TunFits, LossFits, Loses, LossRemembers
  <1>4. UnwantedStops' /\ WantedStarts' /\ StopsFirst' /\ DeadRunEnds' /\ DeadStartHears'
    BY DEF UnwantedStops, IsCurrent, WantedStarts, StopsFirst, DeadRunEnds, DeadStartHears, Loses
  <1>5. FlagFits' /\ FlagRaised' /\ FlagSettles' /\ CoreCloses'
    BY DEF FlagFits, FlagRaised, FlagSettles, CoreCloses
  <1> QED BY ONLY <1>2, <1>3, <1>4, <1>5 DEF RunsInv

(* An engine that goes gives up what it had asked the user, gives its lock *)
(* back and leaves its call of the core behind, which missed marks.        *)
LEMMA DetachKeepsRuns ==
    ASSUME RunsInv, Detach
    PROVE  RunsInv'
  <1> DEFINE Cut(j) == lock["flutter"] = j
  <1>1. /\ \A j \in Jobs : j \in Asked => PlaceOf(j) \in {"permission", "prompt"}
        /\ Asked \subseteq Jobs
    BY DEF Asked
  <1>2. /\ job \in [Jobs -> JobRecords] /\ lock \in [Locks -> Jobs \cup {None}]
        /\ \A j \in Jobs : Cut(j) <=> PlaceOf(j) \in FlutterPlaces
    BY DEF RunsInv, RunTypes, LocksFit, Locks
  <1>3. /\ job' \in [Jobs -> JobRecords]
        /\ \A j \in Jobs :
            /\ CoreOf(j)' = CoreOf(j) /\ TokenOf(j)' = TokenOf(j) /\ BindingOf(j)' = BindingOf(j)
            /\ j \in Asked => PlaceOf(j)' = "drop"
            /\ Cut(j) => PlaceOf(j)' = "ended"
            /\ j \notin Asked /\ ~Cut(j) => job'[j] = job[j]
    <2>1. "drop" \in JobPlaces /\ "ended" \in JobPlaces
      BY DEF JobPlaces
    <2>2. \A j \in Jobs : ~(j \in Asked /\ Cut(j))
      BY <1>1, <1>2
    <2>3. \A j \in Jobs :
            /\ [job[j] EXCEPT !.at = "drop"] \in JobRecords
            /\ [job[j] EXCEPT !.at = "ended"] \in JobRecords
      BY <1>2, <2>1 DEF JobRecords
    <2>4. job' = [j \in Jobs |->
                    IF j \in Asked THEN [job[j] EXCEPT !.at = "drop"]
                    ELSE IF Cut(j) THEN [job[j] EXCEPT !.at = "ended"] ELSE job[j]]
      BY DEF Detach
    <2>5. \A j \in Jobs :
            /\ [job[j] EXCEPT !.at = "drop"].at = "drop"
            /\ [job[j] EXCEPT !.at = "ended"].at = "ended"
            /\ \A at : /\ [job[j] EXCEPT !.at = at].core = job[j].core
                       /\ [job[j] EXCEPT !.at = at].token = job[j].token
                       /\ [job[j] EXCEPT !.at = at].binding = job[j].binding
      BY <1>2 DEF JobRecords
    <2> HIDE DEF Cut
    <2>6. job' \in [Jobs -> JobRecords]
      BY <1>2, <2>3, <2>4
    <2> QED BY <2>2, <2>4, <2>5, <2>6
  <1>4. /\ Given({"flutter"} \cup {l \in {"preparation"} : lock[l] \in Asked})
        /\ missed' \in BOOLEAN /\ (~missed' => ~missed /\ \A j \in Jobs : ~Cut(j))
        /\ missed => missed'
        /\ \A j \in Jobs : Cut(j) => missed'
    BY GiveGives, JobIsNotNone DEF Detach, Miss, CutShort, RunsInv, RunTypes
  <1>5. UNCHANGED <<latest, transition, shown, runtime, binding, tunRunning, tunUp,
                    isRunning, listening>>
    BY DEF Detach, controlVars, coreVars
  <1> USE <1>1, <1>2, <1>3, <1>4, <1>5, JobIsNotNone, TokenFacts DEF RunsInv, Given, Locks
  <1>6. RunTypes' BY DEF RunTypes, JobRecords
  <1>7. LocksFit' BY DEF LocksFit
  <1>8. CallsFit' BY DEF CallsFit
  <1>9. TokensFit' /\ TransitionFits' BY DEF TokensFit, TransitionFits, LocksFit
  <1>10. ShownFits' /\ BindingFits' BY DEF ShownFits, Derived, BindingFits, LocksFit
  <1>11. TunFits' BY DEF TunFits, LocksFit
  <1>12. LossFits' BY DEF LossFits, Loses
  <1>13. LossRemembers' BY DEF LossRemembers, Loses, TokensFit
  <1>14. UnwantedStops' BY DEF UnwantedStops, IsCurrent
  <1>15. WantedStarts' BY DEF WantedStarts, TokensFit
  <1>16. StopsFirst' BY DEF StopsFirst, TokensFit, LocksFit
  <1>17. DeadRunEnds' BY DEF DeadRunEnds, Loses, TokensFit
  <1>18. DeadStartHears' BY DEF DeadStartHears, Loses
  <1>19. FlagFits' BY DEF FlagFits
  <1>20. FlagRaised' BY DEF FlagRaised, TokensFit
  <1>21. FlagSettles' BY DEF FlagSettles
  <1>22. CoreCloses' BY DEF CoreCloses
  <1> QED BY ONLY <1>6, <1>7, <1>8, <1>9, <1>10, <1>11, <1>12, <1>13, <1>14, <1>15, <1>16,
                  <1>17, <1>18, <1>19, <1>20, <1>21, <1>22 DEF RunsInv

(* In the other views there are no runs.                                   *)
RunsViewed == view = "runs" => RunsInv

(* Every step of the view of the runs keeps it, the others leave it alone. *)
LEMMA NextKeepsRuns == RunsViewed /\ [RNext]_allVars => RunsViewed'
  <1> SUFFICES ASSUME RunsViewed, [RNext]_allVars, view' = "runs" PROVE RunsInv'
    BY DEF RunsViewed
  <1>1. view = "runs" /\ RunsInv
    BY DEF RunsViewed, RNext, TunView, JobsView, RunsView, DnsView, allVars
  <1>2. CASE UNCHANGED <<runVars, isRunning>>
    BY <1>1, <1>2, QuietKeepsRuns
  <1>3. ASSUME NEW j \in Jobs, Coming(j) PROVE RunsInv'
    BY <1>1, <1>3, StartActionKeepsRuns, FlutterStartKeepsRuns, StopActionKeepsRuns,
       FlutterStopKeepsRuns, RevokeKeepsRuns, ServiceEndsKeepsRuns
    DEF Coming
  <1>4. ASSUME NEW j \in Jobs, Working(j) PROVE RunsInv'
    BY <1>1, <1>4, CoreActsKeepsRuns, ClaimKeepsRuns, QuickSetupKeepsRuns, QuickApplyKeepsRuns,
       RequestStartKeepsRuns, BeginStartKeepsRuns, PrepareVpnKeepsRuns, PreparedKeepsRuns,
       PromptAbandonedKeepsRuns, EnterStartKeepsRuns, BindKeepsRuns, EstablishKeepsRuns,
       AdoptKeepsRuns, RefusedKeepsRuns, RefusedStoppedKeepsRuns, EstablishedKeepsRuns,
       RunningKeepsRuns, StopServiceKeepsRuns, ReleaseKeepsRuns, LeaveKeepsRuns, DropKeepsRuns,
       ReconcileKeepsRuns, ClaimStopKeepsRuns, FlutterStoppedKeepsRuns, StopKeepsRuns,
       TearDownKeepsRuns, OnRevokeKeepsRuns, NotifyRevokedKeepsRuns, RevokeActionKeepsRuns,
       DisconnectedKeepsRuns, LoseBindingKeepsRuns, ReleasedKeepsRuns, ServiceLostKeepsRuns
    DEF Working
  <1>5. ASSUME NEW j \in Jobs, Answering(j) PROVE RunsInv'
    BY <1>1, <1>5, PermissionKeepsRuns, PreparedKeepsRuns DEF Answering
  <1>6. CASE JobsView(\E j \in Jobs : Coming(j) \/ Working(j) \/ Answering(j))
    BY <1>3, <1>4, <1>5, <1>6 DEF JobsView, RunsView
  <1>7. CASE RunsView(Attach \/ Detach)
    BY <1>1, <1>2, <1>7, DetachKeepsRuns DEF RunsView, Attach
  <1>8. CASE JobsView(Quiet) \/ UNCHANGED allVars
    <2>1. UNCHANGED <<runVars, isRunning>>
      BY <1>8 DEF JobsView, RunsView, Quiet, allVars, vars, callVars
    <2> QED BY <1>2, <2>1
  <1> QED BY <1>1, <1>6, <1>7, <1>8 DEF RNext, TunView, DnsView

(* With nothing under way nobody is on the way to anything, so that what   *)
(* is there is what is shown, and what is wanted if no gap was met.        *)
LEMMA RunsInvSettles ==
    ASSUME RunsInv, AtRest
    PROVE  /\ shown = IF runtime THEN "STARTED" ELSE "STOPPED"
           /\ runtime => latest.running
           /\ tunUp => runtime
           /\ ~missed => {latest.running, tunUp, isRunning, listening} = {runtime}
  <1>1. \A j \in Jobs : PlaceOf(j) \in {"idle", "ended"} /\ CoreOf(j) = "none"
    BY DEF AtRest
  <1>2. /\ latest.running \in BOOLEAN /\ runtime \in BOOLEAN /\ tunRunning \in BOOLEAN
        /\ tunUp \in BOOLEAN /\ isRunning \in BOOLEAN /\ listening \in BOOLEAN
    BY DEF RunsInv, RunTypes, Tokens
  <1>3. lock["transition"] = None
    BY <1>1 DEF RunsInv, RunTypes, LocksFit, Locks
  <1>4. transition = None
    BY <1>3 DEF RunsInv, TransitionFits
  <1>5. runtime => latest.running
    BY <1>1 DEF RunsInv, UnwantedStops
  <1>6. shown = IF runtime THEN "STARTED" ELSE "STOPPED"
    BY <1>1, <1>4, <1>5 DEF RunsInv, ShownFits, Derived
  <1>7. (tunUp => tunRunning) /\ (tunRunning => runtime)
    BY <1>1 DEF RunsInv, TunFits
  <1>8. ASSUME ~missed PROVE {latest.running, tunUp, isRunning, listening} = {runtime}
    <2>1. latest.running => latest.by \in Jobs
      BY DEF RunsInv, TokensFit
    <2>2. latest.running => runtime
      BY <1>1, <1>8, <2>1 DEF RunsInv, WantedStarts, TokensFit
    <2>3. runtime => tunUp
      BY <1>1, <1>5, <1>8, <2>1 DEF RunsInv, DeadRunEnds, Loses
    <2>4. runtime => isRunning
      BY <1>1, <1>5, <1>7, <1>8, <2>1, <2>3 DEF RunsInv, FlagRaised
    <2>5. isRunning => runtime
      BY <1>1, <1>8 DEF RunsInv, CoreCloses
    <2>6. isRunning => listening
      BY <1>1, <1>8 DEF RunsInv, FlagSettles
    <2>7. listening => isRunning
      BY DEF RunsInv, FlagFits
    <2>8. /\ latest.running = runtime /\ tunUp = runtime
          /\ isRunning = runtime /\ listening = runtime
      BY <1>2, <1>5, <1>7, <2>2, <2>3, <2>4, <2>5, <2>6, <2>7
    <2> QED BY <2>8
  <1> QED BY <1>5, <1>6, <1>7, <1>8

(* Whatever overtook what, with any number of starts, stops, revocations   *)
(* and losses, and an engine that comes and goes: once nothing is under    *)
(* way the state shown is that of the run, a run is wanted and an          *)
(* interface has its run; and where no gap was met the newest request,     *)
(* the run and the core agree.  The DNS servers are the newest ones.       *)
THEOREM SettledAgreesAlways == RSpec => []SettledAgrees
  <1>1. RInit => RunsViewed
    BY InitKeepsRuns DEF RunsViewed
  <1>2. RSpec => []RunsViewed
    BY <1>1, NextKeepsRuns, PTL DEF RSpec
  <1>3. RunsViewed => RunSettles
    BY RunsInvSettles DEF RunsViewed, RunSettles
  <1> QED BY <1>2, <1>3, NewestServersWin, PTL DEF SettledAgrees
=============================================================================

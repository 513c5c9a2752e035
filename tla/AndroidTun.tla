----------------------------- MODULE AndroidTun -----------------------------
(***************************************************************************)
(* core/lib.go and core/platform/protect.go on Android: the TUN handler    *)
(* that comes and goes with the VPN, and the sockets that must be kept out *)
(* of it.  The VPN service calls StartTun and StopTun one at a time; dials *)
(* run beside them on goroutines of their own, some under configMu, and    *)
(* one inside the start itself.                                            *)
(*                                                                         *)
(* A dial makes its descriptor and then runs the socket hook, which asks   *)
(* the active handler to protect it.  A handler is its number; its RWMutex *)
(* is the writer and the readers it lets in.                               *)
(***************************************************************************)
EXTENDS Naturals, FiniteSets

CONSTANTS
    Dials,        \* dials beside the start
    ConfigDials,  \* the ones made under configMu
    MaxStarts,    \* bound on StartTun calls
    None

ASSUME TunAssumption ==
    /\ ConfigDials \subseteq Dials
    /\ MaxStarts \in Nat
    /\ None \notin Nat

Own == "own"                    \* the dial inside t.Start
Sockets == Dials \cup {Own}

VARIABLES
    call,        \* where the call of the VPN service is
    starts,      \* StartTun calls so far; also the newest handler
    tunHandler, active,         \* the handler in tunHandler, activeTunHandler
    callbacks,   \* the handlers whose callbacks are set
    listener,    \* the handler whose TUN listener is up
    isRunning,
    configMu,    \* who holds configMu: "call", a dial or None
    writer,      \* per handler: "call" once the call asked for its mu
    readers,     \* who holds its read lock, per handler
    listed,      \* descriptors the scan of /proc/self/fd has yet to protect
    sock,        \* per socket: where its dial is and the handler it loaded
    protected    \* the sockets Android keeps out of the VPN

callVars   == <<call, starts, tunHandler, listener, isRunning>>
handleVars == <<active, callbacks>>
lockVars   == <<configMu, writer, readers>>
sockVars   == <<listed, sock, protected>>
vars == <<callVars, handleVars, lockVars, sockVars>>

Handlers == 1..MaxStarts

NoSocket == [at |-> "none", handler |-> None]

Init ==
    /\ call = "idle" /\ starts = 0
    /\ tunHandler = None /\ active = None
    /\ callbacks = {} /\ listener = None
    /\ isRunning = FALSE
    /\ configMu = None
    /\ writer = [h \in Handlers |-> None]
    /\ readers = [h \in Handlers |-> {}]
    /\ listed = {}
    /\ sock = [s \in Sockets |-> NoSocket]
    /\ protected = {}

Goto(place) == call' = place

-----------------------------------------------------------------------------
(* A handler's mu.                                                         *)

(* A writer that waits lets no other reader in.                            *)
LockMu ==
    /\ call \in {"stopping", "restarting", "refusing", "hook"} \/ (call = "tun" /\ sock[Own].at = "done")
    /\ writer[tunHandler] = None
    /\ writer' = [writer EXCEPT ![tunHandler] = "call"]
    /\ UNCHANGED <<callVars, handleVars, configMu, readers, sockVars>>

Granted == writer[tunHandler] = "call" /\ readers[tunHandler] = {}

Unlock == writer' = [writer EXCEPT ![tunHandler] = None]

(* removeHook, Close of the listener and the callbacks, under the lock.    *)
Clear(h) ==
    /\ active' = IF active = h THEN None ELSE active
    /\ callbacks' = callbacks \ {h}
    /\ listener' = None

-----------------------------------------------------------------------------
(* StopTun and StartTun.                                                   *)

StopTun ==
    /\ call = "idle"
    /\ Goto(IF tunHandler = None THEN "stopped" ELSE "stopping")
    /\ UNCHANGED <<starts, tunHandler, listener, isRunning, handleVars, lockVars, sockVars>>

AfterClose == [stopping |-> "stopped", restarting |-> "start", refusing |-> "idle"]

(* close waits for the protect calls under way.                            *)
CloseHandler ==
    /\ call \in DOMAIN AfterClose
    /\ Granted /\ Unlock
    /\ Clear(tunHandler)
    /\ tunHandler' = None
    /\ Goto(AfterClose[call])
    /\ UNCHANGED <<starts, isRunning, configMu, readers, sockVars>>

(* The tail of StopTun: handleStopListener if the core runs.               *)
StopListener ==
    /\ call = "stopped"
    /\ isRunning => configMu = None
    /\ isRunning' = FALSE
    /\ Goto("idle")
    /\ UNCHANGED <<starts, tunHandler, listener, handleVars, lockVars, sockVars>>

(* handleStartTun closes what runs; without a descriptor it ends there.    *)
StartTun(fd) ==
    /\ call = "idle"
    /\ starts < MaxStarts
    /\ starts' = starts + 1
    /\ LET closing == IF fd THEN "restarting" ELSE "refusing"
       IN Goto(IF tunHandler = None THEN AfterClose[closing] ELSE closing)
    /\ UNCHANGED <<tunHandler, listener, isRunning, handleVars, lockVars, sockVars>>

ScansFirst == "list"

(* What follows the new handler: its hook goes in before the scan.         *)
AfterNewHandler == "hook"

(* start takes configMu.                                                   *)
NewHandler ==
    /\ call = "start"
    /\ configMu = None
    /\ configMu' = "call"
    /\ tunHandler' = starts
    /\ callbacks' = callbacks \cup {starts}
    /\ Goto(AfterNewHandler)
    /\ UNCHANGED <<starts, listener, isRunning, active, writer, readers, sockVars>>

(* t.Start is to run outside the handler's mu.                             *)
InitHook ==
    /\ call = "hook"
    /\ Granted /\ Unlock
    /\ active' = tunHandler
    /\ Goto("list")
    /\ UNCHANGED <<starts, tunHandler, listener, isRunning, callbacks, configMu,
                   readers, sockVars>>

(* ProtectExistingSockets reads the directory and then goes through it.    *)
ListSockets ==
    /\ call = "list"
    /\ listed' = {s \in Sockets : sock[s].at # "none"}
    /\ Goto("scan")
    /\ UNCHANGED <<starts, tunHandler, listener, isRunning, handleVars, lockVars,
                   sock, protected>>

ProtectListed(s) ==
    /\ call = "scan"
    /\ s \in listed
    /\ listed' = listed \ {s}
    /\ protected' = IF sock[s].at = "none" THEN protected ELSE protected \cup {s}
    /\ UNCHANGED <<callVars, handleVars, lockVars, sock>>

(* t.Start dials on this very goroutine.                                   *)
BeginTun ==
    /\ call = "scan"
    /\ listed = {}
    /\ sock[Own].at = "none"
    /\ sock' = [sock EXCEPT ![Own].at = "made"]
    /\ Goto("tun")
    /\ UNCHANGED <<starts, tunHandler, listener, isRunning, handleVars, lockVars,
                   listed, protected>>

(* t.Start has returned a listener or none; start releases configMu.       *)
FinishStart(up) ==
    /\ call = "tun"
    /\ sock[Own].at = "done"
    /\ Granted /\ Unlock
    /\ IF up
       THEN /\ listener' = tunHandler
            /\ Goto("up")
            /\ UNCHANGED <<handleVars, tunHandler>>
       ELSE /\ Clear(tunHandler)
            /\ tunHandler' = None
            /\ Goto("idle")
    /\ configMu' = None
    /\ UNCHANGED <<starts, isRunning, readers, sockVars>>

(* The tail of StartTun: handleStartListener, or a reset if it runs.       *)
StartListener ==
    /\ call = "up"
    /\ isRunning \/ configMu = None
    /\ isRunning' = TRUE
    /\ Goto("idle")
    /\ UNCHANGED <<starts, tunHandler, listener, handleVars, lockVars, sockVars>>

-----------------------------------------------------------------------------
(* A dial.                                                                 *)

At(s, place) == sock[s].at = place
Move(s, place) == sock' = [sock EXCEPT ![s].at = place]

(* The socket is made; a config handler's dial holds configMu throughout.  *)
MakeSocket(s) ==
    /\ s \in Dials
    /\ At(s, "none")
    /\ s \in ConfigDials => configMu = None
    /\ configMu' = IF s \in ConfigDials THEN s ELSE configMu
    /\ Move(s, "made")
    /\ UNCHANGED <<callVars, handleVars, writer, readers, listed, protected>>

LeavesLocked(s) == UNCHANGED configMu

Finish(s) == configMu' = IF configMu = s THEN None ELSE configMu

(* DefaultSocketHook loads the active handler.                             *)
LoadHandler(s) ==
    /\ At(s, "made")
    /\ sock' = [sock EXCEPT ![s] = [at |-> IF active = None THEN "done" ELSE "loaded",
                                    handler |-> active]]
    /\ IF active = None THEN Finish(s) ELSE UNCHANGED configMu
    /\ UNCHANGED <<callVars, handleVars, writer, readers, listed, protected>>

GoesUnlocked(s, h) == UNCHANGED readers

(* handleProtect's read lock.                                              *)
RLock(s, h) == readers' = [readers EXCEPT ![h] = @ \cup {s}]

BeginProtect(s) ==
    LET h == sock[s].handler IN
    /\ At(s, "loaded")
    /\ writer[h] = None
    /\ IF h \in callbacks
       THEN /\ RLock(s, h)
            /\ Move(s, "protecting")
            /\ UNCHANGED configMu
       ELSE /\ Move(s, "done")
            /\ Finish(s)
            /\ UNCHANGED readers
    /\ UNCHANGED <<callVars, handleVars, writer, listed, protected>>

EndProtect(s) ==
    LET h == sock[s].handler IN
    /\ At(s, "protecting")
    /\ protected' = protected \cup {s}
    /\ readers' = [readers EXCEPT ![h] = @ \ {s}]
    /\ Move(s, "done")
    /\ Finish(s)
    /\ UNCHANGED <<callVars, handleVars, writer, listed>>

(* A socket that has come and gone makes room for another.                 *)
CloseSocket(s) ==
    /\ At(s, "done")
    /\ s = Own => call # "tun"
    /\ sock' = [sock EXCEPT ![s] = NoSocket]
    /\ protected' = protected \ {s}
    /\ UNCHANGED <<callVars, handleVars, lockVars, listed>>

-----------------------------------------------------------------------------
Calling ==
    \/ LockMu \/ CloseHandler \/ StopListener \/ NewHandler \/ InitHook
    \/ ListSockets \/ (\E s \in Sockets : ProtectListed(s)) \/ BeginTun
    \/ (\E up \in BOOLEAN : FinishStart(up)) \/ StartListener

Dialing(s) == LoadHandler(s) \/ BeginProtect(s) \/ EndProtect(s)

Next ==
    \/ StopTun \/ (\E fd \in BOOLEAN : StartTun(fd)) \/ Calling
    \/ \E s \in Sockets : MakeSocket(s) \/ Dialing(s) \/ CloseSocket(s)

-----------------------------------------------------------------------------
(* Properties.                                                             *)

(* Once the TUN is up no socket is left in it: the ones that were there    *)
(* were listed, and the ones that came later found the hook.               *)
NoSocketLoops ==
    call \in {"tun", "up", "idle"} /\ tunHandler # None =>
        \A s \in Sockets : At(s, "done") => s \in protected

(* The VPN's callbacks are called only while their handler has them: a     *)
(* stop waits for the calls under way and lets no other begin.             *)
NoCallAfterClose ==
    \A s \in Sockets : At(s, "protecting") => sock[s].handler \in callbacks

(* A start or a stop returns, whatever dials are under way.                *)
CallsEnd == call # "idle" ~> call = "idle"
=============================================================================

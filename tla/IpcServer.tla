------------------------------ MODULE IpcServer ------------------------------
(***************************************************************************)
(* core/server.go: the desktop core's end of the connection to its host.   *)
(* serve reads calls and dispatches each on a goroutine of its own; their  *)
(* replies and the batcher's events are frames, a length and a payload,    *)
(* that send writes under writeMu.  The host may stall, drain again, or    *)
(* die, and the core must never leave it inside a frame it cannot finish.  *)
(*                                                                         *)
(* The bytes of a frame are numbered: stream is what the host received.    *)
(* How much of a write the pipe takes before a deadline passes or the pipe *)
(* fails is the environment's choice.                                      *)
(***************************************************************************)
EXTENDS Naturals, Sequences

CONSTANTS
    Calls,       \* calls the host sends; each is answered by a frame
    Events,      \* frames of the batcher
    HeaderLen,   \* bytes of the length
    PayloadLen,  \* bytes of the payload
    None

ASSUME IpcAssumption ==
    /\ Calls \cap Events = {}
    /\ HeaderLen \in Nat \ {0}
    /\ PayloadLen \in Nat \ {0}
    /\ None \notin Calls \cup Events

Frames == Calls \cup Events
FrameLen == HeaderLen + PayloadLen

VARIABLES
    conn,        \* is the variable conn set?
    pipe,        \* is the connection itself open?
    serving,     \* is serve in its loop?
    frame,       \* per frame: where its send is
    oversized,   \* the frames above maxIPCFrameSize
    writeMu,     \* the frame whose send holds writeMu
    written,     \* bytes of that frame the pipe took
    stream,      \* what the host received, byte by byte
    reported     \* deliveryFailureReported

vars == <<conn, pipe, serving, frame, oversized, writeMu, written, stream, reported>>

Init ==
    /\ conn = TRUE /\ pipe = TRUE /\ serving = TRUE
    /\ frame = [f \in Frames |-> "none"]
    /\ oversized = {}
    /\ writeMu = None
    /\ written = 0
    /\ stream = <<>>
    /\ reported = FALSE

Goto(f, place) == frame' = [frame EXCEPT ![f] = place]

-----------------------------------------------------------------------------
(* serve.                                                                  *)

(* readFrame, then dispatchMethodCall: the handler runs beside the loop.   *)
ReadCall(f) ==
    /\ serving /\ pipe
    /\ f \in Calls
    /\ frame[f] = "none"
    /\ Goto(f, "handling")
    /\ UNCHANGED <<conn, pipe, serving, oversized, writeMu, written, stream, reported>>

(* The handler, or the batcher, has a frame to send, of whatever size.     *)
Encoded(f, tooLarge) ==
    /\ \/ frame[f] = "handling"
       \/ f \in Events /\ frame[f] = "none"
    /\ Goto(f, "sending")
    /\ oversized' = IF tooLarge THEN oversized \cup {f} ELSE oversized
    /\ UNCHANGED <<conn, pipe, serving, writeMu, written, stream, reported>>

(* The read fails; the deferred call closes the connection it finds.       *)
ServeReturns ==
    /\ serving
    /\ serving' = FALSE
    /\ conn' = FALSE
    /\ pipe' = IF conn THEN FALSE ELSE pipe
    /\ UNCHANGED <<frame, oversized, writeMu, written, stream, reported>>

-----------------------------------------------------------------------------
(* send, from the lock of writeMu to its release.                          *)

KeepsWriteMu(f, outcome) ==
    /\ Goto(f, outcome)
    /\ written' = 0
    /\ UNCHANGED writeMu

Unlock(f, outcome) ==
    /\ Goto(f, outcome)
    /\ writeMu' = None
    /\ written' = 0

(* Without a connection, or above the limit, nothing is written.           *)
BeginSend(f) ==
    /\ frame[f] = "sending"
    /\ writeMu = None
    /\ IF conn /\ f \notin oversized
       THEN /\ Goto(f, "writing")
            /\ writeMu' = f
            /\ UNCHANGED <<written, reported>>
       ELSE /\ Unlock(f, "dropped")
            /\ reported' = TRUE
    /\ UNCHANGED <<conn, pipe, serving, oversized, stream>>

(* The bytes left of the part, length or payload, being written.           *)
PartLeft ==
    IF written < HeaderLen THEN HeaderLen - written ELSE FrameLen - written

(* The pipe takes n more bytes of the frame.                               *)
Takes(f, n) ==
    stream' = stream \o [i \in 1..n |-> <<f, written + i>>]

(* A write takes all it was given.                                         *)
WriteWhole(f) ==
    /\ frame[f] = "writing"
    /\ pipe
    /\ Takes(f, PartLeft)
    /\ IF written + PartLeft = FrameLen
       THEN Unlock(f, "sent") /\ reported' = FALSE
       ELSE /\ written' = written + PartLeft
            /\ UNCHANGED <<frame, writeMu, reported>>
    /\ UNCHANGED <<conn, pipe, serving, oversized>>

(* resume: only a frame the host has seen a part of is waited for.         *)
Resumes(total) == total > 0

(* A frame of which nothing was written can be dropped.                    *)
MayDrop(total) == total = 0

KeepsConn == conn

(* A connection that ends inside a frame is forgotten before it is closed. *)
ForgetsConn == FALSE

(* send gives up: a clean frame is dropped, a torn one ends the connection. *)
GivesUp(f, total) ==
    /\ reported' = TRUE
    /\ IF MayDrop(total)
       THEN /\ Unlock(f, "dropped")
            /\ UNCHANGED conn
       ELSE /\ Goto(f, "closing")
            /\ conn' = ForgetsConn
            /\ written' = total
            /\ UNCHANGED writeMu

(* The deadline passes.  A part taken in full is an error all the same; a  *)
(* pipe that serve has closed meanwhile takes no new deadline.             *)
WriteTimesOut(f, n) ==
    /\ frame[f] = "writing"
    /\ n <= PartLeft
    /\ pipe \/ n = 0
    /\ Takes(f, n)
    /\ IF n < PartLeft /\ Resumes(written + n) /\ pipe
       THEN /\ written' = written + n
            /\ UNCHANGED <<conn, frame, writeMu, reported>>
       ELSE GivesUp(f, written + n)
    /\ UNCHANGED <<pipe, serving, oversized>>

(* The host is gone, or serve has closed the connection.                   *)
WriteFails(f, n) ==
    /\ frame[f] = "writing"
    /\ n <= PartLeft
    /\ pipe \/ n = 0
    /\ Takes(f, n)
    /\ GivesUp(f, written + n)
    /\ UNCHANGED <<pipe, serving, oversized>>

CloseTorn(f) ==
    /\ frame[f] = "closing"
    /\ pipe' = FALSE
    /\ Unlock(f, "torn")
    /\ UNCHANGED <<conn, serving, oversized, stream, reported>>

-----------------------------------------------------------------------------
Writing(f) ==
    \/ BeginSend(f) \/ WriteWhole(f) \/ CloseTorn(f)
    \/ \E n \in 0..FrameLen : WriteTimesOut(f, n) \/ WriteFails(f, n)

Next ==
    \/ ServeReturns
    \/ \E f \in Frames :
          \/ ReadCall(f) \/ Writing(f)
          \/ \E tooLarge \in BOOLEAN : Encoded(f, tooLarge)

Spec == Init /\ [][Next]_vars

-----------------------------------------------------------------------------
(* Properties.                                                             *)

(* The bytes of a frame arrive in order, with nothing between them, and a  *)
(* new frame starts only where the last one ended.                         *)
WholeFrames ==
    \A i \in DOMAIN stream :
        IF stream[i][2] = 1
        THEN i > 1 => stream[i - 1][2] = FrameLen
        ELSE i > 1 /\ stream[i - 1] = <<stream[i][1], stream[i][2] - 1>>

(* A frame counts as dropped only if the host saw nothing of it, and as    *)
(* sent only if it has all of it.                                          *)
HonestOutcome ==
    \A f \in Frames :
        LET seen == {i \in DOMAIN stream : stream[i][1] = f} IN
        /\ frame[f] = "dropped" => seen = {}
        /\ frame[f] = "sent" => \E i \in seen : stream[i][2] = FrameLen

(* A frame that is not whole on the host's side is one the core is still   *)
(* writing, or the connection is closed or about to be.                    *)
TornMeansClosed ==
    stream # <<>> /\ stream[Len(stream)][2] < FrameLen =>
        LET f == stream[Len(stream)][1] IN
        \/ frame[f] = "writing" /\ written = stream[Len(stream)][2]
        \/ ~conn

(* The host reads whole frames one after the other, whatever writes stall  *)
(* or fail, and never waits for bytes that will not come.                  *)
StreamInSync == WholeFrames /\ HonestOutcome /\ TornMeansClosed
=============================================================================

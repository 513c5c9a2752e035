------------------------- MODULE RequestFilesProofs -------------------------
(* Proofs about the frames of the desktop core's connection and about the  *)
(* files of the host's calls, for any number of calls, events, crashes and *)
(* bytes in a frame, and about rule sets made of any lists of entries.     *)
EXTENDS RequestFiles, SequenceTheorems, TLAPS

-----------------------------------------------------------------------------
(* The frames.                                                             *)

Bytes == Frames \X (1..FrameLen)

SendTypeOK ==
    /\ conn \in BOOLEAN
    /\ frame \in [Frames -> {"none", "handling", "sending", "writing", "closing",
                             "sent", "dropped", "torn"}]
    /\ writeMu \in Frames \cup {None}
    /\ written \in 0..FrameLen
    /\ stream \in Seq(Bytes)

(* The frame that is being written or given up holds writeMu, and a send   *)
(* that gives up with a part of its frame written has forgotten conn.      *)
WriterHolds ==
    /\ \A f \in Frames : frame[f] \in {"writing", "closing"} <=> writeMu = f
    /\ writeMu = None => written = 0
    /\ \A f \in Frames : frame[f] = "writing" => written < FrameLen
    /\ \A f \in Frames : frame[f] = "closing" => written > 0 /\ ~conn

(* Where the host stands: after a whole frame, or after the bytes that the *)
(* frame being written has had taken; only a closed connection leaves it   *)
(* anywhere else.                                                          *)
AtFrameEnd == stream # <<>> => stream[Len(stream)][2] = FrameLen

HostFollows ==
    /\ writeMu = None /\ conn => AtFrameEnd
    /\ writeMu # None /\ written = 0 => AtFrameEnd
    /\ writeMu # None /\ written > 0 =>
           stream # <<>> /\ stream[Len(stream)] = <<writeMu, written>>

(* The host has seen nothing of a frame before its first write.            *)
Unseen(f) == \A i \in DOMAIN stream : stream[i][1] # f

SeenAsWritten ==
    \A f \in Frames :
        /\ frame[f] \in {"none", "handling", "sending", "dropped"} => Unseen(f)
        /\ frame[f] = "writing" /\ written = 0 => Unseen(f)
        /\ frame[f] = "sent" => \E i \in DOMAIN stream : stream[i] = <<f, FrameLen>>

SendInv == SendTypeOK /\ WriterHolds /\ HostFollows /\ SeenAsWritten /\ WholeFrames

(* A frame has a byte at least.                                            *)
LEMMA FrameHasBytes == FrameLen \in Nat \ {0} /\ HeaderLen \in Nat /\ HeaderLen < FrameLen /\ HeaderLen > 0
  BY IpcAssumption DEF FrameLen

(* What a write puts at the end of the stream.                             *)
LEMMA WhatIsTaken ==
    ASSUME stream \in Seq(Bytes), written \in Nat, NEW f \in Frames, NEW n \in Nat,
           written + n <= FrameLen, Takes(f, n)
    PROVE  /\ stream' \in Seq(Bytes)
           /\ Len(stream') = Len(stream) + n
           /\ \A i \in 1..Len(stream) : stream'[i] = stream[i]
           /\ \A i \in 1..Len(stream') : i > Len(stream) => stream'[i] = <<f, written + (i - Len(stream))>>
<1> DEFINE more == [i \in 1..n |-> <<f, written + i>>]
<1>1. \A i \in 1..n : <<f, written + i>> \in Bytes
  BY FrameHasBytes DEF Bytes
<1>2. more \in Seq(Bytes) /\ Len(more) = n
  <2>1. more \in [1..n -> Bytes]
    BY <1>1
  <2> HIDE DEF more
  <2>2. more \in Seq(Bytes)
    BY <2>1
  <2>3. Len(more) = n
    BY <2>1, <2>2
  <2> QED BY <2>2, <2>3
<1>3. stream' = stream \o more
  BY DEF Takes
<1> HIDE DEF more
<1>4. stream' \in Seq(Bytes) /\ Len(stream') = Len(stream) + n
  BY <1>2, <1>3, ConcatProperties
<1>5. \A i \in 1..Len(stream') : stream'[i] = IF i <= Len(stream) THEN stream[i] ELSE more[i - Len(stream)]
  BY <1>2, <1>3, ConcatProperties
<1>6. \A i \in 1..n : more[i] = <<f, written + i>>
  BY DEF more
<1>7. Len(stream) \in Nat
  OBVIOUS
<1>8. \A i \in 1..Len(stream) : stream'[i] = stream[i]
  BY <1>4, <1>5, <1>7
<1>9. ASSUME NEW i \in 1..Len(stream'), i > Len(stream)
      PROVE  stream'[i] = <<f, written + (i - Len(stream))>>
  <2>1. i - Len(stream) \in 1..n
    BY <1>4, <1>7, <1>9
  <2>2. stream'[i] = more[i - Len(stream)]
    BY <1>5, <1>7, <1>9, <2>1
  <2> QED BY <1>6, <2>1, <2>2
<1> QED BY <1>4, <1>8, <1>9

(* The stream stays in sync by what a write adds, if the host stood after  *)
(* a whole frame or inside this very one.                                  *)
LEMMA TakenKeepsFrames ==
    ASSUME SendInv, NEW f \in Frames, frame[f] = "writing", NEW n \in Nat,
           written + n <= FrameLen, Takes(f, n)
    PROVE  /\ stream' \in Seq(Bytes)
           /\ WholeFrames'
           /\ n = 0 => stream' = stream
           /\ n > 0 => stream' # <<>> /\ stream'[Len(stream')] = <<f, written + n>>
           /\ \A g \in Frames : g # f /\ Unseen(g) => Unseen(g)'
           /\ \A g \in Frames : (\E i \in DOMAIN stream : stream[i] = <<g, FrameLen>>) =>
                                (\E i \in DOMAIN stream' : stream'[i] = <<g, FrameLen>>)
<1> USE FrameHasBytes
<1>1. writeMu = f /\ f # None /\ written \in Nat /\ written < FrameLen /\ stream \in Seq(Bytes)
  BY IpcAssumption DEF SendInv, WriterHolds, SendTypeOK, Frames
<1>2. /\ stream' \in Seq(Bytes)
      /\ Len(stream') = Len(stream) + n
      /\ \A i \in 1..Len(stream) : stream'[i] = stream[i]
      /\ \A i \in 1..Len(stream') : i > Len(stream) => stream'[i] = <<f, written + (i - Len(stream))>>
  BY <1>1, WhatIsTaken
<1>3. Len(stream) \in Nat /\ DOMAIN stream = 1..Len(stream) /\ DOMAIN stream' = 1..Len(stream')
  BY <1>1, <1>2
<1>4. n = 0 => stream' = stream
  BY <1>1, <1>2, <1>3, SeqEqual
<1>5. n > 0 => stream' # <<>> /\ stream'[Len(stream')] = <<f, written + n>>
  BY <1>1, <1>2, <1>3
<1>6. \A g \in Frames : g # f /\ Unseen(g) => Unseen(g)'
  <2> SUFFICES ASSUME NEW g \in Frames, g # f, Unseen(g), NEW i \in 1..Len(stream')
               PROVE  stream'[i][1] # g
    BY <1>3 DEF Unseen
  <2>1. CASE i <= Len(stream)
    BY <1>2, <1>3, <2>1 DEF Unseen
  <2>2. CASE i > Len(stream)
    BY <1>2, <2>2
  <2> QED BY <1>3, <2>1, <2>2
<1>7. \A g \in Frames : (\E i \in DOMAIN stream : stream[i] = <<g, FrameLen>>) =>
                        (\E i \in DOMAIN stream' : stream'[i] = <<g, FrameLen>>)
  BY <1>2, <1>3
<1>8. WholeFrames'
  <2>1. SUFFICES ASSUME NEW i \in 1..Len(stream')
                 PROVE  IF stream'[i][2] = 1
                        THEN i > 1 => stream'[i - 1][2] = FrameLen
                        ELSE i > 1 /\ stream'[i - 1] = <<stream'[i][1], stream'[i][2] - 1>>
    BY <1>3 DEF WholeFrames
  <2>2. CASE i <= Len(stream)
    <3>1. stream'[i] = stream[i] /\ (i > 1 => stream'[i - 1] = stream[i - 1]) /\ i \in DOMAIN stream
      BY <1>2, <1>3, <2>2
    <3> QED BY <3>1 DEF SendInv, WholeFrames
  <2>3. CASE i = Len(stream) + 1
    <3>1. stream'[i] = <<f, written + 1>>
      BY <1>1, <1>2, <1>3, <2>3
    <3>2. i > 1 => stream # <<>> /\ stream'[i - 1] = stream[Len(stream)]
      BY <1>2, <1>3, <2>3
    <3>3. CASE written = 0
      BY <1>1, <3>1, <3>2, <3>3 DEF SendInv, HostFollows, AtFrameEnd
    <3>4. CASE written > 0
      <4>1. stream # <<>> /\ stream[Len(stream)] = <<f, written>>
        BY <1>1, <3>4 DEF SendInv, HostFollows
      <4>2. i > 1
        BY <1>1, <1>3, <4>1, <2>3, EmptySeq
      <4> QED BY <1>1, <3>1, <3>2, <3>4, <4>1, <4>2
    <3> QED BY <1>1, <3>3, <3>4
  <2>4. CASE i > Len(stream) + 1
    <3>1. stream'[i] = <<f, written + (i - Len(stream))>>
      BY <1>2, <1>3, <2>4
    <3>2. stream'[i - 1] = <<f, written + (i - 1 - Len(stream))>>
      BY <1>2, <1>3, <2>4
    <3> QED BY <1>1, <1>3, <2>4, <3>1, <3>2
  <2> QED BY <1>3, <2>2, <2>3, <2>4
<1> QED BY <1>2, <1>4, <1>5, <1>6, <1>7, <1>8

(* A step that writes nothing and leaves writeMu with its frame.           *)
LEMMA ReadKeepsSendInv ==
    ASSUME SendInv, NEW f \in Frames, ReadCall(f) \/ \E tooLarge \in BOOLEAN : Encoded(f, tooLarge)
    PROVE  SendInv'
<1> USE DEF ReadCall, Encoded, Goto
<1>1. frame[f] \in {"none", "handling"} /\ frame'[f] \in {"handling", "sending"}
      /\ (\A g \in Frames : g # f => frame'[g] = frame[g])
      /\ UNCHANGED <<conn, writeMu, written, stream>>
  BY DEF SendInv, SendTypeOK
<1>2. SendTypeOK'
  BY DEF SendInv, SendTypeOK
<1> HIDE DEF ReadCall, Encoded, Goto
<1>3. WriterHolds' /\ HostFollows' /\ WholeFrames'
  BY <1>1 DEF SendInv, WriterHolds, HostFollows, AtFrameEnd, WholeFrames
<1>4. SeenAsWritten'
  BY <1>1 DEF SendInv, SeenAsWritten, Unseen
<1> QED BY <1>2, <1>3, <1>4 DEF SendInv

(* serve returns: conn goes, and no frame with it.                         *)
LEMMA ServeKeepsSendInv ==
    ASSUME SendInv, ServeReturns
    PROVE  SendInv'
  BY DEF ServeReturns, SendInv, SendTypeOK, WriterHolds, HostFollows, AtFrameEnd, SeenAsWritten,
         Unseen, WholeFrames

(* A send begins with the host at the end of a frame, or drops its own.    *)
LEMMA BeginKeepsSendInv ==
    ASSUME SendInv, NEW f \in Frames, BeginSend(f)
    PROVE  SendInv'
<1> USE FrameHasBytes, IpcAssumption DEF BeginSend, Unlock, Goto
<1>0. f # None /\ written = 0
  BY DEF SendInv, WriterHolds, Frames
<1>1. SendTypeOK'
  BY <1>0 DEF SendInv, SendTypeOK
<1>2. WriterHolds'
  BY <1>0 DEF SendInv, SendTypeOK, WriterHolds, Frames
<1>3. HostFollows'
  BY <1>0 DEF SendInv, SendTypeOK, HostFollows, AtFrameEnd
<1>4. SeenAsWritten'
  BY <1>0 DEF SendInv, SendTypeOK, SeenAsWritten, Unseen
<1>5. WholeFrames'
  BY DEF SendInv, WholeFrames
<1> QED BY <1>1, <1>2, <1>3, <1>4, <1>5 DEF SendInv

(* A torn frame ends with the connection it was written to.                *)
LEMMA CloseKeepsSendInv ==
    ASSUME SendInv, NEW f \in Frames, CloseTorn(f)
    PROVE  SendInv'
<1> USE FrameHasBytes, IpcAssumption DEF CloseTorn, Unlock, Goto
<1>0. f # None /\ ~conn /\ writeMu = f
  BY DEF SendInv, WriterHolds, Frames
<1>1. SendTypeOK'
  BY <1>0 DEF SendInv, SendTypeOK
<1>2. WriterHolds'
  BY <1>0 DEF SendInv, SendTypeOK, WriterHolds, Frames
<1>3. HostFollows'
  BY <1>0 DEF SendInv, SendTypeOK, HostFollows, AtFrameEnd
<1>4. SeenAsWritten'
  BY <1>0 DEF SendInv, SendTypeOK, WriterHolds, SeenAsWritten, Unseen
<1>5. WholeFrames'
  BY DEF SendInv, WholeFrames
<1> QED BY <1>1, <1>2, <1>3, <1>4, <1>5 DEF SendInv

(* A part of the frame goes out and the send goes on.                      *)
LEMMA OnKeepsSendInv ==
    ASSUME SendInv, NEW f \in Frames, frame[f] = "writing", NEW n \in Nat, n > 0,
           written + n < FrameLen, Takes(f, n), written' = written + n,
           UNCHANGED <<conn, frame, writeMu>>
    PROVE  SendInv'
<1> USE FrameHasBytes
<1>0. f # None /\ writeMu = f /\ written \in Nat
  BY IpcAssumption DEF SendInv, SendTypeOK, WriterHolds, Frames
<1>1. stream' \in Seq(Bytes) /\ WholeFrames'
      /\ stream' # <<>> /\ stream'[Len(stream')] = <<f, written + n>>
  BY TakenKeepsFrames, <1>0
<1>2. /\ \A g \in Frames : g # f /\ Unseen(g) => Unseen(g)'
      /\ \A g \in Frames : (\E i \in DOMAIN stream : stream[i] = <<g, FrameLen>>) =>
                           (\E i \in DOMAIN stream' : stream'[i] = <<g, FrameLen>>)
  BY TakenKeepsFrames, <1>0
<1>3. SendTypeOK' /\ WriterHolds'
  BY <1>0, <1>1 DEF SendInv, SendTypeOK, WriterHolds
<1>4. HostFollows'
  BY <1>0, <1>1 DEF HostFollows
<1>5. SeenAsWritten'
  BY <1>0, <1>2 DEF SendInv, WriterHolds, SeenAsWritten
<1> QED BY <1>1, <1>3, <1>4, <1>5 DEF SendInv

(* A send ends with its frame whole and the host after it.                 *)
LEMMA SentKeepsSendInv ==
    ASSUME SendInv, NEW f \in Frames, frame[f] = "writing", NEW n \in Nat, n > 0,
           written + n = FrameLen, Takes(f, n), Unlock(f, "sent"), UNCHANGED conn
    PROVE  SendInv'
<1> USE FrameHasBytes DEF Unlock, Goto
<1>0. f # None /\ writeMu = f /\ written \in Nat
  BY IpcAssumption DEF SendInv, SendTypeOK, WriterHolds, Frames
<1>1. stream' \in Seq(Bytes) /\ WholeFrames'
      /\ stream' # <<>> /\ stream'[Len(stream')] = <<f, FrameLen>>
  BY TakenKeepsFrames, <1>0
<1>2. /\ \A g \in Frames : g # f /\ Unseen(g) => Unseen(g)'
      /\ \A g \in Frames : (\E i \in DOMAIN stream : stream[i] = <<g, FrameLen>>) =>
                           (\E i \in DOMAIN stream' : stream'[i] = <<g, FrameLen>>)
  BY TakenKeepsFrames, <1>0
<1>3. SendTypeOK'
  BY <1>0, <1>1 DEF SendInv, SendTypeOK
<1>4. WriterHolds'
  BY <1>0, IpcAssumption DEF SendInv, SendTypeOK, WriterHolds, Frames
<1>5. HostFollows'
  BY <1>0, <1>1 DEF HostFollows, AtFrameEnd
<1>6. SeenAsWritten'
  <2>1. Len(stream') \in DOMAIN stream'
    BY <1>1, EmptySeq, LenProperties
  <2>2. \A g \in Frames : g # f => frame'[g] = frame[g] /\ frame[g] # "writing"
    BY <1>0 DEF SendInv, SendTypeOK, WriterHolds
  <2>3. frame'[f] = "sent"
    BY DEF SendInv, SendTypeOK
  <2>4. \A g \in Frames : frame'[g] = "writing" => FALSE
    BY <2>2, <2>3
  <2> QED BY <1>1, <1>2, <2>1, <2>2, <2>3, <2>4 DEF SendInv, SeenAsWritten
<1> QED BY <1>1, <1>3, <1>4, <1>5, <1>6 DEF SendInv

(* A send gives up: clean, with nothing of its frame on the wire, or torn, *)
(* with the connection forgotten.                                          *)
LEMMA GiveUpKeepsSendInv ==
    ASSUME SendInv, NEW f \in Frames, frame[f] = "writing", NEW n \in Nat,
           written + n <= FrameLen, Takes(f, n), GivesUp(f, written + n)
    PROVE  SendInv'
<1> USE FrameHasBytes
<1>0. f # None /\ writeMu = f /\ written \in Nat
  BY IpcAssumption DEF SendInv, SendTypeOK, WriterHolds, Frames
<1>1. stream' \in Seq(Bytes) /\ WholeFrames' /\ (n = 0 => stream' = stream)
      /\ (n > 0 => stream' # <<>> /\ stream'[Len(stream')] = <<f, written + n>>)
  BY TakenKeepsFrames, <1>0
<1>2. /\ \A g \in Frames : g # f /\ Unseen(g) => Unseen(g)'
      /\ \A g \in Frames : (\E i \in DOMAIN stream : stream[i] = <<g, FrameLen>>) =>
                           (\E i \in DOMAIN stream' : stream'[i] = <<g, FrameLen>>)
  BY TakenKeepsFrames, <1>0
<1>3. CASE written + n = 0
  <2> USE DEF GivesUp, MayDrop, Unlock, Goto
  <2>1. written = 0 /\ n = 0 /\ stream' = stream /\ writeMu' = None /\ written' = 0
        /\ frame' = [frame EXCEPT ![f] = "dropped"] /\ conn' = conn
    BY <1>0, <1>1, <1>3
  <2> HIDE DEF GivesUp, MayDrop, Unlock, Goto
  <2>2. SendTypeOK'
    BY <2>1 DEF SendInv, SendTypeOK
  <2>3. WriterHolds'
    BY <2>1, <1>0, IpcAssumption DEF SendInv, SendTypeOK, WriterHolds, Frames
  <2>4. HostFollows'
    BY <2>1, <1>0 DEF SendInv, HostFollows, AtFrameEnd
  <2>5. SeenAsWritten'
    BY <2>1, <1>0 DEF SendInv, SendTypeOK, SeenAsWritten, Unseen
  <2> QED BY <1>1, <2>2, <2>3, <2>4, <2>5 DEF SendInv
<1>4. CASE written + n > 0
  <2> USE DEF GivesUp, MayDrop, Goto, ForgetsConn
  <2>1. writeMu' = f /\ written' = written + n
        /\ frame' = [frame EXCEPT ![f] = "closing"] /\ conn' = FALSE
    BY <1>0, <1>4
  <2> HIDE DEF GivesUp, MayDrop, Goto, ForgetsConn
  <2>2. SendTypeOK'
    <3>1. conn' \in BOOLEAN
      BY <2>1
    <3>2. frame' \in [Frames -> {"none", "handling", "sending", "writing", "closing",
                                 "sent", "dropped", "torn"}]
      BY <2>1 DEF SendInv, SendTypeOK
    <3> QED BY <2>1, <1>0, <1>1, <3>1, <3>2 DEF SendTypeOK
  <2>3. WriterHolds'
    BY <2>1, <1>0, <1>4 DEF SendInv, SendTypeOK, WriterHolds
  <2>4. HostFollows'
    BY <2>1, <1>0, <1>1, <1>4 DEF SendInv, HostFollows
  <2>5. SeenAsWritten'
    <3>1. \A g \in Frames : g # f => frame'[g] = frame[g] /\ frame[g] # "writing"
      BY <2>1, <1>0 DEF SendInv, SendTypeOK, WriterHolds
    <3>2. frame'[f] = "closing"
      BY <2>1 DEF SendInv, SendTypeOK
    <3> QED BY <1>2, <3>1, <3>2 DEF SendInv, SeenAsWritten
  <2> QED BY <1>1, <2>2, <2>3, <2>4, <2>5 DEF SendInv
<1> QED BY <1>0, <1>3, <1>4

(* A write, whatever the pipe takes of it.                                 *)
LEMMA WriteKeepsSendInv ==
    ASSUME SendInv, NEW f \in Frames,
           WriteWhole(f) \/ \E n \in 0..FrameLen : WriteTimesOut(f, n) \/ WriteFails(f, n)
    PROVE  SendInv'
<1> USE FrameHasBytes
<1>0. frame[f] = "writing" /\ written \in Nat /\ written < FrameLen
  BY DEF WriteWhole, WriteTimesOut, WriteFails, SendInv, SendTypeOK, WriterHolds
<1>1. PartLeft \in Nat /\ PartLeft > 0 /\ written + PartLeft <= FrameLen
  BY <1>0 DEF PartLeft
<1>2. CASE WriteWhole(f)
  <2>1. CASE written + PartLeft = FrameLen
    BY <1>0, <1>1, <1>2, <2>1, SentKeepsSendInv DEF WriteWhole
  <2>2. CASE written + PartLeft # FrameLen
    <3>1. written + PartLeft < FrameLen
      BY <1>0, <1>1, <2>2
    <3> QED BY <1>0, <1>1, <1>2, <2>2, <3>1, OnKeepsSendInv DEF WriteWhole
  <2> QED BY <2>1, <2>2
<1>3. ASSUME NEW n \in 0..FrameLen, WriteTimesOut(f, n) PROVE SendInv'
  <2>0. n \in Nat /\ n <= PartLeft /\ written + n <= FrameLen
    BY <1>0, <1>1, <1>3 DEF WriteTimesOut
  <2>1. CASE n < PartLeft /\ Resumes(written + n) /\ pipe
    <3>1. written + n < FrameLen /\ written + n > 0
      BY <1>0, <1>1, <2>0, <2>1 DEF Resumes
    <3>2. CASE n > 0
      BY <1>0, <1>3, <2>0, <2>1, <3>1, <3>2, OnKeepsSendInv DEF WriteTimesOut
    <3>3. CASE n = 0
      <4>1. stream' = stream
        BY <1>0, <1>3, <2>0, <3>3, TakenKeepsFrames DEF WriteTimesOut
      <4>2. UNCHANGED <<conn, frame, writeMu, written, stream>>
        BY <1>0, <1>3, <2>1, <3>3, <4>1 DEF WriteTimesOut
      <4> QED BY <4>2 DEF SendInv, SendTypeOK, WriterHolds, HostFollows, AtFrameEnd,
                          SeenAsWritten, Unseen, WholeFrames
    <3> QED BY <2>0, <3>2, <3>3
  <2>2. CASE ~(n < PartLeft /\ Resumes(written + n) /\ pipe)
    BY <1>0, <1>3, <2>0, <2>2, GiveUpKeepsSendInv DEF WriteTimesOut
  <2> QED BY <2>1, <2>2
<1>4. ASSUME NEW n \in 0..FrameLen, WriteFails(f, n) PROVE SendInv'
  <2>0. n \in Nat /\ written + n <= FrameLen
    BY <1>0, <1>1, <1>4 DEF WriteFails
  <2> QED BY <1>0, <1>4, <2>0, GiveUpKeepsSendInv DEF WriteFails
<1> QED BY <1>2, <1>3, <1>4

(* Every step of the transport keeps the invariant of the frames.          *)
LEMMA NextKeepsSendInv ==
    ASSUME SendInv, Next
    PROVE  SendInv'
<1>1. CASE ServeReturns
  BY <1>1, ServeKeepsSendInv
<1>2. CASE \E f \in Frames :
          ReadCall(f) \/ Writing(f) \/ \E tooLarge \in BOOLEAN : Encoded(f, tooLarge)
  BY <1>2, ReadKeepsSendInv, BeginKeepsSendInv, WriteKeepsSendInv, CloseKeepsSendInv DEF Writing
<1> QED BY <1>1, <1>2 DEF Next

(* No frame, and nothing sent, when a core starts.                         *)
LEMMA FreshSendInv ==
    ASSUME conn \in BOOLEAN, frame = [f \in Frames |-> "none"], writeMu = None, written = 0,
           stream = <<>>
    PROVE  SendInv
<1> USE FrameHasBytes, IpcAssumption
<1>1. SendTypeOK /\ WriterHolds
  BY DEF SendTypeOK, WriterHolds, Frames
<1>2. HostFollows /\ SeenAsWritten /\ WholeFrames
  BY DEF HostFollows, AtFrameEnd, SeenAsWritten, Unseen, WholeFrames
<1> QED BY <1>1, <1>2 DEF SendInv

(* What the invariant says to the host.                                    *)
LEMMA SendInvSyncs == SendInv => StreamInSync
<1> SUFFICES ASSUME SendInv PROVE StreamInSync
  OBVIOUS
<1>1. HonestOutcome
  BY DEF SendInv, SeenAsWritten, Unseen, HonestOutcome
<1>2. TornMeansClosed
  <2> SUFFICES ASSUME stream # <<>>, stream[Len(stream)][2] < FrameLen
               PROVE  LET f == stream[Len(stream)][1] IN
                      \/ frame[f] = "writing" /\ written = stream[Len(stream)][2]
                      \/ ~conn
    BY DEF TornMeansClosed
  <2>0. ~AtFrameEnd
    BY FrameHasBytes DEF AtFrameEnd
  <2>1. CASE writeMu = None
    BY <2>0, <2>1 DEF SendInv, HostFollows
  <2>2. CASE writeMu # None
    <3>1. writeMu \in Frames /\ written > 0 /\ stream[Len(stream)] = <<writeMu, written>>
      BY <2>0, <2>2, FrameHasBytes DEF SendInv, SendTypeOK, HostFollows
    <3>2. frame[writeMu] = "writing" \/ ~conn
      BY <3>1 DEF SendInv, WriterHolds
    <3> QED BY <3>1, <3>2
  <2> QED BY <2>1, <2>2
<1> QED BY <1>1, <1>2 DEF SendInv, StreamInSync

-----------------------------------------------------------------------------
(* The files.                                                              *)

CompilePlaces == {"fetch", "clear", "create", "write", "rename"}
Places == CompilePlaces \cup {"idle", "lock", "merge", "parse", "spill", "fill", "reply", "ended"}

HandlerTypeOK ==
    /\ view \in {"frames", "compile", "setup", "list", "unknown"}
    /\ at \in [Calls -> Places]
    /\ part \in [Calls -> Parts]
    /\ text \in [Calls -> Calls \cup {None, "cut"}]
    /\ reply \in [Calls -> {None, "error", "kept", "compiled", "applied", "file", "inline", "lost",
                         "read", "spill_error"}]

(* A file that is whole is being written by nobody.                        *)
DiskTypeOK ==
    /\ file \in [Parts -> Copies \cup {None}]
    /\ temp \in [Parts -> Copies \cup {None}]
    /\ \A p \in Parts :
        /\ file[p] # None /\ file[p].whole => file[p].by = None
        /\ temp[p] # None /\ temp[p].whole => temp[p].by = None

(* A call runs once in the life of a core.                                 *)
RunsOnce == \A c \in Calls : at[c] # "idle" => frame[c] # "none"

(* Only the setup that holds configMu may have left the file ahead of the  *)
(* config in force, or one that a panic cut off.                           *)
ConfigKept ==
    /\ \A c \in Calls : at[c] \in {"merge", "parse"} => configMu = c
    /\ configMu # None => configMu \in Calls /\ at[configMu] \in {"merge", "parse"}
    /\ \/ cutOff
       \/ configMu # None /\ at[configMu] = "parse"
       \/ running \in {None, Default, config}

(* A file is there from its making until the host or an init removes it.   *)
KeepsSpilled(c) ==
    /\ at[c] = "fill" =>
        \/ Spilled(c, FALSE) \in responses
        \/ c \in swept /\ Without(c) = responses
    /\ at[c] \in {"reply", "ended"} /\ reply[c] = "file" =>
        \/ Spilled(c, TRUE) \in responses
        \/ c \in swept /\ Without(c) = responses

SpillKept == \A c \in Calls : KeepsSpilled(c)

(* Without overlap one compile is under way, and the temporary file is its *)
(* own from the moment it made it.                                         *)
OwnTemp ==
    ~overlapped =>
        /\ \A c, d \in Compiling : c = d
        /\ \A c \in Calls :
            /\ at[c] = "write" /\ temp[part[c]] # None => temp[part[c]].by = c
            /\ at[c] = "rename" /\ temp[part[c]] # None => temp[part[c]].whole
        /\ TornOnlyByOverlap

(* A lone compile finds at the temporary name what it put there, and has   *)
(* left the source whole once it is past it.                               *)
LoneFinds(c) ==
    /\ at[c] \in CompilePlaces \cup {"reply", "ended"}
    /\ Compiling \subseteq {c}
    /\ at[c] \in CompilePlaces \ {"fetch"} =>
           IF part[c] = "source" THEN text[c] = c
           ELSE text[c] = c => file["source"] = [text |-> c, whole |-> TRUE, by |-> None]
    /\ at[c] = "create" => temp[part[c]] = None
    /\ at[c] = "write" => temp[part[c]] = [text |-> text[c], whole |-> FALSE, by |-> c]
    /\ at[c] = "rename" => temp[part[c]] = [text |-> text[c], whole |-> TRUE, by |-> None]

LoneKept ==
    /\ lone \subseteq Calls
    /\ \A c \in lone : LoneFinds(c)
    /\ LoneCompileHeals

FilesInv ==
    HandlerTypeOK /\ DiskTypeOK /\ RunsOnce /\ ConfigKept /\ SpillKept /\ OwnTemp /\ LoneKept

(* A file of the rule set is not the constant that stands for none.        *)
LEMMA NewCopy ==
    ASSUME NEW t \in Calls \cup {None, "cut"}, NEW w \in BOOLEAN, NEW b \in Calls \cup {None}
    PROVE  /\ [text |-> t, whole |-> w, by |-> b] \in Copies
           /\ [text |-> t, whole |-> w, by |-> b] # None
<1>1. [text |-> t, whole |-> w, by |-> b] \in Copies
  BY DEF Copies
<1> QED BY <1>1, FileAssumption

(* What a write of c makes of the file f: it is filled if it is c's.       *)
FillsTo(f, c, g) ==
    /\ g \in Copies \cup {None}
    /\ g # None /\ g.whole => g.by = None
    /\ f # None <=> g # None
    /\ f # None /\ f.by = c => g = [text |-> f.text, whole |-> TRUE, by |-> None]
    /\ f = None \/ f.by # c => g = f

(* Filled does that.                                                       *)
LEMMA FilledFile ==
    ASSUME NEW f \in Copies \cup {None}, NEW c \in Calls, f # None /\ f.whole => f.by = None
    PROVE  FillsTo(f, c, Filled(f, c))
<1>1. CASE f # None /\ f.by = c
  <2>1. f \in Copies
    BY <1>1
  <2>2. Filled(f, c) = [text |-> f.text, whole |-> TRUE, by |-> None]
    BY <1>1, <2>1 DEF Filled, Copies
  <2>3. Filled(f, c) \in Copies
    BY <2>1, <2>2 DEF Copies
  <2>4. Filled(f, c) # None
    BY <2>3, FileAssumption
  <2>5. Filled(f, c).by = None
    BY <2>2
  <2> QED BY <1>1, <2>2, <2>3, <2>4, <2>5 DEF FillsTo
<1>2. CASE ~(f # None /\ f.by = c)
  BY <1>2 DEF Filled, FillsTo
<1> QED BY <1>1, <1>2

(* A file that is whole is written by nobody, of either name.              *)
LEMMA WholeIsDone ==
    ASSUME DiskTypeOK, NEW p \in Parts
    PROVE  /\ file[p] # None /\ file[p].whole => file[p].by = None
           /\ temp[p] # None /\ temp[p].whole => temp[p].by = None
  BY DEF DiskTypeOK

(* While a compile is under way no other one can have run alone.           *)
LEMMA OnlyLone ==
    ASSUME FilesInv, NEW c \in Calls, at[c] \in CompilePlaces
    PROVE  lone \subseteq {c}
<1>1. c \in Compiling
  BY DEF Compiling, CompilePlaces
<1>2. \A d \in lone : Compiling \subseteq {d}
  BY DEF FilesInv, LoneKept, LoneFinds
<1> QED BY <1>1, <1>2

(* A call that is not the lone one and compiles nothing leaves it alone.   *)
LEMMA OthersKeepLone ==
    ASSUME FilesInv, NEW c \in Calls, c \notin lone, lone' = lone, UNCHANGED <<part, text, file, temp>>,
           NEW x, x \notin CompilePlaces, at' = [at EXCEPT ![c] = x],
           \A d \in Calls : d # c => reply'[d] = reply[d]
    PROVE  LoneKept'
  BY DEF FilesInv, HandlerTypeOK, LoneKept, LoneFinds, LoneCompileHeals, Compiling, CompilePlaces

(* A panic leaves the files as they are and gives configMu back.           *)
LEMMA PanicKeepsFilesInv ==
    ASSUME FilesInv, UNCHANGED view, NEW c \in Calls, Panics(c)
    PROVE  FilesInv'
<1> USE IpcAssumption, FileAssumption DEF Panics, Answer, Move, Working, vars, spillVars
<1>1. HandlerTypeOK'
  BY DEF FilesInv, HandlerTypeOK, Parts, Places, CompilePlaces
<1>7. DiskTypeOK'
  BY DEF FilesInv, DiskTypeOK
<1>2. RunsOnce'
  BY DEF FilesInv, HandlerTypeOK, RunsOnce
<1>3. ConfigKept'
  BY DEF FilesInv, HandlerTypeOK, ConfigKept
<1>4. SpillKept'
  BY DEF FilesInv, HandlerTypeOK, SpillKept, KeepsSpilled, Spilled, Without
<1>5. OwnTemp'
  BY DEF FilesInv, HandlerTypeOK, DiskTypeOK, OwnTemp, TornOnlyByOverlap, Compiling
<1>6. LoneKept'
  BY DEF FilesInv, HandlerTypeOK, DiskTypeOK, LoneKept, LoneFinds, LoneCompileHeals, Compiling, CompilePlaces
<1> QED BY <1>1, <1>2, <1>3, <1>4, <1>5, <1>6, <1>7 DEF FilesInv

(* A reply that is sent touches no file.                                   *)
LEMMA ReplyKeepsFilesInv ==
    ASSUME FilesInv, UNCHANGED view, NEW c \in Calls, Reply(c)
    PROVE  FilesInv'
<1> USE IpcAssumption, FileAssumption DEF Reply, Move, vars, diskVars, historyVars, spillVars
<1>1. HandlerTypeOK'
  BY DEF FilesInv, HandlerTypeOK, Parts, Places, CompilePlaces
<1>7. DiskTypeOK'
  BY DEF FilesInv, DiskTypeOK
<1>2. RunsOnce'
  BY DEF FilesInv, HandlerTypeOK, RunsOnce
<1>3. ConfigKept'
  BY DEF FilesInv, HandlerTypeOK, ConfigKept
<1>4. SpillKept'
  BY DEF FilesInv, HandlerTypeOK, SpillKept, KeepsSpilled, Spilled, Without
<1>5. OwnTemp'
  BY DEF FilesInv, HandlerTypeOK, DiskTypeOK, OwnTemp, TornOnlyByOverlap, Compiling
<1>6. LoneKept'
  BY DEF FilesInv, HandlerTypeOK, DiskTypeOK, LoneKept, LoneFinds, LoneCompileHeals, Compiling, CompilePlaces
<1> QED BY <1>1, <1>2, <1>3, <1>4, <1>5, <1>6, <1>7 DEF FilesInv

(* What is at the temporary name goes.                                     *)
LEMMA ClearKeepsFilesInv ==
    ASSUME FilesInv, UNCHANGED view, NEW c \in Calls, ClearTemp(c)
    PROVE  FilesInv'
<1> USE IpcAssumption, FileAssumption DEF ClearTemp, RemoveTemp, Move, vars, historyVars, spillVars
<1>1. HandlerTypeOK'
  BY DEF FilesInv, HandlerTypeOK, Parts, Places, CompilePlaces
<1>7. DiskTypeOK'
  BY DEF FilesInv, DiskTypeOK
<1>2. RunsOnce'
  BY DEF FilesInv, HandlerTypeOK, RunsOnce
<1>3. ConfigKept'
  BY DEF FilesInv, HandlerTypeOK, ConfigKept
<1>4. SpillKept'
  BY DEF FilesInv, HandlerTypeOK, SpillKept, KeepsSpilled, Spilled, Without
<1>5. OwnTemp'
  BY DEF FilesInv, HandlerTypeOK, DiskTypeOK, OwnTemp, TornOnlyByOverlap, Compiling
<1>6. LoneKept'
  BY DEF FilesInv, HandlerTypeOK, DiskTypeOK, LoneKept, LoneFinds, LoneCompileHeals, Compiling, CompilePlaces
<1> QED BY <1>1, <1>2, <1>3, <1>4, <1>5, <1>6, <1>7 DEF FilesInv

(* A lone compile finds the temporary name free.                           *)
LEMMA CreateKeepsFilesInv ==
    ASSUME FilesInv, UNCHANGED view, NEW c \in Calls, CreateTemp(c)
    PROVE  FilesInv'
<1> USE IpcAssumption, FileAssumption DEF CreateTemp, Answer, Move, vars, historyVars, spillVars
<1>1. HandlerTypeOK'
  BY DEF FilesInv, HandlerTypeOK, Parts, Places, CompilePlaces
<1>7. DiskTypeOK'
  <2>1. part[c] \in Parts /\ [text |-> text[c], whole |-> FALSE, by |-> c] \in Copies
    BY DEF FilesInv, HandlerTypeOK, Copies
  <2> QED BY <2>1 DEF FilesInv, DiskTypeOK
<1>2. RunsOnce'
  BY DEF FilesInv, HandlerTypeOK, RunsOnce
<1>3. ConfigKept'
  BY DEF FilesInv, HandlerTypeOK, ConfigKept
<1>4. SpillKept'
  BY DEF FilesInv, HandlerTypeOK, SpillKept, KeepsSpilled, Spilled, Without
<1>5. OwnTemp'
  BY DEF FilesInv, HandlerTypeOK, DiskTypeOK, OwnTemp, TornOnlyByOverlap, Compiling
<1>6. LoneKept'
  <2>1. lone \subseteq {c}
    BY OnlyLone DEF CompilePlaces
  <2>2. c \in lone => temp[part[c]] = None
    BY DEF FilesInv, LoneKept, LoneFinds
  <2>3. c \in lone => at' = [at EXCEPT ![c] = "write"]
                      /\ temp' = [temp EXCEPT ![part[c]] = [text |-> text[c], whole |-> FALSE, by |-> c]]
    BY <2>2
  <2>4. ASSUME c \in lone PROVE LoneFinds(c)'
    <3>1. /\ Compiling \subseteq {c}
          /\ IF part[c] = "source" THEN text[c] = c
             ELSE text[c] = c => file["source"] = [text |-> c, whole |-> TRUE, by |-> None]
      BY <2>4 DEF FilesInv, LoneKept, LoneFinds, CompilePlaces
    <3>2. Compiling' \subseteq {c} /\ at'[c] = "write"
      BY <2>3, <2>4, <3>1 DEF FilesInv, HandlerTypeOK, Compiling
    <3>3. temp'[part[c]] = [text |-> text[c], whole |-> FALSE, by |-> c]
      BY <2>3, <2>4 DEF FilesInv, HandlerTypeOK, DiskTypeOK
    <3> QED BY <3>1, <3>2, <3>3 DEF LoneFinds, CompilePlaces
  <2>5. LoneCompileHeals'
    BY <2>1, <2>3 DEF FilesInv, HandlerTypeOK, LoneCompileHeals
  <2> QED BY <2>1, <2>4, <2>5 DEF FilesInv, LoneKept
<1> QED BY <1>1, <1>2, <1>3, <1>4, <1>5, <1>6, <1>7 DEF FilesInv

(* The write fills the file its call has made, wherever it is.             *)
LEMMA WriteKeepsFilesInv ==
    ASSUME FilesInv, UNCHANGED view, NEW c \in Calls, WriteTemp(c)
    PROVE  FilesInv'
<1> USE IpcAssumption, FileAssumption DEF WriteTemp, Move, vars, historyVars, spillVars
<1>8. \A p \in Parts : FillsTo(file[p], c, file'[p]) /\ FillsTo(temp[p], c, temp'[p])
  <2> SUFFICES ASSUME NEW p \in Parts
               PROVE  FillsTo(file[p], c, file'[p]) /\ FillsTo(temp[p], c, temp'[p])
    OBVIOUS
  <2>1. file[p] \in Copies \cup {None} /\ temp[p] \in Copies \cup {None}
    BY DEF FilesInv, DiskTypeOK
  <2>2. (file[p] # None /\ file[p].whole => file[p].by = None)
        /\ (temp[p] # None /\ temp[p].whole => temp[p].by = None)
    BY WholeIsDone DEF FilesInv
  <2>3. file'[p] = Filled(file[p], c) /\ temp'[p] = Filled(temp[p], c)
    OBVIOUS
  <2> QED BY <2>1, <2>2, <2>3, FilledFile
<1>9. part[c] \in Parts /\ "source" \in Parts
  BY DEF FilesInv, HandlerTypeOK, Parts
<1>1. HandlerTypeOK'
  BY DEF FilesInv, HandlerTypeOK, Parts, Places, CompilePlaces
<1>7. DiskTypeOK'
  <2>1. \A p \in Parts : file'[p] \in Copies \cup {None} /\ temp'[p] \in Copies \cup {None}
    BY <1>8 DEF FillsTo
  <2>2. file' \in [Parts -> Copies \cup {None}] /\ temp' \in [Parts -> Copies \cup {None}]
    BY <2>1
  <2> QED BY <1>8, <2>2 DEF DiskTypeOK, FillsTo
<1>2. RunsOnce'
  BY DEF FilesInv, HandlerTypeOK, RunsOnce
<1>3. ConfigKept'
  BY DEF FilesInv, HandlerTypeOK, ConfigKept
<1>4. SpillKept'
  BY DEF FilesInv, HandlerTypeOK, SpillKept, KeepsSpilled, Spilled, Without
<1>5. OwnTemp'
  <2> SUFFICES ASSUME ~overlapped PROVE OwnTemp'
    BY DEF OwnTemp
  <2>1. \A d \in Compiling : d = c
    BY DEF FilesInv, OwnTemp, Compiling
  <2>2. \A d \in Compiling' : d = c
    BY <2>1 DEF FilesInv, HandlerTypeOK, Compiling
  <2>3. temp[part[c]] # None => temp[part[c]].by = c
    BY DEF FilesInv, OwnTemp
  <2>4. temp'[part[c]] # None => temp'[part[c]].whole
    <3>1. temp'[part[c]] # None => temp'[part[c]] = [text |-> temp[part[c]].text, whole |-> TRUE, by |-> None]
      BY <1>8, <1>9, <2>3 DEF FillsTo
    <3> QED BY <3>1
  <2>5. \A p \in Parts : file'[p] # None => file'[p].whole
    <3> SUFFICES ASSUME NEW p \in Parts, file'[p] # None PROVE file'[p].whole
      OBVIOUS
    <3>1. file[p] # None
      BY <1>8 DEF FillsTo
    <3>2. file[p].whole
      BY <3>1 DEF FilesInv, OwnTemp, TornOnlyByOverlap
    <3>3. CASE file[p].by = c
      <4>1. file'[p] = [text |-> file[p].text, whole |-> TRUE, by |-> None]
        BY <1>8, <3>1, <3>3 DEF FillsTo
      <4> QED BY <4>1
    <3>4. CASE file[p].by # c
      <4>1. file'[p] = file[p]
        BY <1>8, <3>1, <3>4 DEF FillsTo
      <4> QED BY <3>2, <4>1
    <3> QED BY <3>3, <3>4
  <2>6. \A d \in Calls : at'[d] \in {"write", "rename"} => d = c /\ at'[d] = "rename"
    BY <2>2 DEF FilesInv, HandlerTypeOK, Compiling
  <2> QED BY <2>2, <2>4, <2>5, <2>6 DEF OwnTemp, TornOnlyByOverlap
<1>6. LoneKept'
  <2>1. lone \subseteq {c}
    BY OnlyLone DEF CompilePlaces
  <2>2. ASSUME c \in lone PROVE LoneFinds(c)'
    <3>1. /\ Compiling \subseteq {c}
          /\ temp[part[c]] = [text |-> text[c], whole |-> FALSE, by |-> c]
          /\ IF part[c] = "source" THEN text[c] = c
             ELSE text[c] = c => file["source"] = [text |-> c, whole |-> TRUE, by |-> None]
      BY <2>2 DEF FilesInv, LoneKept, LoneFinds, CompilePlaces
    <3>2. [text |-> text[c], whole |-> FALSE, by |-> c] # None
      BY NewCopy DEF FilesInv, HandlerTypeOK
    <3>3. temp[part[c]] # None /\ temp[part[c]].by = c /\ temp[part[c]].text = text[c]
      BY <3>1, <3>2
    <3>4. temp'[part[c]] = [text |-> text[c], whole |-> TRUE, by |-> None]
      BY <1>8, <1>9, <3>3 DEF FillsTo
    <3>5. file["source"] = [text |-> c, whole |-> TRUE, by |-> None] => file'["source"] = file["source"]
      <4>1. file["source"] = [text |-> c, whole |-> TRUE, by |-> None] => file["source"].by # c
        OBVIOUS
      <4> QED BY <1>8, <1>9, <4>1 DEF FillsTo
    <3>6. Compiling' \subseteq {c} /\ at'[c] = "rename"
      BY <3>1 DEF FilesInv, HandlerTypeOK, Compiling
    <3> QED BY <3>1, <3>4, <3>5, <3>6 DEF LoneFinds, CompilePlaces
  <2>3. LoneCompileHeals'
    BY <2>1 DEF FilesInv, HandlerTypeOK, LoneCompileHeals
  <2> QED BY <2>1, <2>2, <2>3 DEF FilesInv, LoneKept
<1> QED BY <1>1, <1>2, <1>3, <1>4, <1>5, <1>6, <1>7 DEF FilesInv

(* A write that fails takes the temporary file away.                       *)
LEMMA WriteFailsKeepsFilesInv ==
    ASSUME FilesInv, UNCHANGED view, NEW c \in Calls, WriteTempFails(c)
    PROVE  FilesInv'
<1> USE IpcAssumption, FileAssumption DEF WriteTempFails, Answer, Move, vars, spillVars
<1>1. HandlerTypeOK'
  BY DEF FilesInv, HandlerTypeOK, Parts, Places, CompilePlaces
<1>7. DiskTypeOK'
  BY DEF FilesInv, DiskTypeOK
<1>2. RunsOnce'
  BY DEF FilesInv, HandlerTypeOK, RunsOnce
<1>3. ConfigKept'
  BY DEF FilesInv, HandlerTypeOK, ConfigKept
<1>4. SpillKept'
  BY DEF FilesInv, HandlerTypeOK, SpillKept, KeepsSpilled, Spilled, Without
<1>5. OwnTemp'
  BY DEF FilesInv, HandlerTypeOK, DiskTypeOK, OwnTemp, TornOnlyByOverlap, Compiling
<1>6. LoneKept'
  BY DEF FilesInv, HandlerTypeOK, DiskTypeOK, LoneKept, LoneFinds, LoneCompileHeals, Compiling, CompilePlaces
<1> QED BY <1>1, <1>2, <1>3, <1>4, <1>5, <1>6, <1>7 DEF FilesInv

(* What is renamed over the file is whole, unless compiles overlapped.     *)
LEMMA RenameKeepsFilesInv ==
    ASSUME FilesInv, UNCHANGED view, NEW c \in Calls, RenameTemp(c)
    PROVE  FilesInv'
<1> USE IpcAssumption, FileAssumption DEF RenameTemp, MayRename, AfterSource, Answer, Move, vars, historyVars, spillVars
<1>1. HandlerTypeOK'
  BY DEF FilesInv, HandlerTypeOK, Parts, Places, CompilePlaces
<1>7. DiskTypeOK'
  <2>1. part[c] \in Parts
    BY DEF FilesInv, HandlerTypeOK
  <2> QED BY <2>1 DEF FilesInv, DiskTypeOK
<1>2. RunsOnce'
  BY DEF FilesInv, HandlerTypeOK, RunsOnce
<1>3. ConfigKept'
  BY DEF FilesInv, HandlerTypeOK, ConfigKept
<1>4. SpillKept'
  BY DEF FilesInv, HandlerTypeOK, SpillKept, KeepsSpilled, Spilled, Without
<1>5. OwnTemp'
  BY DEF FilesInv, HandlerTypeOK, DiskTypeOK, OwnTemp, TornOnlyByOverlap, Compiling
<1>6. LoneKept'
  <2>1. lone \subseteq {c} /\ lone' = lone
    BY OnlyLone DEF CompilePlaces
  <2>2. SUFFICES ASSUME c \in lone
                 PROVE  /\ LoneFinds(c)'
                        /\ at'[c] \in {"reply", "ended"} =>
                            /\ reply'[c] \in {"compiled", "kept"}
                            /\ text'[c] = c => file'["source"] = [text |-> c, whole |-> TRUE, by |-> None]
                            /\ reply'[c] = "compiled" =>
                                   file'["mrs"] = [text |-> text'[c], whole |-> TRUE, by |-> None]
    BY <2>1 DEF FilesInv, LoneKept, LoneCompileHeals
  <2>3. /\ Compiling \subseteq {c}
        /\ temp[part[c]] = [text |-> text[c], whole |-> TRUE, by |-> None]
        /\ IF part[c] = "source" THEN text[c] = c
           ELSE text[c] = c => file["source"] = [text |-> c, whole |-> TRUE, by |-> None]
    BY <2>2 DEF FilesInv, LoneKept, LoneFinds, CompilePlaces
  <2>4. part[c] \in {"source", "mrs"} /\ DOMAIN file = {"source", "mrs"}
    BY DEF FilesInv, HandlerTypeOK, DiskTypeOK, Parts
  <2>5. temp[part[c]] # None
    <3>1. [text |-> text[c], whole |-> TRUE, by |-> None] # None
      BY NewCopy DEF FilesInv, HandlerTypeOK
    <3> QED BY <2>3, <3>1
  <2>6. file' = [file EXCEPT ![part[c]] = [text |-> text[c], whole |-> TRUE, by |-> None]] /\ text' = text
    BY <2>3, <2>5
  <2>7. Compiling' \subseteq {c}
    BY <2>3 DEF FilesInv, HandlerTypeOK, Compiling
  <2>8. CASE part[c] = "source"
    <3>1. text[c] = c /\ file'["source"] = [text |-> c, whole |-> TRUE, by |-> None]
      BY <2>3, <2>4, <2>6, <2>8
    <3>2. CASE part' = [part EXCEPT ![c] = "mrs"] /\ at' = [at EXCEPT ![c] = "clear"]
      BY <2>6, <2>7, <3>1, <3>2 DEF LoneFinds, CompilePlaces, FilesInv, HandlerTypeOK
    <3>3. CASE at' = [at EXCEPT ![c] = "reply"] /\ reply' = [reply EXCEPT ![c] = "kept"]
      BY <2>6, <2>7, <3>1, <3>3 DEF LoneFinds, CompilePlaces, FilesInv, HandlerTypeOK
    <3> QED BY <2>5, <2>8, <3>2, <3>3
  <2>9. CASE part[c] = "mrs"
    <3>1. at' = [at EXCEPT ![c] = "reply"] /\ reply' = [reply EXCEPT ![c] = "compiled"]
      BY <2>5, <2>9
    <3>2. file'["source"] = file["source"] /\ file'["mrs"] = [text |-> text[c], whole |-> TRUE, by |-> None]
      BY <2>4, <2>6, <2>9
    <3> QED BY <2>3, <2>6, <2>7, <2>9, <3>1, <3>2 DEF LoneFinds, CompilePlaces, FilesInv, HandlerTypeOK
  <2> QED BY <2>4, <2>8, <2>9
<1> QED BY <1>1, <1>2, <1>3, <1>4, <1>5, <1>6, <1>7 DEF FilesInv

(* The source is downloaded, read from the file or refused.                *)
LEMMA FetchKeepsFilesInv ==
    ASSUME FilesInv, UNCHANGED view, NEW c \in Calls, Download(c) \/ ReadSource(c) \/ FetchFails(c)
    PROVE  FilesInv'
<1> USE IpcAssumption, FileAssumption DEF Download, ReadSource, FetchFails, AfterSource, Answer, Move, vars, diskVars, historyVars, spillVars
<1>0. "source" \in Parts /\ (file["source"] # None => file["source"].text \in Calls \cup {None, "cut"})
  BY DEF FilesInv, DiskTypeOK, Parts, Copies
<1>1. HandlerTypeOK'
  BY <1>0 DEF FilesInv, HandlerTypeOK, Parts, Places, CompilePlaces
<1>7. DiskTypeOK'
  BY DEF FilesInv, DiskTypeOK
<1>2. RunsOnce'
  BY DEF FilesInv, HandlerTypeOK, RunsOnce
<1>3. ConfigKept'
  BY DEF FilesInv, HandlerTypeOK, ConfigKept
<1>4. SpillKept'
  BY DEF FilesInv, HandlerTypeOK, SpillKept, KeepsSpilled, Spilled, Without
<1>5. OwnTemp'
  BY DEF FilesInv, HandlerTypeOK, DiskTypeOK, OwnTemp, TornOnlyByOverlap, Compiling
<1>6. LoneKept'
  <2>1. lone \subseteq {c} /\ lone' \subseteq lone
    BY OnlyLone DEF CompilePlaces
  <2>2. SUFFICES ASSUME c \in lone'
                 PROVE  /\ LoneFinds(c)'
                        /\ at'[c] \in {"reply", "ended"} =>
                            /\ reply'[c] \in {"compiled", "kept"}
                            /\ text'[c] = c => file'["source"] = [text |-> c, whole |-> TRUE, by |-> None]
                            /\ reply'[c] = "compiled" =>
                                   file'["mrs"] = [text |-> text'[c], whole |-> TRUE, by |-> None]
    BY <2>1 DEF FilesInv, LoneKept, LoneCompileHeals
  <2>3. Compiling \subseteq {c}
    BY <2>1, <2>2 DEF FilesInv, LoneKept, LoneFinds
  <2>4. Compiling' \subseteq {c}
    BY <2>3 DEF FilesInv, HandlerTypeOK, Compiling
  <2>5. CASE Download(c)
    BY <2>4, <2>5 DEF LoneFinds, CompilePlaces, FilesInv, HandlerTypeOK
  <2>6. CASE ReadSource(c)
    <3>1. text' = [text EXCEPT ![c] = IF file["source"].whole THEN file["source"].text ELSE "cut"]
          /\ file' = file /\ file["source"] # None
      BY <2>6
    <3>2. text'[c] = c => file["source"].whole /\ file["source"].text = c
      BY <3>1 DEF FilesInv, HandlerTypeOK
    <3>3. file["source"] \in Copies /\ (file["source"].whole => file["source"].by = None)
      <4>1. file["source"] \in Copies
        BY <1>0, <3>1 DEF FilesInv, DiskTypeOK
      <4>2. \A p \in Parts : file[p] # None /\ file[p].whole => file[p].by = None
        BY WholeIsDone DEF FilesInv
      <4>3. file["source"].whole => file["source"].by = None
        BY <1>0, <3>1, <4>2
      <4> QED BY <4>1, <4>3
    <3>4. text'[c] = c => file["source"] = [text |-> c, whole |-> TRUE, by |-> None]
      BY <3>2, <3>3 DEF Copies
    <3>5. CASE part' = [part EXCEPT ![c] = "mrs"] /\ at' = [at EXCEPT ![c] = "clear"]
      BY <2>4, <3>1, <3>4, <3>5 DEF LoneFinds, CompilePlaces, FilesInv, HandlerTypeOK
    <3>6. CASE at' = [at EXCEPT ![c] = "reply"] /\ reply' = [reply EXCEPT ![c] = "kept"]
      BY <2>4, <3>1, <3>4, <3>6 DEF LoneFinds, CompilePlaces, FilesInv, HandlerTypeOK
    <3> QED BY <2>6, <3>5, <3>6
  <2>7. CASE FetchFails(c)
    BY <2>2, <2>7
  <2> QED BY <2>5, <2>6, <2>7
<1> QED BY <1>1, <1>2, <1>3, <1>4, <1>5, <1>6, <1>7 DEF FilesInv

(* A setup replaces the file and the config in force under configMu.       *)
LEMMA SetupKeepsFilesInv ==
    ASSUME FilesInv, UNCHANGED view, NEW c \in Calls, Setup(c)
    PROVE  FilesInv'
<1> USE IpcAssumption, FileAssumption DEF Setup, LockConfig, LoadConfig, ReplaceConfig, ApplyConfig, InForce, Answer, Move, vars, historyVars, spillVars
<1>1. HandlerTypeOK'
  BY DEF FilesInv, HandlerTypeOK, Parts, Places, CompilePlaces
<1>7. DiskTypeOK'
  BY DEF FilesInv, DiskTypeOK
<1>2. RunsOnce'
  BY DEF FilesInv, HandlerTypeOK, RunsOnce
<1>3. ConfigKept'
  BY DEF FilesInv, HandlerTypeOK, ConfigKept
<1>4. SpillKept'
  BY DEF FilesInv, HandlerTypeOK, SpillKept, KeepsSpilled, Spilled, Without
<1>5. OwnTemp'
  BY DEF FilesInv, HandlerTypeOK, DiskTypeOK, OwnTemp, TornOnlyByOverlap, Compiling
<1>6. LoneKept'
  <2>1. at[c] \in {"lock", "merge", "parse"} /\ c \notin lone
    BY DEF FilesInv, LoneKept, LoneFinds, CompilePlaces
  <2>2. PICK x \in {"merge", "parse", "reply"} : at' = [at EXCEPT ![c] = x]
    OBVIOUS
  <2>3. \A d \in Calls : d # c => reply'[d] = reply[d]
    BY DEF FilesInv, HandlerTypeOK
  <2>4. lone' = lone /\ UNCHANGED <<part, text, file, temp>>
    OBVIOUS
  <2> QED BY <2>1, <2>2, <2>3, <2>4, OthersKeepLone DEF CompilePlaces
<1> QED BY <1>1, <1>2, <1>3, <1>4, <1>5, <1>6, <1>7 DEF FilesInv

(* A reply is spilled to a file of its own, or sent as it is.              *)
LEMMA SpillKeepsFilesInv ==
    ASSUME FilesInv, UNCHANGED view, NEW c \in Calls, Spill(c)
    PROVE  FilesInv'
<1> USE IpcAssumption, FileAssumption DEF Spill, SpillCreate, SpillWrite, SpillFails, SpillFallback, Answer, Move, vars, diskVars, historyVars, spillVars
<1>1. HandlerTypeOK'
  BY DEF FilesInv, HandlerTypeOK, Parts, Places, CompilePlaces
<1>7. DiskTypeOK'
  BY DEF FilesInv, DiskTypeOK
<1>2. RunsOnce'
  BY DEF FilesInv, HandlerTypeOK, RunsOnce
<1>0. /\ at[c] \in {"spill", "fill"}
      /\ \/ at' = [at EXCEPT ![c] = "fill"]
         \/ at' = [at EXCEPT ![c] = "reply"]
      /\ UNCHANGED <<part, text, file, temp, config, running, configMu, doomed, swept,
                    crashes, lone, overlapped, cutOff>>
  OBVIOUS
<1>3. ConfigKept'
  <2> HIDE DEF Spill, SpillCreate, SpillWrite, SpillFails
  <2> QED BY <1>0 DEF FilesInv, HandlerTypeOK, ConfigKept
<1>8. ASSUME NEW d \in Calls, d # c, NEW whole \in BOOLEAN
      PROVE  /\ Spilled(d, whole) \in responses => Spilled(d, whole) \in responses'
             /\ Without(d) = responses => Without(d)' = responses'
             /\ at'[d] = at[d] /\ reply'[d] = reply[d]
  <2>1. at'[d] = at[d] /\ reply'[d] = reply[d]
    BY <1>8 DEF FilesInv, HandlerTypeOK
  <2>2. Spilled(d, whole) \in responses => Spilled(d, whole) \in responses'
    BY <1>8 DEF Spilled
  <2>3. Without(d) = responses => \A r \in responses : r.call # d
    BY DEF Without
  <2>4. \A r \in responses' : r \in responses \/ r.call = c
    BY DEF Spilled
  <2>5. (\A r \in responses' : r.call # d) => Without(d)' = responses'
    BY DEF Without
  <2> QED BY <1>8, <2>1, <2>2, <2>3, <2>4, <2>5
<1>9. ASSUME SpillCreate(c) PROVE KeepsSpilled(c)'
  <2>1. at'[c] = "fill" /\ Spilled(c, FALSE) \in responses'
    BY <1>9 DEF FilesInv, HandlerTypeOK
  <2> QED BY <2>1 DEF KeepsSpilled
<1>10. ASSUME SpillWrite(c) PROVE KeepsSpilled(c)'
  <2>1. at[c] = "fill" /\ at'[c] = "reply"
    BY <1>10 DEF FilesInv, HandlerTypeOK
  <2>2. Spilled(c, FALSE) \in responses => Spilled(c, TRUE) \in responses'
    BY <1>10
  <2>3. Spilled(c, FALSE) \notin responses =>
            responses' = responses /\ c \in swept /\ Without(c) = responses
    BY <1>10, <2>1 DEF FilesInv, SpillKept, KeepsSpilled
  <2>4. Spilled(c, TRUE) \in responses' \/ (c \in swept' /\ Without(c)' = responses')
    BY <1>0, <2>2, <2>3 DEF Without
  <2> QED BY <2>1, <2>4 DEF KeepsSpilled
<1>11. ASSUME SpillFails(c) PROVE KeepsSpilled(c)'
  <2>1. at'[c] = "reply" /\ reply'[c] = "inline"
    BY <1>11 DEF FilesInv, HandlerTypeOK
  <2> QED BY <2>1 DEF KeepsSpilled
<1>12. KeepsSpilled(c)'
  BY <1>9, <1>10, <1>11 DEF Spill
<1>4. SpillKept'
  <2> HIDE DEF Spill, SpillCreate, SpillWrite, SpillFails
  <2>1. \A d \in Calls : d # c => KeepsSpilled(d)'
    BY <1>0, <1>8 DEF FilesInv, SpillKept, KeepsSpilled
  <2> QED BY <1>12, <2>1 DEF SpillKept, KeepsSpilled
<1>5. OwnTemp'
  <2> HIDE DEF Spill, SpillCreate, SpillWrite, SpillFails
  <2> QED BY <1>0 DEF FilesInv, HandlerTypeOK, DiskTypeOK, OwnTemp, TornOnlyByOverlap, Compiling
<1>6. LoneKept'
  <2>1. at[c] \in {"spill", "fill"} /\ c \notin lone
    BY DEF FilesInv, LoneKept, LoneFinds, CompilePlaces
  <2>2. PICK x \in {"fill", "reply"} : at' = [at EXCEPT ![c] = x]
    OBVIOUS
  <2>3. \A d \in Calls : d # c => reply'[d] = reply[d]
    BY DEF FilesInv, HandlerTypeOK
  <2>4. lone' = lone /\ UNCHANGED <<part, text, file, temp>>
    OBVIOUS
  <2> QED BY <2>1, <2>2, <2>3, <2>4, OthersKeepLone DEF CompilePlaces
<1> QED BY <1>1, <1>2, <1>3, <1>4, <1>5, <1>6, <1>7 DEF FilesInv

(* The host removes the file it has read, and no other.                    *)
LEMMA HostKeepsFilesInv ==
    ASSUME FilesInv, UNCHANGED view, NEW c \in Calls, HostReads(c)
    PROVE  FilesInv'
<1> USE IpcAssumption, FileAssumption DEF HostReads, vars, historyVars, spillVars
<1>1. HandlerTypeOK'
  BY DEF FilesInv, HandlerTypeOK, Parts, Places, CompilePlaces
<1>7. DiskTypeOK'
  BY DEF FilesInv, DiskTypeOK
<1>2. RunsOnce'
  BY DEF FilesInv, HandlerTypeOK, RunsOnce
<1>3. ConfigKept'
  BY DEF FilesInv, HandlerTypeOK, ConfigKept
<1>4. SpillKept'
  <2>1. at[c] = "ended" /\ reply'[c] # "file"
    BY DEF FilesInv, HandlerTypeOK
  <2>2. \A d \in Calls : d # c => reply'[d] = reply[d]
    BY DEF FilesInv, HandlerTypeOK
  <2>3. \A d \in Calls, whole \in BOOLEAN :
            d # c /\ Spilled(d, whole) \in responses => Spilled(d, whole) \in responses'
    BY DEF Spilled, Without
  <2>4. \A d \in Calls : Without(d) = responses => Without(d)' = responses'
    BY DEF Without
  <2> QED BY <2>1, <2>2, <2>3, <2>4 DEF FilesInv, SpillKept, KeepsSpilled
<1>5. OwnTemp'
  BY DEF FilesInv, HandlerTypeOK, DiskTypeOK, OwnTemp, TornOnlyByOverlap, Compiling
<1>6. LoneKept'
  BY DEF FilesInv, HandlerTypeOK, DiskTypeOK, LoneKept, LoneFinds, LoneCompileHeals, Compiling, CompilePlaces
<1> QED BY <1>1, <1>2, <1>3, <1>4, <1>5, <1>6, <1>7 DEF FilesInv

(* An init in a live core marks what it removes as removed.                *)
LEMMA InitKeepsFilesInv ==
    ASSUME FilesInv, UNCHANGED view, InitAgain \/ \E c \in Calls : RemoveListed(c)
    PROVE  FilesInv'
<1> USE DEF InitAgain, RemoveListed, vars, handlerVars, historyVars
<1>1. HandlerTypeOK' /\ DiskTypeOK' /\ RunsOnce' /\ ConfigKept'
  BY DEF FilesInv, HandlerTypeOK, DiskTypeOK, RunsOnce, ConfigKept
<1>2. SpillKept'
  BY DEF FilesInv, SpillKept, KeepsSpilled, Spilled, Without
<1>3. OwnTemp' /\ LoneKept'
  BY DEF FilesInv, OwnTemp, TornOnlyByOverlap, LoneKept, LoneFinds, LoneCompileHeals, Compiling
<1> QED BY <1>1, <1>2, <1>3 DEF FilesInv

(* A call that is read begins its handler, once.                           *)
LEMMA DispatchKeepsFilesInv ==
    ASSUME FilesInv, UNCHANGED view, SendTypeOK, view # "frames", NEW c \in Calls, Dispatch(c)
    PROVE  FilesInv'
<1> USE IpcAssumption, FileAssumption DEF Dispatch, ReadCall, Goto, Move, diskVars, spillVars
<1>0. at[c] = "idle" /\ c \in Frames
  BY DEF FilesInv, RunsOnce, Frames
<1>8. First[view] \in {"fetch", "lock", "spill", "reply"} /\ (view = "compile" => First[view] = "fetch")
  BY DEF First, FilesInv, HandlerTypeOK
<1>1. HandlerTypeOK'
  BY <1>0, <1>8 DEF FilesInv, HandlerTypeOK, Parts, Places, CompilePlaces
<1>7. DiskTypeOK'
  BY <1>0, <1>8 DEF FilesInv, DiskTypeOK
<1>2. RunsOnce'
  BY <1>0, <1>8 DEF FilesInv, HandlerTypeOK, RunsOnce, SendTypeOK
<1>3. ConfigKept'
  BY <1>0, <1>8 DEF FilesInv, HandlerTypeOK, ConfigKept
<1>4. SpillKept'
  BY <1>0, <1>8 DEF FilesInv, HandlerTypeOK, SpillKept, KeepsSpilled, Without
<1>5. OwnTemp'
  <2> SUFFICES ASSUME ~overlapped, Compiling = {} PROVE OwnTemp'
    BY DEF OwnTemp
  <2>1. \A d \in Calls : at'[d] = IF d = c THEN First[view] ELSE at[d]
    BY DEF FilesInv, HandlerTypeOK
  <2>2. \A d \in Calls : d # c => at'[d] \notin CompilePlaces
    BY <2>1 DEF Compiling, CompilePlaces
  <2>3. \A d \in Calls : at'[d] # "write" /\ at'[d] # "rename"
    BY <1>8, <2>1, <2>2 DEF CompilePlaces
  <2>4. \A d \in Compiling' : d = c
    BY <2>2 DEF Compiling, CompilePlaces
  <2>5. TornOnlyByOverlap'
    BY DEF FilesInv, OwnTemp, TornOnlyByOverlap
  <2> QED BY <2>3, <2>4, <2>5 DEF OwnTemp
<1>6. LoneKept'
  BY <1>0, <1>8 DEF FilesInv, HandlerTypeOK, DiskTypeOK, LoneKept, LoneFinds, LoneCompileHeals, Compiling, CompilePlaces
<1> QED BY <1>1, <1>2, <1>3, <1>4, <1>5, <1>6, <1>7 DEF FilesInv

(* A new core finds the files as they are, and nobody writing them.        *)
LEMMA RestartKeepsFilesInv ==
    ASSUME FilesInv, UNCHANGED view, Restart
    PROVE  FilesInv'
<1> USE IpcAssumption, FileAssumption DEF Restart
<1>1. HandlerTypeOK'
  BY DEF FilesInv, HandlerTypeOK, Parts, Places, CompilePlaces
<1>7. DiskTypeOK'
  <2>1. \A f \in Copies : [f EXCEPT !.by = None] \in Copies
    BY DEF Copies
  <2>2. \A f \in Copies : [f EXCEPT !.by = None].by = None
    BY DEF Copies
  <2> QED BY <2>1, <2>2 DEF FilesInv, DiskTypeOK
<1>2. RunsOnce'
  BY DEF FilesInv, HandlerTypeOK, RunsOnce
<1>3. ConfigKept'
  BY DEF FilesInv, HandlerTypeOK, ConfigKept
<1>4. SpillKept'
  BY DEF FilesInv, HandlerTypeOK, SpillKept, KeepsSpilled, Spilled, Without
<1>5. OwnTemp'
  BY DEF FilesInv, HandlerTypeOK, DiskTypeOK, OwnTemp, TornOnlyByOverlap, Compiling
<1>6. LoneKept'
  BY DEF FilesInv, HandlerTypeOK, DiskTypeOK, LoneKept, LoneFinds, LoneCompileHeals, Compiling, CompilePlaces
<1> QED BY <1>1, <1>2, <1>3, <1>4, <1>5, <1>6, <1>7 DEF FilesInv

(* The transport alone never forgets that a call was read.                 *)
LEMMA FramesKeepFilesInv ==
    ASSUME SendTypeOK, FilesInv, Next, UNCHANGED <<view, handlerVars, diskVars, historyVars>>
    PROVE  FilesInv'
<1> USE DEF handlerVars, diskVars, historyVars, spillVars
<1>1. \A f \in Frames : frame[f] # "none" => frame'[f] # "none"
  <2>1. ASSUME NEW f \in Frames, NEW x \in {"handling", "sending", "writing", "closing",
                                           "sent", "dropped", "torn"},
               frame' = [frame EXCEPT ![f] = x] \/ frame' = frame
        PROVE  \A g \in Frames : frame[g] # "none" => frame'[g] # "none"
    BY <2>1 DEF SendTypeOK
  <2>2. CASE ServeReturns
    BY <2>2 DEF ServeReturns
  <2>3. ASSUME NEW f \in Frames, ReadCall(f) \/ Writing(f) \/ \E tooLarge \in BOOLEAN : Encoded(f, tooLarge)
        PROVE  \E x \in {"handling", "sending", "writing", "closing", "sent", "dropped", "torn"} :
                   frame' = [frame EXCEPT ![f] = x] \/ frame' = frame
    BY <2>3 DEF ReadCall, Encoded, Writing, BeginSend, WriteWhole, CloseTorn, WriteTimesOut, WriteFails,
                GivesUp, Unlock, Goto
  <2> QED BY <2>1, <2>2, <2>3 DEF Next
<1>2. RunsOnce'
  BY <1>1 DEF FilesInv, HandlerTypeOK, RunsOnce, Frames
<1>3. HandlerTypeOK' /\ DiskTypeOK' /\ ConfigKept' /\ SpillKept'
  BY DEF FilesInv, HandlerTypeOK, DiskTypeOK, ConfigKept, SpillKept, KeepsSpilled, Without
<1>4. OwnTemp' /\ LoneKept'
  BY DEF FilesInv, OwnTemp, TornOnlyByOverlap, LoneKept, LoneFinds, LoneCompileHeals, Compiling
<1> QED BY <1>2, <1>3, <1>4 DEF FilesInv

(* Nothing is under way and no file written in the beginning.              *)
LEMMA InitFilesInv == RInit => SendInv /\ FilesInv
<1> SUFFICES ASSUME RInit PROVE SendInv /\ FilesInv
  OBVIOUS
<1> USE DEF RInit
<1>1. SendInv
  BY FreshSendInv DEF Init
<1>2. HandlerTypeOK
  BY DEF HandlerTypeOK, First, Parts, Places
<1>3. DiskTypeOK /\ RunsOnce /\ SpillKept /\ ConfigKept
  BY IpcAssumption DEF DiskTypeOK, RunsOnce, SpillKept, KeepsSpilled, ConfigKept
<1>4. OwnTemp /\ LoneKept
  BY DEF OwnTemp, TornOnlyByOverlap, LoneKept, LoneCompileHeals, Compiling
<1> QED BY <1>1, <1>2, <1>3, <1>4 DEF FilesInv

(* Every step of a handler, and a restart, keeps both invariants.          *)
LEMMA FilesKeepInv ==
    ASSUME SendInv, FilesInv, view # "frames", Files, UNCHANGED view
    PROVE  SendInv' /\ FilesInv'
<1>1. ASSUME NEW c \in Calls, Dispatch(c) PROVE SendInv' /\ FilesInv'
  <2>1. c \in Frames
    BY DEF Frames
  <2> QED BY <1>1, <2>1, ReadKeepsSendInv, DispatchKeepsFilesInv DEF Dispatch, SendInv
<1>2. CASE Restart
  <2>1. SendInv'
    BY <1>2, FreshSendInv, FrameHasBytes, IpcAssumption
    DEF Restart, SendInv, SendTypeOK, WriterHolds, HostFollows, AtFrameEnd, SeenAsWritten, Unseen,
        WholeFrames, Frames
  <2> QED BY <1>2, <2>1, RestartKeepsFilesInv
<1>3. ASSUME NEW c \in Calls, Handling(c) \/ Panics(c) \/ HostReads(c)
      PROVE  SendInv' /\ FilesInv'
  <2>1. UNCHANGED vars
    BY <1>3 DEF Handling, Compile, Download, ReadSource, FetchFails, ClearTemp, CreateTemp, WriteTemp,
                WriteTempFails, RenameTemp, Setup, LockConfig, LoadConfig, ApplyConfig, Spill,
                SpillCreate, SpillWrite, SpillFails, Reply, Panics, HostReads
  <2>2. SendInv'
    BY <2>1 DEF vars, SendInv, SendTypeOK, WriterHolds, HostFollows, AtFrameEnd, SeenAsWritten, Unseen,
                WholeFrames
  <2>3. FilesInv'
    BY <1>3, PanicKeepsFilesInv, HostKeepsFilesInv, ReplyKeepsFilesInv, SpillKeepsFilesInv,
       SetupKeepsFilesInv, FetchKeepsFilesInv, ClearKeepsFilesInv, CreateKeepsFilesInv,
       WriteKeepsFilesInv, WriteFailsKeepsFilesInv, RenameKeepsFilesInv DEF Handling, Compile
  <2> QED BY <2>2, <2>3
<1>4. CASE InitAgain \/ \E c \in Calls : RemoveListed(c)
  <2>1. UNCHANGED vars
    BY <1>4 DEF InitAgain, RemoveListed
  <2>2. SendInv'
    BY <2>1 DEF vars, SendInv, SendTypeOK, WriterHolds, HostFollows, AtFrameEnd, SeenAsWritten, Unseen,
                WholeFrames
  <2> QED BY <1>4, <2>2, InitKeepsFilesInv
<1> QED BY <1>1, <1>2, <1>3, <1>4 DEF Files

(* Every step keeps both invariants.                                       *)
LEMMA NextKeepsFilesInv == SendInv /\ FilesInv /\ [RNext]_allVars => SendInv' /\ FilesInv'
<1> SUFFICES ASSUME SendInv, FilesInv, [RNext]_allVars PROVE SendInv' /\ FilesInv'
  OBVIOUS
<1>1. CASE view = "frames" /\ Next /\ UNCHANGED <<handlerVars, diskVars, historyVars>> /\ UNCHANGED view
  BY <1>1, NextKeepsSendInv, FramesKeepFilesInv DEF SendInv
<1>2. CASE view # "frames" /\ Files /\ UNCHANGED view
  BY <1>2, FilesKeepInv
<1>3. CASE UNCHANGED allVars
  <2> USE <1>3 DEF allVars, vars, handlerVars, diskVars, spillVars, historyVars
  <2>1. SendInv'
    BY DEF SendInv, SendTypeOK, WriterHolds, HostFollows, AtFrameEnd, SeenAsWritten, Unseen, WholeFrames
  <2>2. HandlerTypeOK' /\ DiskTypeOK' /\ RunsOnce' /\ ConfigKept' /\ SpillKept'
    BY DEF FilesInv, HandlerTypeOK, DiskTypeOK, RunsOnce, ConfigKept, SpillKept, KeepsSpilled, Without
  <2>3. OwnTemp' /\ LoneKept'
    BY DEF FilesInv, OwnTemp, TornOnlyByOverlap, LoneKept, LoneFinds, LoneCompileHeals, Compiling
  <2> QED BY <2>1, <2>2, <2>3 DEF FilesInv
<1> QED BY <1>1, <1>2, <1>3 DEF RNext

(* Both invariants hold throughout.                                        *)
LEMMA AlwaysFilesInv == RSpec => [](SendInv /\ FilesInv)
  BY InitFilesInv, NextKeepsFilesInv, PTL DEF RSpec

(* Whatever writes stall or fail, and whenever serve returns, the host     *)
(* reads whole frames one after the other.                                 *)
THEOREM HostStaysInSync == RSpec => []StreamInSync
  BY SendInvSyncs, AlwaysFilesInv, PTL

(* No crash, failed write or panic tears a file of the rule set.           *)
THEOREM NoTornRuleSet == RSpec => []TornOnlyByOverlap
<1>1. FilesInv => TornOnlyByOverlap
  BY DEF FilesInv, OwnTemp, TornOnlyByOverlap
<1> QED BY <1>1, AlwaysFilesInv, PTL

(* A compile that runs alone heals whatever crashes and overlaps left.     *)
THEOREM LoneCompileSucceeds == RSpec => []LoneCompileHeals
<1>1. FilesInv => LoneCompileHeals
  BY DEF FilesInv, LoneKept
<1> QED BY <1>1, AlwaysFilesInv, PTL

(* The config in force is never an older one that the file has lost: it is *)
(* the one on file or, after a refusal, the built-in one, unless a panic   *)
(* cut the newest setup off after it replaced the file.                    *)
THEOREM ConfigInForceIsOnFile == RSpec => []RunningIsOnFile
<1>1. FilesInv => RunningIsOnFile
  BY DEF FilesInv, ConfigKept, RunningIsOnFile
<1> QED BY <1>1, AlwaysFilesInv, PTL

(* A reply names a whole file until the host has read it, or one that an   *)
(* init in a live core has removed, and never one that is half written.    *)
THEOREM SpilledReplyIsWhole == RSpec => []ReplyNamesWholeFile
<1>1. FilesInv => ReplyNamesWholeFile
  BY DEF FilesInv, SpillKept, KeepsSpilled, ReplyNamesWholeFile
<1> QED BY <1>1, AlwaysFilesInv, PTL

-----------------------------------------------------------------------------
(* What a compile makes of a rule set.                                     *)

(* What a key of a classical entry matches is what the entry means, and    *)
(* what the converter drops matches nothing.                               *)
LEMMA KeyMatches ==
    ASSUME NEW e \in Entries
    PROVE  /\ DomainKey(e) # Nothing => Matched(DomainKey(e)) = Meant(e, FALSE)
           /\ RangeKey(e) # Nothing => Matched(RangeKey(e)) = Meant(e, FALSE)
  BY DEF Entries, Values, Domains, RuleTypes, Nothing, DomainKey, RangeKey, plainDomain, Suffix, ParsesAsPrefix, Matched, Meant, parseCIDR

(* In a bare list a value that reads as a range or an address is one.      *)
LEMMA PlainMatches ==
    ASSUME NEW e \in Entries
    PROVE  /\ parseCIDR(e.value) = Nothing => Meant(e, TRUE) = Matched(e.value)
           /\ parseCIDR(e.value) # Nothing =>
                Meant(e, TRUE) = Matched(parseCIDR(e.value)) /\ "alone" \in Meant(e, TRUE)
  <1>1. parseCIDR(e.value) \in {Nothing, "range", "address/32"} BY DEF parseCIDR
  <1>2. Meant(e, TRUE) = Matched(IF parseCIDR(e.value) # Nothing THEN parseCIDR(e.value) ELSE e.value)
    BY DEF Meant
  <1>3. "alone" \in Matched("range") /\ "alone" \in Matched("address/32") BY DEF Matched
  <1> QED BY <1>1, <1>2, <1>3

(* The keys a converter cannot parse match nothing ...                     *)
LEMMA DroppedMatchNothing == Matched("junk") = {} /\ Matched("+.junk") = {}
  BY DEF Matched

(* ... so that dropping them changes nothing.                              *)
LEMMA ConvertedMatch ==
    ASSUME NEW keys
    PROVE  UNION {Matched(key) : key \in ConvertToMrs(keys)} = UNION {Matched(key) : key \in keys}
  BY DroppedMatchNothing DEF ConvertToMrs

(* A list of bare values, and what the entries of a list match.            *)
Plain(entries) == \A e \in entries : e.rule = Nothing
Meaning(entries) == UNION {Meant(e, Plain(entries)) : e \in entries}

(* Whether a list is plain is settled once for all of its entries.         *)
LEMMA PlainMeaning ==
    ASSUME NEW entries, Plain(entries)
    PROVE  Meaning(entries) = UNION {Meant(e, TRUE) : e \in entries}
  <1>1. ASSUME NEW e PROVE Meant(e, Plain(entries)) = Meant(e, TRUE) BY DEF Meant
  <1> QED BY <1>1 DEF Meaning

(* The same for a list of rules.                                           *)
LEMMA ClassicalMeaning ==
    ASSUME NEW entries, ~Plain(entries)
    PROVE  Meaning(entries) = UNION {Meant(e, FALSE) : e \in entries}
  <1>1. ASSUME NEW e PROVE Meant(e, Plain(entries)) = Meant(e, FALSE) BY DEF Meant
  <1> QED BY <1>1 DEF Meaning

(* What classifyRuleSet must make of a list of entries.                    *)
Means(entries, found) ==
    /\ found.behavior # "classical" => UNION {Matched(key) : key \in found.keys} = Meaning(entries)
    /\ found.error # Nothing => found.mrs = {}
    /\ found.error = "empty" => Meaning(entries) = {}
    /\ found.error = "mixed" => Plain(entries) /\ Meaning(entries) \cap {"inside", "alone"} # {}

(* Keys that match what the entries mean are a set that means the same.    *)
LEMMA FoundMeans ==
    ASSUME NEW entries, NEW behavior, NEW keys,
           UNION {Matched(key) : key \in keys} = Meaning(entries)
    PROVE  Means(entries, Found(behavior, keys))
  BY DEF Means, Found, Nothing

(* A set that is kept as it is needs no keys.                              *)
LEMMA ClassicalSetMeans == \A entries : Means(entries, Classical)
  BY DEF Means, Classical, Found, Nothing

(* What the rules of a classical list become: domains if each of them can, *)
(* else ranges if each of them can, else nothing.                          *)
LEMMA ClassicalMeans ==
    ASSUME NEW entries \in SUBSET Entries, ~Plain(entries)
    PROVE  Means(entries, classifyClassical(entries))
  <1> DEFINE domain == \A e \in entries : ~e.more /\ DomainKey(e) # Nothing
             range == \A e \in entries : ~e.more /\ RangeKey(e) # Nothing
  <1>1. CASE domain
    <2>1. classifyClassical(entries) = Found("domain", {DomainKey(e) : e \in entries})
      BY <1>1 DEF classifyClassical
    <2>2. UNION {Matched(key) : key \in {DomainKey(e) : e \in entries}}
            = UNION {Meant(e, FALSE) : e \in entries}
      BY <1>1, KeyMatches
    <2>3. UNION {Matched(key) : key \in {DomainKey(e) : e \in entries}} = Meaning(entries)
      BY <2>2, ClassicalMeaning
    <2>4. Means(entries, Found("domain", {DomainKey(e) : e \in entries}))
      BY ONLY <2>3, FoundMeans
    <2> QED BY ONLY <2>1, <2>4
  <1>2. CASE ~domain /\ range
    <2>1. classifyClassical(entries) = Found("ipcidr", {RangeKey(e) : e \in entries})
      BY <1>2 DEF classifyClassical
    <2>2. UNION {Matched(key) : key \in {RangeKey(e) : e \in entries}}
            = UNION {Meant(e, FALSE) : e \in entries}
      BY <1>2, KeyMatches
    <2>3. UNION {Matched(key) : key \in {RangeKey(e) : e \in entries}} = Meaning(entries)
      BY <2>2, ClassicalMeaning
    <2>4. Means(entries, Found("ipcidr", {RangeKey(e) : e \in entries}))
      BY ONLY <2>3, FoundMeans
    <2> QED BY ONLY <2>1, <2>4
  <1>3. CASE ~domain /\ ~range
    <2>1. classifyClassical(entries) = Classical
      BY <1>3 DEF classifyClassical
    <2> QED BY <2>1, ClassicalSetMeans
  <1> QED BY <1>1, <1>2, <1>3

(* And what any list becomes.                                              *)
LEMMA ClassifiedMeans ==
    ASSUME NEW entries \in SUBSET Entries
    PROVE  Means(entries, classifyRuleSet(entries))
  <1> DEFINE none == \A e \in entries : parseCIDR(e.value) = Nothing
             all == \A e \in entries : parseCIDR(e.value) # Nothing
  <1>1. CASE entries = {}
    <2>1. classifyRuleSet(entries) = Failed("empty") BY <1>1 DEF classifyRuleSet
    <2>2. Meaning(entries) = {} BY <1>1 DEF Meaning
    <2> QED BY <2>1, <2>2 DEF Means, Failed
  <1>2. CASE entries # {} /\ ~Plain(entries)
    <2>1. classifyRuleSet(entries) = classifyClassical(entries) BY <1>2 DEF classifyRuleSet, Plain
    <2> QED BY <1>2, <2>1, ClassicalMeans
  <1>3. CASE entries # {} /\ Plain(entries) /\ none
    <2>1. classifyRuleSet(entries) = Found("domain", {e.value : e \in entries})
      BY <1>3 DEF classifyRuleSet, Plain
    <2>2. UNION {Matched(key) : key \in {e.value : e \in entries}}
            = UNION {Meant(e, TRUE) : e \in entries}
      BY <1>3, PlainMatches
    <2>3. UNION {Matched(key) : key \in {e.value : e \in entries}} = Meaning(entries)
      BY <1>3, <2>2, PlainMeaning
    <2>4. Means(entries, Found("domain", {e.value : e \in entries}))
      BY ONLY <2>3, FoundMeans
    <2> QED BY ONLY <2>1, <2>4
  <1>4. CASE entries # {} /\ Plain(entries) /\ ~none /\ all
    <2>1. classifyRuleSet(entries) = Found("ipcidr", {parseCIDR(e.value) : e \in entries})
      BY <1>4 DEF classifyRuleSet, Plain
    <2>2. UNION {Matched(key) : key \in {parseCIDR(e.value) : e \in entries}}
            = UNION {Meant(e, TRUE) : e \in entries}
      BY <1>4, PlainMatches
    <2>3. UNION {Matched(key) : key \in {parseCIDR(e.value) : e \in entries}} = Meaning(entries)
      BY <1>4, <2>2, PlainMeaning
    <2>4. Means(entries, Found("ipcidr", {parseCIDR(e.value) : e \in entries}))
      BY ONLY <2>3, FoundMeans
    <2> QED BY ONLY <2>1, <2>4
  <1>5. CASE entries # {} /\ Plain(entries) /\ ~none /\ ~all
    <2>1. classifyRuleSet(entries) = Failed("mixed") BY <1>5 DEF classifyRuleSet, Plain
    <2>2. PICK e \in entries : parseCIDR(e.value) # Nothing BY <1>5
    <2>3. "alone" \in Meant(e, TRUE) BY <2>2, PlainMatches
    <2>4. "alone" \in Meaning(entries) BY <1>5, <2>2, <2>3, PlainMeaning
    <2>5. Plain(entries) BY <1>5
    <2> QED BY <2>1, <2>4, <2>5 DEF Means, Failed
  <1> QED BY <1>1, <1>2, <1>3, <1>4, <1>5

(* What is read from a source is entries, without blanks and comments.     *)
LEMMA EntriesOfSource ==
    ASSUME NEW source \in Sources
    PROVE  ruleSetEntries(source) \in SUBSET Entries /\ source.format # "mrs"
  <1>1. CASE source \in [format : {"text"}, lines : {a \cup b \cup {noise} : a, b \in Lists, noise \in {Blank, Comment}}]
    <2>1. source.format = "text" BY <1>1
    <2>2. PICK a \in Lists, b \in Lists, noise \in {Blank, Comment} : source.lines = a \cup b \cup {noise}
      BY <1>1
    <2> QED BY <2>1, <2>2, ListsAssumption DEF ruleSetEntries
  <1>2. CASE source \in [format : {"yaml"}, payload : Lists, rules : {list \cup {Blank} : list \in Lists}]
    <2>1. source.format = "yaml" /\ source.payload \in Lists BY <1>2
    <2>2. PICK list \in Lists : source.rules = list \cup {Blank} BY <1>2
    <2> QED BY <2>1, <2>2, ListsAssumption DEF ruleSetEntries
  <1> QED BY <1>1, <1>2 DEF Sources

(* compileRuleSet: whatever a source lists, the .mrs that is made of it    *)
(* matches what its entries match, a set is found empty only if it matches *)
(* nothing, and refused as mixed only if it is a bare list with ranges.    *)
THEOREM CompiledSetsMatch == \A source \in Sources : MeansSource(source)
  <1> SUFFICES ASSUME NEW source \in Sources PROVE MeansSource(source)
    OBVIOUS
  <1> DEFINE entries == ruleSetEntries(source)
             found == classifyRuleSet(entries)
             mrs == ConvertToMrs(found.keys)
             made == compileRuleSet(source, FALSE)
  <1>1. entries \in SUBSET Entries /\ source.format # "mrs" BY EntriesOfSource
  <1>2. Means(entries, found) BY <1>1, ClassifiedMeans
  <1>3. UNION {Matched(key) : key \in mrs} = UNION {Matched(key) : key \in found.keys}
    BY ConvertedMatch
  <1>4. made = IF found.error # Nothing THEN found
               ELSE IF found.behavior = "classical" THEN Info(source.format, "classical", {})
               ELSE IF mrs = {} THEN Failed("empty")
               ELSE Info(source.format, found.behavior, mrs)
    BY <1>1 DEF compileRuleSet
  <1>5. SUFFICES
          /\ made.mrs # {} => UNION {Matched(key) : key \in made.mrs} = Meaning(entries)
          /\ made.error = "empty" => Meaning(entries) = {}
          /\ made.error = "mixed" => Plain(entries) /\ Meaning(entries) \cap {"inside", "alone"} # {}
    BY DEF MeansSource, Meaning, Plain
  <1> HIDE DEF entries, found, mrs, made
  <1>6. CASE found.error # Nothing
    BY <1>2, <1>4, <1>6 DEF Means
  <1>7. CASE found.error = Nothing /\ found.behavior = "classical"
    <2>1. made = Info(source.format, "classical", {}) BY <1>4, <1>7
    <2> QED BY <2>1 DEF Info, Nothing
  <1>8. CASE found.error = Nothing /\ found.behavior # "classical" /\ mrs = {}
    <2>1. made = Failed("empty") BY <1>4, <1>8
    <2>2. Meaning(entries) = {} BY <1>2, <1>3, <1>8 DEF Means
    <2> QED BY <2>1, <2>2 DEF Failed
  <1>9. CASE found.error = Nothing /\ found.behavior # "classical" /\ mrs # {}
    <2>1. made = Info(source.format, found.behavior, mrs) BY <1>4, <1>9
    <2>2. UNION {Matched(key) : key \in mrs} = Meaning(entries) BY <1>2, <1>3, <1>9 DEF Means
    <2> QED BY <2>1, <2>2 DEF Info, Nothing
  <1> QED BY <1>6, <1>7, <1>8, <1>9

(* handleCompileRuleSet: so does the .mrs loaded in place of any source.   *)
THEOREM RuleSetsMatch == RSpec => []RuleSetKeepsMeaning
  <1>1. RuleSetKeepsMeaning BY CompiledSetsMatch DEF RuleSetKeepsMeaning
  <1> QED BY <1>1, PTL
=============================================================================

-------------------------- MODULE MessageQueueProofs --------------------------
(* Proofs about the message queues and the batcher, for any number of      *)
(* senders and messages and for every size of the channels, of a batch and *)
(* of a burst.                                                             *)
EXTENDS LogPump, SequenceTheorems, TLAPS

SendRecords == [at : {"idle", "push", "evict"}, class : Classes \cup {None}, attempt : Nat]

QueueTypeOK ==
    /\ accepted \in [Queues -> Nat]
    /\ queue \in [Queues -> Seq(Nat)]
    /\ batch \in [Queues -> Seq(Nat)]
    /\ left \in [Queues -> Seq(Nat)]
    /\ sender \in [Senders -> SendRecords]

(* A message under way has a class, and one that evicts is no state's.     *)
StateNeverEvicts ==
    \A s \in Senders :
        /\ sender[s].at = "push" => sender[s].class \in Classes
        /\ sender[s].at = "evict" => sender[s].class \in {"priority", "bulk"}

(* What a channel has taken in and not lost, oldest first.                 *)
All(q) == left[q] \o batch[q] \o queue[q]

(* Numbers that rise and do not pass n.                                    *)
Rising(s, n) ==
    /\ \A i \in DOMAIN s : s[i] <= n
    /\ \A i, j \in DOMAIN s : i < j => s[i] < s[j]

OrderInv ==
    /\ QueueTypeOK
    /\ StateNeverEvicts
    /\ \A q \in Queues : Rising(All(q), accepted[q])
    /\ Len(All("state")) = accepted["state"]

(* The burst counts no fewer priority takes than a bulk message has        *)
(* waited, and is not full past the chance that bulk is given.             *)
BurstInv ==
    /\ priorityBurst \in Nat /\ waited \in Nat
    /\ priorityBurst <= PriorityBurst
    /\ at \in {"priority", "wait"} => priorityBurst < PriorityBurst
    /\ waited <= priorityBurst
    /\ queue["bulk"] = <<>> => waited = 0

-----------------------------------------------------------------------------
(* Sequences of numbers that rise.                                         *)
LEMMA AppendRises ==
    ASSUME NEW s \in Seq(Nat), NEW n \in Nat, Rising(s, n)
    PROVE  Rising(Append(s, n + 1), n + 1) /\ Len(Append(s, n + 1)) = Len(s) + 1
<1> DEFINE t == Append(s, n + 1)
<1>1. /\ Len(s) \in Nat /\ DOMAIN s = 1..Len(s) /\ Len(t) = Len(s) + 1 /\ DOMAIN t = 1..(Len(s) + 1)
      /\ t[Len(s) + 1] = n + 1
      /\ \A i \in 1..Len(s) : t[i] = s[i] /\ s[i] \in Nat
  OBVIOUS
<1> HIDE DEF t
<1>2. \A i \in DOMAIN t : t[i] <= n + 1
  BY <1>1 DEF Rising
<1>3. ASSUME NEW i \in DOMAIN t, NEW j \in DOMAIN t, i < j PROVE t[i] < t[j]
  BY <1>1, <1>3 DEF Rising
<1> QED BY <1>1, <1>2, <1>3 DEF Rising, t

(* One element less of them.                                               *)
LEMMA DropRises ==
    ASSUME NEW a \in Seq(Nat), NEW c \in Seq(Nat), NEW n \in Nat, Rising(a \o c, n), c # <<>>
    PROVE  Rising(a \o Tail(c), n)
<1> DEFINE s == a \o c
           t == a \o Tail(c)
           At2(i) == IF i <= Len(a) THEN i ELSE i + 1
<1>1. /\ Len(a) \in Nat /\ Len(c) \in Nat /\ Len(c) > 0
      /\ Tail(c) \in Seq(Nat) /\ Len(Tail(c)) = Len(c) - 1
      /\ DOMAIN s = 1..(Len(a) + Len(c)) /\ DOMAIN t = 1..(Len(a) + Len(c) - 1)
  OBVIOUS
<1>2. ASSUME NEW i \in DOMAIN t PROVE At2(i) \in DOMAIN s /\ t[i] = s[At2(i)]
  <2>1. CASE i <= Len(a)
    BY <1>1, <2>1
  <2>2. CASE ~(i <= Len(a))
    <3>1. i \in Nat /\ i - Len(a) \in 1..Len(Tail(c)) /\ (i - Len(a)) + 1 = (i + 1) - Len(a)
      BY <1>1, <2>2
    <3>2. t[i] = Tail(c)[i - Len(a)] /\ s[i + 1] = c[(i + 1) - Len(a)]
      BY <1>1, <2>2, <3>1
    <3>3. Tail(c)[i - Len(a)] = c[(i - Len(a)) + 1]
      BY <1>1, <3>1
    <3> QED BY <1>1, <2>2, <3>1, <3>2, <3>3
  <2> QED BY <2>1, <2>2
<1>3. \A i, j \in DOMAIN t : i < j => At2(i) < At2(j)
  BY <1>1
<1> HIDE DEF s, t, At2
<1>4. Rising(s, n)
  BY DEF s
<1> QED BY <1>2, <1>3, <1>4 DEF Rising, t

(* Three sequences in a row.                                               *)
LEMMA Assoc == \A a, b, c \in Seq(Nat) : (a \o b) \o c = a \o (b \o c)
  BY ConcatAssociative

(* A message that goes from the channel to the batch keeps its place...    *)
LEMMA TakeKeepsAll ==
    ASSUME NEW a \in Seq(Nat), NEW b \in Seq(Nat), NEW c \in Seq(Nat), c # <<>>
    PROVE  a \o Append(b, Head(c)) \o Tail(c) = a \o b \o c
<1>1. /\ Tail(c) \in Seq(Nat) /\ Head(c) \in Nat /\ Append(b, Head(c)) \in Seq(Nat)
      /\ Len(c) \in Nat /\ Len(c) > 0 /\ Len(Tail(c)) = Len(c) - 1
  OBVIOUS
<1>2. c = <<Head(c)>> \o Tail(c)
  BY HeadTailProperties
<1>3. Append(b, Head(c)) = b \o <<Head(c)>>
  BY <1>1, AppendIsConcat
<1>4. <<Head(c)>> \in Seq(Nat)
  BY <1>1
<1>5. (a \o (b \o <<Head(c)>>)) \o Tail(c) = a \o ((b \o <<Head(c)>>) \o Tail(c))
  <2>1. b \o <<Head(c)>> \in Seq(Nat)
    BY <1>1, <1>3
  <2> QED BY <1>1, <2>1, Assoc, Zenon
<1>6. (b \o <<Head(c)>>) \o Tail(c) = b \o (<<Head(c)>> \o Tail(c))
  BY <1>1, <1>4, Assoc, Zenon
<1>7. a \o (b \o c) = (a \o b) \o c
  BY Assoc, Zenon
<1> QED BY <1>2, <1>3, <1>5, <1>6, <1>7

(* ...and so do those of a batch that is delivered.                        *)
LEMMA FlushKeepsAll ==
    ASSUME NEW a \in Seq(Nat), NEW b \in Seq(Nat), NEW c \in Seq(Nat)
    PROVE  (a \o b) \o <<>> \o c = a \o b \o c
<1>1. a \o b \in Seq(Nat)
  OBVIOUS
<1>2. (a \o b) \o <<>> = a \o b
  BY <1>1, ConcatEmptySeq
<1> QED BY <1>2

(* A message that is accepted goes to the end.                             *)
LEMMA PushAtEnd ==
    ASSUME NEW a \in Seq(Nat), NEW b \in Seq(Nat), NEW c \in Seq(Nat), NEW m \in Nat
    PROVE  a \o b \o Append(c, m) = Append(a \o b \o c, m)
<1>1. a \o b \in Seq(Nat) /\ <<m>> \in Seq(Nat) /\ (a \o b) \o c \in Seq(Nat)
  OBVIOUS
<1>2. Append(c, m) = c \o <<m>> /\ Append((a \o b) \o c, m) = ((a \o b) \o c) \o <<m>>
  BY <1>1, AppendIsConcat
<1>3. (a \o b) \o (c \o <<m>>) = ((a \o b) \o c) \o <<m>>
  BY <1>1, Assoc
<1> QED BY <1>2, <1>3

-----------------------------------------------------------------------------
(* A take moves the oldest message of its channel, and a full batch, and   *)
(* so does not change what a channel has taken in and not lost.            *)
LEMMA TakeKeepsOrder ==
    ASSUME QueueTypeOK, NEW q \in Queues, Take(q)
    PROVE  /\ queue' \in [Queues -> Seq(Nat)] /\ batch' \in [Queues -> Seq(Nat)] /\ left' \in [Queues -> Seq(Nat)]
           /\ \A r \in Queues : All(r)' = All(r)
<1> DEFINE taken == [batch EXCEPT ![q] = Append(@, Head(queue[q]))]
<1>1. /\ queue[q] \in Seq(Nat) /\ queue[q] # <<>> /\ batch[q] \in Seq(Nat)
      /\ queue' = [queue EXCEPT ![q] = Tail(@)]
      /\ \/ Flush(taken)
         \/ batch' = taken /\ UNCHANGED left
  BY DEF Take, QueueTypeOK
<1>2. Head(queue[q]) \in Nat /\ Tail(queue[q]) \in Seq(Nat)
  BY <1>1
<1>3. taken \in [Queues -> Seq(Nat)] /\ queue' \in [Queues -> Seq(Nat)]
  BY <1>1, <1>2 DEF QueueTypeOK
<1>4. \A r \in Queues : left[r] \o taken[r] \o queue'[r] = All(r)
  <2>1. ASSUME NEW r \in Queues PROVE left[r] \o taken[r] \o queue'[r] = All(r)
    <3>1. CASE r = q
      <4>1. taken[r] = Append(batch[r], Head(queue[r])) /\ queue'[r] = Tail(queue[r])
        BY <1>1, <3>1 DEF QueueTypeOK
      <4>2. left[r] \in Seq(Nat) /\ batch[r] \in Seq(Nat) /\ queue[r] \in Seq(Nat) /\ queue[r] # <<>>
        BY <1>1, <3>1 DEF QueueTypeOK
      <4>3. left[r] \o Append(batch[r], Head(queue[r])) \o Tail(queue[r]) = left[r] \o batch[r] \o queue[r]
        BY <4>2, TakeKeepsAll
      <4> HIDE DEF taken
      <4> QED BY <4>1, <4>3, Zenon DEF All
    <3>2. CASE r # q
      <4>1. taken[r] = batch[r] /\ queue'[r] = queue[r]
        BY <1>1, <3>2 DEF QueueTypeOK
      <4> QED BY <4>1 DEF All
    <3> QED BY <3>1, <3>2
  <2> QED BY <2>1
<1> HIDE DEF taken
<1>5. CASE Flush(taken)
  <2>1. /\ left' = [r \in Queues |-> left[r] \o taken[r]]
        /\ batch' = [r \in Queues |-> <<>>]
    BY <1>5 DEF Flush
  <2>2. \A r \in Queues : left[r] \o taken[r] \in Seq(Nat)
    BY <1>3 DEF QueueTypeOK
  <2>3. ASSUME NEW r \in Queues PROVE All(r)' = All(r)
    <3>1. left[r] \in Seq(Nat) /\ taken[r] \in Seq(Nat) /\ queue'[r] \in Seq(Nat)
      BY <1>3 DEF QueueTypeOK
    <3>2. left'[r] = left[r] \o taken[r] /\ batch'[r] = <<>>
      BY <2>1
    <3>3. All(r)' = (left[r] \o taken[r]) \o <<>> \o queue'[r]
      BY <3>2 DEF All
    <3> QED BY <1>4, <3>1, <3>3, FlushKeepsAll
  <2> QED BY <1>3, <2>1, <2>2, <2>3
<1>6. CASE batch' = taken /\ UNCHANGED left
  <2>1. \A r \in Queues : All(r)' = All(r)
    BY <1>4, <1>6 DEF All
  <2> QED BY <1>3, <1>6, <2>1 DEF QueueTypeOK
<1> QED BY <1>1, <1>5, <1>6

(* The batch that the timer delivers.                                      *)
LEMMA FlushKeepsOrder ==
    ASSUME QueueTypeOK, Flush(batch), UNCHANGED queue
    PROVE  /\ batch' \in [Queues -> Seq(Nat)] /\ left' \in [Queues -> Seq(Nat)]
           /\ \A r \in Queues : All(r)' = All(r)
<1>1. /\ left' = [r \in Queues |-> left[r] \o batch[r]]
      /\ batch' = [r \in Queues |-> <<>>]
  BY DEF Flush
<1>2. \A r \in Queues : left[r] \o batch[r] \in Seq(Nat)
  BY DEF QueueTypeOK
<1>3. ASSUME NEW r \in Queues PROVE All(r)' = All(r)
  <2>1. left[r] \in Seq(Nat) /\ batch[r] \in Seq(Nat) /\ queue[r] \in Seq(Nat)
    BY DEF QueueTypeOK
  <2>2. left'[r] = left[r] \o batch[r] /\ batch'[r] = <<>>
    BY <1>1
  <2>3. All(r)' = (left[r] \o batch[r]) \o <<>> \o queue[r]
    BY <2>2 DEF All
  <2> QED BY <2>1, <2>3, FlushKeepsAll DEF All
<1> QED BY <1>1, <1>2, <1>3

(* The batcher takes, delivers or looks on.                                *)
LEMMA BatcherMoves ==
    ASSUME Batcher
    PROVE  /\ UNCHANGED sendVars
           /\ \/ \E q \in Queues : Take(q)
              \/ Flush(batch) /\ UNCHANGED queue
              \/ UNCHANGED <<queue, batch, left>>
<1>1. "state" \in Queues /\ "priority" \in Queues /\ "bulk" \in Queues
  BY DEF Queues
<1> QED BY <1>1 DEF Batcher, LookAtState, ChanceForBulk, LookAtPriority, WaitTakes, WaitDeadline

(* The batcher keeps the order.                                            *)
LEMMA BatcherKeepsOrder ==
    ASSUME OrderInv, Batcher
    PROVE  OrderInv'
<1>1. QueueTypeOK /\ UNCHANGED <<sender, accepted>>
  BY BatcherMoves DEF OrderInv, sendVars
<1>2. ASSUME queue' \in [Queues -> Seq(Nat)], batch' \in [Queues -> Seq(Nat)], left' \in [Queues -> Seq(Nat)],
             \A r \in Queues : All(r)' = All(r)
      PROVE  OrderInv'
  <2>1. QueueTypeOK' /\ StateNeverEvicts'
    BY <1>1, <1>2 DEF OrderInv, QueueTypeOK, StateNeverEvicts
  <2>2. \A r \in Queues : Rising(All(r), accepted[r])'
    BY <1>1, <1>2 DEF OrderInv, Rising
  <2>3. Len(All("state"))' = accepted'["state"]
    BY <1>1, <1>2 DEF OrderInv, Queues
  <2> QED BY <2>1, <2>2, <2>3 DEF OrderInv
<1>3. CASE \E q \in Queues : Take(q)
  BY <1>1, <1>2, <1>3, TakeKeepsOrder
<1>4. CASE Flush(batch) /\ UNCHANGED queue
  BY <1>1, <1>2, <1>4, FlushKeepsOrder DEF QueueTypeOK
<1>5. CASE UNCHANGED <<queue, batch, left>>
  BY <1>1, <1>2, <1>5 DEF QueueTypeOK, All
<1> QED BY <1>3, <1>4, <1>5, BatcherMoves

(* A channel takes a message at its end...                                 *)
LEMMA PushKeepsOrder ==
    ASSUME OrderInv, NEW s \in Senders, Push(s)
    PROVE  OrderInv'
<1> DEFINE class == sender[s].class
<1>1. sender[s] \in SendRecords /\ class \in Classes /\ UNCHANGED <<batch, left>> /\ QueueTypeOK
  BY DEF Push, batchVars, OrderInv, QueueTypeOK, StateNeverEvicts
<1>2. PICK q \in Queues : q = QueueOf(class)
  BY <1>1 DEF QueueOf, Queues, Classes
<1>3. sender' \in [Senders -> SendRecords] /\ StateNeverEvicts'
  <2>1. NoSend \in SendRecords
    BY QueueAssumption DEF NoSend, SendRecords
  <2>2. sender' = [sender EXCEPT ![s] = NoSend] \/ (Evicts(class) /\ sender' = [sender EXCEPT ![s] = [@ EXCEPT !.at = "evict"]])
    BY DEF Push
  <2>3. CASE sender' = [sender EXCEPT ![s] = NoSend]
    BY <1>1, <2>1, <2>3 DEF QueueTypeOK, OrderInv, StateNeverEvicts, NoSend
  <2>4. CASE Evicts(class) /\ sender' = [sender EXCEPT ![s] = [@ EXCEPT !.at = "evict"]]
    <3> DEFINE r == [sender[s] EXCEPT !.at = "evict"]
    <3>1. r \in SendRecords /\ r.at = "evict" /\ r.class = class
      BY <1>1 DEF SendRecords
    <3>2. class \in {"priority", "bulk"} /\ sender' = [sender EXCEPT ![s] = r]
      BY <2>4 DEF Evicts
    <3> HIDE DEF r
    <3> QED BY <1>1, <3>1, <3>2 DEF QueueTypeOK, OrderInv, StateNeverEvicts
  <2> QED BY <2>2, <2>3, <2>4
<1>4. CASE UNCHANGED <<accepted, queue>>
  BY <1>1, <1>3, <1>4 DEF OrderInv, QueueTypeOK, All, Rising
<1>5. CASE /\ accepted' = [accepted EXCEPT ![q] = @ + 1]
           /\ queue' = [queue EXCEPT ![q] = Append(@, accepted[q] + 1)]
  <2>0. PICK n : n = accepted[q]
    OBVIOUS
  <2>1. n \in Nat /\ left[q] \in Seq(Nat) /\ batch[q] \in Seq(Nat) /\ queue[q] \in Seq(Nat)
    BY <1>1, <1>2, <2>0 DEF QueueTypeOK
  <2>2. accepted' \in [Queues -> Nat] /\ queue' \in [Queues -> Seq(Nat)]
    BY <1>1, <1>2, <2>0, <1>5, <2>1 DEF QueueTypeOK
  <2>3. All(q) \in Seq(Nat) /\ All(q)' = Append(All(q), n + 1)
    <3>1. queue'[q] = Append(queue[q], n + 1)
      BY <1>1, <1>2, <2>0, <1>5 DEF QueueTypeOK
    <3>2. left[q] \o batch[q] \o Append(queue[q], n + 1) = Append(left[q] \o batch[q] \o queue[q], n + 1)
      <4>1. n + 1 \in Nat
        BY <2>1
      <4> QED BY <2>1, <4>1, PushAtEnd, Zenon
    <3>3. All(q)' = left[q] \o batch[q] \o Append(queue[q], n + 1)
      BY <1>1, <3>1 DEF All
    <3>4. All(q) \in Seq(Nat)
      BY <2>1 DEF All
    <3> QED BY <3>2, <3>3, <3>4, Zenon DEF All
  <2>4. accepted'[q] = n + 1
    BY <1>1, <1>2, <2>0, <1>5 DEF QueueTypeOK
  <2>5. Rising(All(q)', accepted'[q]) /\ Len(All(q)') = Len(All(q)) + 1
    BY <1>2, <2>0, <2>1, <2>3, <2>4, AppendRises DEF OrderInv
  <2>6. \A r \in Queues \ {q} : All(r)' = All(r) /\ accepted'[r] = accepted[r]
    BY <1>1, <1>5 DEF QueueTypeOK, All
  <2>7. \A r \in Queues : Rising(All(r)', accepted'[r])
    BY <2>5, <2>6 DEF OrderInv
  <2>8. Len(All("state")') = accepted'["state"]
    BY <2>0, <2>4, <2>5, <2>6 DEF OrderInv, Queues
  <2> QED BY <1>1, <1>3, <2>2, <2>7, <2>8 DEF OrderInv, QueueTypeOK, Rising
<1> QED BY <1>2, <1>4, <1>5 DEF Push

(* ...and loses one at its front, to a sender of another class than state. *)
LEMMA EvictKeepsOrder ==
    ASSUME OrderInv, NEW s \in Senders, Evict(s)
    PROVE  OrderInv'
<1>1. /\ sender[s] \in SendRecords /\ sender[s].class \in {"priority", "bulk"}
      /\ UNCHANGED <<batch, left, accepted>> /\ QueueTypeOK
  BY DEF Evict, batchVars, OrderInv, QueueTypeOK, StateNeverEvicts
<1>2. PICK q \in Queues : q # "state" /\ queue' = [queue EXCEPT ![q] = Rest(@)]
  BY <1>1 DEF QueueOf, Queues, Evict
<1>3. sender' \in [Senders -> SendRecords] /\ StateNeverEvicts'
  <2>1. NoSend \in SendRecords
    BY QueueAssumption DEF NoSend, SendRecords
  <2>2. \/ sender' = [sender EXCEPT ![s] = NoSend]
        \/ sender' = [sender EXCEPT ![s] = [@ EXCEPT !.at = "push", !.attempt = sender[s].attempt + 1]]
    BY DEF Evict
  <2>3. CASE sender' = [sender EXCEPT ![s] = NoSend]
    BY <1>1, <2>1, <2>3 DEF QueueTypeOK, OrderInv, StateNeverEvicts, NoSend
  <2>4. CASE sender' = [sender EXCEPT ![s] = [@ EXCEPT !.at = "push", !.attempt = sender[s].attempt + 1]]
    <3> DEFINE r == [sender[s] EXCEPT !.at = "push", !.attempt = sender[s].attempt + 1]
    <3>1. r \in SendRecords /\ r.at = "push" /\ r.class = sender[s].class
      <4>1. sender[s].attempt + 1 \in Nat
        BY <1>1 DEF SendRecords
      <4> QED BY <1>1, <4>1 DEF SendRecords
    <3>2. sender' = [sender EXCEPT ![s] = r] /\ r.class \in Classes
      BY <1>1, <2>4, <3>1 DEF Classes
    <3> HIDE DEF r
    <3> QED BY <1>1, <3>1, <3>2 DEF QueueTypeOK, OrderInv, StateNeverEvicts
  <2> QED BY <2>2, <2>3, <2>4
<1>4. /\ left[q] \in Seq(Nat) /\ batch[q] \in Seq(Nat) /\ queue[q] \in Seq(Nat) /\ accepted[q] \in Nat
      /\ left[q] \o batch[q] \in Seq(Nat)
  BY <1>1, <1>2 DEF QueueTypeOK
<1>5. Rest(queue[q]) \in Seq(Nat) /\ queue'[q] = Rest(queue[q])
  BY <1>1, <1>2, <1>4 DEF Rest, QueueTypeOK
<1>6. queue' \in [Queues -> Seq(Nat)]
  BY <1>1, <1>2, <1>5 DEF QueueTypeOK
<1>7. Rising(All(q)', accepted'[q])
  <2>1. Rising((left[q] \o batch[q]) \o queue[q], accepted[q])
    BY <1>2 DEF OrderInv, All
  <2>2. All(q)' = (left[q] \o batch[q]) \o Rest(queue[q])
    BY <1>1, <1>5 DEF All
  <2>3. CASE queue[q] = <<>>
    BY <1>1, <2>1, <2>2, <2>3 DEF Rest
  <2>4. CASE queue[q] # <<>>
    <3>1. Rising((left[q] \o batch[q]) \o Tail(queue[q]), accepted[q])
      BY <1>4, <2>1, <2>4, DropRises
    <3> QED BY <1>1, <2>2, <2>4, <3>1 DEF Rest
  <2> QED BY <2>3, <2>4
<1>8. \A r \in Queues \ {q} : All(r)' = All(r) /\ accepted'[r] = accepted[r]
  BY <1>1, <1>2 DEF QueueTypeOK, All
<1>9. \A r \in Queues : Rising(All(r)', accepted'[r])
  BY <1>7, <1>8 DEF OrderInv
<1>10. Len(All("state")') = accepted'["state"]
  BY <1>2, <1>8 DEF OrderInv, Queues
<1> QED BY <1>1, <1>3, <1>6, <1>9, <1>10 DEF OrderInv, QueueTypeOK, Rising

(* The channels are empty in the beginning.                                *)
LEMMA InitOrder == Init => OrderInv /\ BurstInv
<1> SUFFICES ASSUME Init PROVE OrderInv /\ BurstInv
  OBVIOUS
<1> USE QueueAssumption DEF Init
<1>1. NoSend \in SendRecords /\ NoSend.at = "idle"
  BY DEF NoSend, SendRecords
<1>2. QueueTypeOK /\ StateNeverEvicts
  BY <1>1 DEF QueueTypeOK, StateNeverEvicts
<1>3. \A q \in Queues : All(q) = <<>> /\ accepted[q] = 0
  BY DEF All
<1>4. (\A q \in Queues : Rising(All(q), accepted[q])) /\ Len(All("state")) = accepted["state"]
  BY <1>3 DEF Rising, Queues
<1>5. BurstInv
  BY DEF BurstInv, Queues
<1> QED BY <1>2, <1>4, <1>5 DEF OrderInv

(* Every step keeps the order.                                             *)
LEMMA NextKeepsOrder == OrderInv /\ [Next]_vars => OrderInv'
<1> SUFFICES ASSUME OrderInv, [Next]_vars PROVE OrderInv'
  OBVIOUS
<1>1. CASE SetEventListener \/ UNCHANGED vars
  <2>1. UNCHANGED <<sender, accepted, queue, batch, left>>
    BY <1>1 DEF SetEventListener, batchVars, vars, sendVars
  <2> QED BY <2>1 DEF OrderInv, QueueTypeOK, StateNeverEvicts, All, Rising
<1>2. ASSUME NEW s \in Senders, NEW class \in Classes, SendMessage(s, class) PROVE OrderInv'
  <2> DEFINE r == [at |-> "push", class |-> class, attempt |-> 0]
  <2>1. sender' = [sender EXCEPT ![s] = r] /\ UNCHANGED <<accepted, queue, batch, left>>
    BY <1>2 DEF SendMessage, batchVars
  <2>2. r \in SendRecords /\ r.at = "push" /\ r.class \in Classes
    BY <1>2 DEF SendRecords
  <2> HIDE DEF r
  <2> QED BY <2>1, <2>2 DEF OrderInv, QueueTypeOK, StateNeverEvicts, All, Rising
<1>3. ASSUME NEW s \in Senders, Sending(s) PROVE OrderInv'
  BY <1>3, PushKeepsOrder, EvictKeepsOrder DEF Sending
<1>4. CASE Batcher
  BY <1>4, BatcherKeepsOrder
<1> QED BY <1>1, <1>2, <1>3, <1>4 DEF Next

(* Messages of one channel leave in the order the channel accepted them,   *)
(* and no state message is lost: enqueueState, enqueueLatest and the       *)
(* batcher between them, for every channel size and batch size.            *)
THEOREM MessagesKeepOrder == LSpec => []EventsKeepOrder
<1>1. LInit => OrderInv
  BY InitOrder DEF LInit
<1>2. OrderInv /\ [LNext]_allVars => OrderInv'
  BY NextKeepsOrder DEF LNext, allVars
<1>3. OrderInv => EventsKeepOrder
  BY DEF OrderInv, EventsKeepOrder, All, Rising
<1> QED BY <1>1, <1>2, <1>3, PTL DEF LSpec

-----------------------------------------------------------------------------
(* Every step keeps the account of a burst.                                *)
LEMMA NextKeepsBurst == OrderInv /\ BurstInv /\ [Next]_vars => BurstInv'
<1> SUFFICES ASSUME OrderInv, BurstInv, [Next]_vars PROVE BurstInv'
  OBVIOUS
<1> USE QueueAssumption
<1>0. QueueTypeOK /\ queue["bulk"] \in Seq(Nat) /\ PriorityBurst \in Nat /\ PriorityBurst > 0
  BY DEF OrderInv, QueueTypeOK, Queues
<1>1. CASE SetEventListener \/ UNCHANGED vars
  BY <1>1 DEF SetEventListener, batchVars, vars, BurstInv
<1>2. ASSUME NEW s \in Senders, NEW class \in Classes, SendMessage(s, class) PROVE BurstInv'
  BY <1>2 DEF SendMessage, batchVars, BurstInv
<1>3. ASSUME NEW s \in Senders, Push(s) PROVE BurstInv'
  <2>1. UNCHANGED <<at, priorityBurst, waited>>
    BY <1>3 DEF Push, batchVars
  <2>2. queue'["bulk"] = <<>> => queue["bulk"] = <<>>
    <3>1. PICK q, m : queue' = queue \/ queue' = [queue EXCEPT ![q] = Append(@, m)]
      BY <1>3 DEF Push
    <3>2. Append(queue["bulk"], m) # <<>>
      BY <1>0
    <3> QED BY <1>0, <3>1, <3>2 DEF QueueTypeOK, Queues
  <2> QED BY <2>1, <2>2 DEF BurstInv
<1>4. ASSUME NEW s \in Senders, Evict(s) PROVE BurstInv'
  BY <1>4 DEF Evict, batchVars, WaitOf, BurstInv
<1>5. ASSUME NEW q \in Queues, Take(q)
      PROVE  /\ q = "bulk" => waited' = 0
             /\ q = "priority" => waited' = WaitOf(queue["bulk"], waited + 1) /\ queue'["bulk"] = queue["bulk"]
             /\ q = "state" => waited' = waited /\ queue'["bulk"] = queue["bulk"]
  BY <1>0, <1>5 DEF Take, QueueTypeOK, Queues
<1>6. CASE LookAtState
  <2>1. CASE Take("state")
    BY <1>5, <1>6, <2>1 DEF LookAtState, Goto, BurstInv, Queues
  <2>2. CASE ~Take("state")
    BY <1>6, <2>2 DEF LookAtState, Goto, BurstInv
  <2> QED BY <2>1, <2>2
<1>7. CASE ChanceForBulk
  <2>1. CASE BulkIsDue /\ queue["bulk"] # <<>>
    <3>1. waited' = 0 /\ priorityBurst' = 0 /\ at' = "state"
      BY <1>5, <1>7, <2>1 DEF ChanceForBulk, Goto, Queues
    <3> QED BY <1>0, <3>1 DEF BurstInv
  <2>2. CASE BulkIsDue /\ queue["bulk"] = <<>>
    <3>1. UNCHANGED <<waited, queue>> /\ priorityBurst' = 0
      BY <1>7, <2>2 DEF ChanceForBulk
    <3> QED BY <1>0, <2>2, <3>1 DEF BurstInv
  <2>3. CASE ~BulkIsDue
    <3>1. UNCHANGED <<waited, queue, priorityBurst>>
      BY <1>7, <2>3 DEF ChanceForBulk
    <3> QED BY <1>0, <2>3, <3>1 DEF BulkIsDue, BurstInv
  <2> QED BY <2>1, <2>2, <2>3
<1>8. ASSUME Take("priority"), priorityBurst < PriorityBurst, priorityBurst' = priorityBurst + 1, at' = "state"
      PROVE  BurstInv'
  <2>1. waited' = WaitOf(queue["bulk"], waited + 1) /\ queue'["bulk"] = queue["bulk"]
    BY <1>5, <1>8 DEF Queues
  <2> QED BY <1>0, <1>8, <2>1 DEF WaitOf, BurstInv
<1>9. CASE LookAtPriority
  <2>1. CASE queue["priority"] # <<>>
    BY <1>8, <1>9, <2>1 DEF LookAtPriority, Goto, BurstInv
  <2>2. CASE queue["priority"] = <<>>
    BY <1>9, <2>2 DEF LookAtPriority, Goto, BurstInv
  <2> QED BY <2>1, <2>2
<1>10. ASSUME NEW q \in Queues, WaitTakes(q) PROVE BurstInv'
  <2>1. Take(q) /\ at = "wait" /\ at' = "state"
    BY <1>10 DEF WaitTakes, Goto
  <2>2. CASE q = "state"
    BY <1>5, <1>10, <2>1, <2>2 DEF WaitTakes, BurstInv
  <2>3. CASE q = "priority"
    BY <1>8, <1>10, <2>1, <2>3 DEF WaitTakes, BurstInv
  <2>4. CASE q = "bulk"
    BY <1>0, <1>5, <1>10, <2>1, <2>4 DEF WaitTakes, BurstInv
  <2> QED BY <2>2, <2>3, <2>4 DEF Queues
<1>11. CASE WaitDeadline
  BY <1>11 DEF WaitDeadline, Goto, BurstInv
<1> QED BY <1>1, <1>2, <1>3, <1>4, <1>6, <1>7, <1>9, <1>10, <1>11 DEF Next, Sending, Batcher

(* However long a flood of priority messages lasts, a bulk message that    *)
(* waits is passed over at most messagePriorityBurst times in a row.       *)
THEOREM BulkGetsItsChance == LSpec => []BulkHeldUpAtMostABurst
<1>1. LInit => OrderInv /\ BurstInv
  BY InitOrder DEF LInit
<1>2. OrderInv /\ BurstInv /\ [LNext]_allVars => OrderInv' /\ BurstInv'
  <2> SUFFICES ASSUME OrderInv, BurstInv, [LNext]_allVars PROVE OrderInv' /\ BurstInv'
    OBVIOUS
  <2>1. [Next]_vars
    BY DEF LNext, allVars
  <2> QED BY <2>1, NextKeepsOrder, NextKeepsBurst
<1>3. BurstInv => BulkHeldUpAtMostABurst
  BY QueueAssumption DEF BurstInv, BulkHeldUpAtMostABurst
<1> QED BY <1>1, <1>2, <1>3, PTL DEF LSpec

=============================================================================

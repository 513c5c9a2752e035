---------------------------- MODULE MessageQueue ----------------------------
(***************************************************************************)
(* core/message.go: the events the core sends its host.  Goroutines all    *)
(* over the core call sendMessage; three bounded channels take their       *)
(* messages by class, and one batcher drains the channels into batches.    *)
(*                                                                         *)
(* A message is the number under which its channel accepted it, so what a  *)
(* channel lost or swapped shows in the numbers that leave.  A batch is    *)
(* kept per channel: no promise is about the order across channels.  The   *)
(* channels are never closed outside the tests, so the batcher never ends. *)
(***************************************************************************)
EXTENDS Naturals, Sequences

CONSTANTS
    Senders,        \* goroutines that call sendMessage
    QueueSize,      \* messageQueueSize
    BatchSize,      \* messageBatchSize
    PriorityBurst,  \* messagePriorityBurst
    EvictAttempts,  \* messageEvictAttempts
    MaxSent,        \* bound on calls of sendMessage
    None

ASSUME QueueAssumption ==
    /\ QueueSize \in Nat \ {0}
    /\ BatchSize \in Nat \ {0}
    /\ PriorityBurst \in Nat \ {0}
    /\ EvictAttempts \in Nat \ {0}
    /\ MaxSent \in Nat

Queues  == {"state", "priority", "bulk"}
Classes == {"state", "priority", "bulk", "yielding"}

VARIABLES
    listening,      \* hasEventListener
    sender,         \* per sender: where it is in sendMessage
    sent,           \* calls so far (bound)
    accepted,       \* per channel: messages it has taken in so far
    queue,          \* the channels
    at,             \* which select the batcher is at
    batch,          \* what the batcher holds, per channel
    deadline,       \* is the batch timer armed?
    priorityBurst,
    left,           \* what deliverEvent was given, per channel
    waited          \* history: priority takes since the bulk channel was
                    \* empty or served

sendVars  == <<listening, sender, sent, accepted>>
batchVars == <<at, batch, deadline, priorityBurst, left>>
vars == <<sendVars, queue, batchVars, waited>>

NoSend == [at |-> "idle", class |-> None, attempt |-> 0]

Init ==
    /\ listening = TRUE
    /\ sender = [s \in Senders |-> NoSend]
    /\ sent = 0
    /\ accepted = [q \in Queues |-> 0]
    /\ queue = [q \in Queues |-> <<>>]
    /\ at = "state"
    /\ batch = [q \in Queues |-> <<>>]
    /\ deadline = FALSE
    /\ priorityBurst = 0
    /\ left = [q \in Queues |-> <<>>]
    /\ waited = 0

-----------------------------------------------------------------------------
(* Senders.                                                                *)

(* The engine detaches and comes back (Android; a desktop is always heard). *)
SetEventListener ==
    /\ listening' = ~listening
    /\ UNCHANGED <<sender, sent, accepted, queue, batchVars, waited>>

(* The channel that takes a class.                                         *)
QueueOf(class) == IF class = "yielding" THEN "bulk" ELSE class

EvictsState(class) == TRUE

(* enqueueLatest makes room for its message; enqueueState gives up.        *)
Evicts(class) == class \in {"priority", "bulk"}

(* sendMessage with a listener; without one it returns at once.            *)
SendMessage(s, class) ==
    /\ sender[s].at = "idle"
    /\ listening
    /\ sent < MaxSent
    /\ sent' = sent + 1
    /\ sender' = [sender EXCEPT ![s] = [at |-> "push", class |-> class, attempt |-> 0]]
    /\ UNCHANGED <<listening, accepted, queue, batchVars, waited>>

(* A send on a channel that may be full.                                   *)
Push(s) ==
    LET class == sender[s].class
        q     == QueueOf(class)
    IN  /\ sender[s].at = "push"
        /\ IF Len(queue[q]) < QueueSize
           THEN /\ accepted' = [accepted EXCEPT ![q] = @ + 1]
                /\ queue' = [queue EXCEPT ![q] = Append(@, accepted[q] + 1)]
                /\ sender' = [sender EXCEPT ![s] = NoSend]
           ELSE /\ sender' = [sender EXCEPT ![s] =
                                 IF Evicts(class) THEN [@ EXCEPT !.at = "evict"]
                                                  ELSE NoSend]
                /\ UNCHANGED <<accepted, queue>>
        /\ UNCHANGED <<listening, sent, batchVars, waited>>

(* What is left of the wait once the bulk channel is what it is now.       *)
WaitOf(bulk, n) == IF bulk = <<>> THEN 0 ELSE n

(* A channel gives its oldest message.                                     *)
Rest(messages) == IF messages = <<>> THEN <<>> ELSE Tail(messages)

(* The receive that makes room takes what is there by then, if anything.   *)
Evict(s) ==
    LET q == QueueOf(sender[s].class)
        n == sender[s].attempt + 1
    IN  /\ sender[s].at = "evict"
        /\ queue' = [queue EXCEPT ![q] = Rest(@)]
        /\ sender' = [sender EXCEPT ![s] =
                         IF n < EvictAttempts
                         THEN [@ EXCEPT !.at = "push", !.attempt = n]
                         ELSE NoSend]
        /\ waited' = WaitOf(queue'["bulk"], waited)
        /\ UNCHANGED <<listening, sent, accepted, batchVars>>

-----------------------------------------------------------------------------
(* runMessageBatcher, a select at a time.                                  *)

Held == Len(batch["state"]) + Len(batch["priority"]) + Len(batch["bulk"])

(* Is the batch full with one more message in it?                          *)
Fills == Held + 1 >= BatchSize

(* flush stops the timer.                                                  *)
Flush(full) ==
    /\ left' = [q \in Queues |-> left[q] \o full[q]]
    /\ batch' = [q \in Queues |-> <<>>]
    /\ deadline' = FALSE

NeverArmed == deadline

(* The first message of a batch arms the timer.                            *)
Armed == deadline \/ Held = 0

(* take.                                                                   *)
Take(q) ==
    LET taken == [batch EXCEPT ![q] = Append(@, Head(queue[q]))] IN
    /\ queue[q] # <<>>
    /\ queue' = [queue EXCEPT ![q] = Tail(@)]
    /\ IF Fills
       THEN Flush(taken)
       ELSE /\ batch' = taken
            /\ deadline' = Armed
            /\ UNCHANGED left
    /\ waited' = CASE q = "bulk"     -> 0
                   [] q = "priority" -> WaitOf(queue["bulk"], waited + 1)
                   [] q = "state"    -> waited

Goto(place) == at' = place

(* State messages go first.                                                *)
LookAtState ==
    /\ at = "state"
    /\ IF queue["state"] # <<>>
       THEN /\ Take("state")
            /\ Goto("state")
       ELSE /\ Goto("chance")
            /\ UNCHANGED <<queue, batch, deadline, left, waited>>
    /\ UNCHANGED <<sendVars, priorityBurst>>

NoChance == FALSE

(* After a burst of priority messages bulk is due.                         *)
BulkIsDue == priorityBurst >= PriorityBurst

ChanceForBulk ==
    /\ at = "chance"
    /\ priorityBurst' = IF BulkIsDue THEN 0 ELSE priorityBurst
    /\ IF BulkIsDue /\ queue["bulk"] # <<>>
       THEN /\ Take("bulk")
            /\ Goto("state")
       ELSE /\ Goto("priority")
            /\ UNCHANGED <<queue, batch, deadline, left, waited>>
    /\ UNCHANGED sendVars

LookAtPriority ==
    /\ at = "priority"
    /\ IF queue["priority"] # <<>>
       THEN /\ Take("priority")
            /\ priorityBurst' = priorityBurst + 1
            /\ Goto("state")
       ELSE /\ Goto("wait")
            /\ UNCHANGED <<queue, batch, deadline, left, waited, priorityBurst>>
    /\ UNCHANGED sendVars

(* The blocking select takes any message there is.                         *)
WaitTakes(q) ==
    /\ at = "wait"
    /\ Take(q)
    /\ priorityBurst' = CASE q = "state"    -> priorityBurst
                          [] q = "priority" -> priorityBurst + 1
                          [] q = "bulk"     -> 0
    /\ Goto("state")
    /\ UNCHANGED sendVars

WaitDeadline ==
    /\ at = "wait"
    /\ deadline
    /\ Flush(batch)
    /\ Goto("state")
    /\ UNCHANGED <<sendVars, queue, priorityBurst, waited>>

-----------------------------------------------------------------------------
Batcher ==
    \/ LookAtState \/ ChanceForBulk \/ LookAtPriority
    \/ \E q \in Queues : WaitTakes(q)
    \/ WaitDeadline

Sending(s) == Push(s) \/ Evict(s)

Next ==
    \/ SetEventListener
    \/ \E s \in Senders : (\E class \in Classes : SendMessage(s, class)) \/ Sending(s)
    \/ Batcher

Spec == Init /\ [][Next]_vars

-----------------------------------------------------------------------------
(* Properties.                                                             *)

(* Messages of one channel leave in the order the channel accepted them,   *)
(* with evictions between them, and none leaves twice; a state message the *)
(* core accepted (a loaded provider, a geo update, a route change) is not  *)
(* even evicted, whatever floods the other channels and however full the   *)
(* channels get.                                                           *)
EventsKeepOrder ==
    \A q \in Queues :
        LET all == left[q] \o batch[q] \o queue[q] IN
        /\ \A i, j \in DOMAIN all : i < j => all[i] < all[j]
        /\ q = "state" => Len(all) = accepted[q]

(* A burst of priority messages holds a bulk message up for at most        *)
(* messagePriorityBurst takes.                                             *)
BulkHeldUpAtMostABurst == waited <= PriorityBurst

(* Every accepted state message reaches deliverEvent.                      *)
StateArrives ==
    \A n \in 1..MaxSent :
        accepted["state"] >= n ~> \E i \in DOMAIN left["state"] : left["state"][i] = n
=============================================================================

----------------------------- MODULE PublishQueue -----------------------------
(***************************************************************************)
(* The queue of outgoing MQTT messages: EnqueuePublishMessage               *)
(* (lib/mqtt_presence/include/mqtt/PublishQueuePolicy.h) and the drain of   *)
(* AsyncMqttPresenceClient (MqttPresenceClient.cpp 570-585).                *)
(*                                                                         *)
(* The loop task enqueues status snapshots, enqueues responses and drains;  *)
(* the MQTT library's task enqueues responses too (ACKs, from onMessage) and *)
(* changes the connection, at any moment, also while the loop task has a    *)
(* message in its hand.  The deque has no lock; its single operations are   *)
(* taken as atomic here.  StatusPublisher composes the queue with the       *)
(* source of its snapshots and gives the specification.                     *)
(***************************************************************************)
EXTENDS SequencesExt, Naturals

CONSTANTS
  Capacity,   \* kMaxQueuedMessages
  MaxStamp,   \* bound: responses ever enqueued
  MaxVersion  \* bound: changes of the node's status

ASSUME CapacityAssumption ==
  Capacity \in Nat \ {0} /\ MaxStamp \in Nat /\ MaxVersion \in Nat \ {0}

VARIABLES
  queue,      \* publish_queue_
  hand,       \* the message drainPublishQueue has popped, as a sequence
  draining,   \* the loop task is inside drainPublishQueue
  connected,  \* client_.connected()
  stamp,      \* responses enqueued so far; each carries its number
  sent,       \* history: responses handed to the MQTT library
  newest,     \* history: the last snapshot handed to it
  shown       \* what subscribers see: that snapshot; 0: the will, or "ready"

observed == <<sent, newest, shown>>
qVars == <<queue, hand, draining, connected, stamp, observed>>

(* A snapshot carries the version of the status it shows.                   *)
Responses == [isStatus : {FALSE}, stamp : 1..MaxStamp]
Snapshots == [isStatus : {TRUE}, stamp : 0..MaxVersion]
Messages  == Responses \cup Snapshots

QueueTypeOK ==
  /\ queue \in Seq(Messages) /\ sent \in Seq(Responses)
  /\ hand \in {<<>>} \cup {<<m>> : m \in Messages}
  /\ draining \in BOOLEAN /\ connected \in BOOLEAN /\ stamp \in 0..MaxStamp
  /\ newest \in 0..MaxVersion /\ shown \in {0, newest}

QueueInit ==
  /\ queue = <<>> /\ hand = <<>> /\ sent = <<>> /\ newest = 0 /\ shown = 0
  /\ draining = FALSE /\ connected = FALSE /\ stamp = 0

-----------------------------------------------------------------------------
(* EnqueuePublishMessage.                                                   *)

Statuses(q) == {i \in DOMAIN q : q[i].isStatus}
First(s)    == CHOOSE i \in s : \A j \in s : i <= j
Full(q)     == Len(q) >= Capacity

StatusQueued(q, msg) ==
  IF Statuses(q) # {} THEN [q EXCEPT ![First(Statuses(q))] = msg]
  ELSE IF Full(q) THEN q ELSE Append(q, msg)

MadeRoomNever(q) == q   \* mutant
MadeRoom(q) ==
  IF ~Full(q) THEN q
  ELSE IF Statuses(q) # {} THEN RemoveAt(q, First(Statuses(q)))
  ELSE Tail(q)

Snapshot(v) == [isStatus |-> TRUE, stamp |-> v]

EnqueueStatusAnyTask(v) ==   \* mutant: the status publisher runs on a task of its own
  /\ queue' = StatusQueued(queue, Snapshot(v))
  /\ UNCHANGED <<hand, draining, connected, stamp, observed>>
EnqueueStatus(v) ==
  /\ ~draining
  /\ queue' = StatusQueued(queue, Snapshot(v))
  /\ UNCHANGED <<hand, draining, connected, stamp, observed>>

EnqueueResponse ==
  /\ stamp < MaxStamp
  /\ queue' = Append(MadeRoom(queue), [isStatus |-> FALSE, stamp |-> stamp + 1])
  /\ stamp' = stamp + 1
  /\ UNCHANGED <<hand, draining, connected, observed>>

-----------------------------------------------------------------------------
(* drainPublishQueue, one step per deque operation or library call.         *)

BeginDrainFull ==   \* mutant: waits for a full queue
  /\ ~draining /\ connected /\ Full(queue)
  /\ draining' = TRUE
  /\ UNCHANGED <<queue, hand, connected, stamp, observed>>
BeginDrain ==
  /\ ~draining /\ connected
  /\ draining' = TRUE
  /\ UNCHANGED <<queue, hand, connected, stamp, observed>>

PopFront ==
  /\ draining /\ hand = <<>> /\ queue # <<>>
  /\ hand' = <<Head(queue)>> /\ queue' = Tail(queue)
  /\ UNCHANGED <<draining, connected, stamp, observed>>

Published ==
  /\ hand # <<>> /\ connected
  /\ IF Statuses(hand) # {}
     THEN /\ newest' = Last(hand).stamp /\ shown' = Last(hand).stamp
          /\ UNCHANGED sent
     ELSE sent' = sent \o hand /\ UNCHANGED <<newest, shown>>
  /\ hand' = <<>>
  /\ UNCHANGED <<queue, draining, connected, stamp>>

RefusedToBack ==   \* mutant: push_back
  /\ hand # <<>>
  /\ queue' = queue \o hand /\ hand' = <<>> /\ draining' = FALSE
  /\ UNCHANGED <<connected, stamp, observed>>
(* The library takes no message when it is not connected or out of buffers. *)
Refused ==
  /\ hand # <<>>
  /\ queue' = hand \o queue /\ hand' = <<>> /\ draining' = FALSE
  /\ UNCHANGED <<connected, stamp, observed>>

EndDrain ==
  /\ draining /\ hand = <<>> /\ queue = <<>>
  /\ draining' = FALSE
  /\ UNCHANGED <<queue, hand, connected, stamp, observed>>

(* A lost connection makes the broker publish the will on the status topic.   *)
Connection ==
  /\ connected' = ~connected /\ shown' = 0
  /\ UNCHANGED <<queue, hand, draining, stamp, sent, newest>>

Drain == BeginDrain \/ PopFront \/ Published \/ Refused \/ EndDrain

(* The loop task keeps draining, and a library offered messages again and   *)
(* again while connected accepts one in the end.                            *)
QueueFairness == WF_qVars(Drain) /\ SF_qVars(Published)

-----------------------------------------------------------------------------
(* Properties.                                                              *)

(* What waits stays bounded: one message beyond the capacity at most, as a    *)
(* response enqueued while the loop task holds a popped message may fill the *)
(* place it is put back to, and one status snapshot at most, put back or not  *)
(* (drain 575-582 against enqueue 14-42): an outage does not end in a flood   *)
(* of stale snapshots.                                                       *)
Bounded ==
  /\ Len(queue) + Len(hand) <= Capacity + 1
  /\ Cardinality(Statuses(hand \o queue)) <= 1

(* A subscriber never sees an older snapshot after a newer one, although a   *)
(* snapshot is replaced in place, ahead of responses older than itself.      *)
StatusOrder == [][newest' >= newest]_qVars

(* Responses alone form a lossy FIFO: see LossyFifo.  At most one snapshot    *)
(* waits among them (Bounded).                                               *)
WithoutStatus(q) == IF Statuses(q) = {} THEN q ELSE RemoveAt(q, First(Statuses(q)))

Channel == INSTANCE LossyFifo WITH
  backlog   <- WithoutStatus(hand \o queue),
  published <- sent

ResponsesAreLossyFifo == Channel!Spec

(* While the broker stays connected everything waiting is published.         *)
Flushed == <>[]connected => []<>(queue = <<>> /\ hand = <<>>)

=============================================================================

---------------------------- MODULE StatusPublisher ----------------------------
(***************************************************************************)
(* The status publisher (lib/mqtt_status/src/MqttStatusPublisher.cpp) on    *)
(* top of the publish queue.  It runs once per loop pass, on the same task  *)
(* as the drain; what it shows changes with every motor and address.        *)
(***************************************************************************)
EXTENDS PublishQueue

CONSTANTS IdleInterval, MotionInterval   \* in units of time

ASSUME IntervalAssumption ==
  /\ IdleInterval \in Nat \ {0} /\ MotionInterval \in Nat \ {0}
  /\ MotionInterval <= IdleInterval

VARIABLES
  node,    \* version of the status; a new one for every change
  moving,  \* motion_active: a motor moves
  hash,    \* last_hash_, as the version; MaxVersion + 1: none yet
  since,   \* time since last_publish_ms_, up to IdleInterval
  readyDue \* the presence client owes the broker a ready message

ownVars == <<node, moving, hash, since>>
pubVars == <<ownVars, readyDue>>
vars == <<qVars, pubVars>>

NoHash == MaxVersion + 1

TypeOK ==
  /\ QueueTypeOK
  /\ node \in 1..MaxVersion /\ moving \in BOOLEAN
  /\ hash \in 1..NoHash /\ since \in 0..IdleInterval
  /\ readyDue \in BOOLEAN

(* setup() calls forceImmediate: no hash says the same.                      *)
Init ==
  /\ QueueInit
  /\ node = 1 /\ moving = FALSE /\ hash = NoHash /\ since = 0
  /\ readyDue = TRUE

Interval == IF moving THEN MotionInterval ELSE IdleInterval
DueOnChange == node # hash   \* mutant: no refresh
Due == node # hash \/ since >= Interval

(* publish() counts a snapshot as published that the full queue has dropped.  *)
PublishStatus ==
  /\ Due /\ EnqueueStatus(node)
  /\ hash' = node /\ since' = 0
  /\ UNCHANGED <<node, moving, readyDue>>

(* A change of motion, power or address makes the presence client say ready   *)
(* once more.                                                               *)
StatusChanges ==
  /\ node < MaxVersion
  /\ node' = node + 1 /\ moving' \in BOOLEAN
  /\ readyDue' = TRUE \/ (moving' = moving /\ UNCHANGED readyDue)
  /\ UNCHANGED <<qVars, hash, since>>

(* The ready message takes the status topic past the queue, at the head of the *)
(* presence client's loop, before the drain; it waits for buffers on its own. *)
SayReady ==
  /\ ~draining /\ connected /\ readyDue
  /\ shown' = 0 /\ readyDue' = FALSE
  /\ UNCHANGED <<queue, hand, draining, connected, stamp, sent, newest, ownVars>>

Elapse ==
  /\ since < IdleInterval /\ since' = since + 1
  /\ UNCHANGED <<qVars, node, moving, hash, readyDue>>

Queue == (EnqueueResponse \/ Drain) /\ UNCHANGED pubVars

Connects ==
  /\ Connection
  /\ readyDue' = (readyDue \/ connected')
  /\ UNCHANGED ownVars

Next == PublishStatus \/ StatusChanges \/ SayReady \/ Elapse \/ Queue \/ Connects

Spec == Init /\ [][Next]_vars

(* A pass of the loop publishes the status and drains the queue.             *)
Fairness == QueueFairness /\ SF_vars(PublishStatus) /\ WF_vars(Elapse)

FairSpec == Spec /\ Fairness

-----------------------------------------------------------------------------
(* Properties.                                                              *)

(* Subscribers end up with the status there is: if the connection and the     *)
(* status last, then the status they see is it, although the queue may have   *)
(* dropped or replaced snapshots the publisher counts as published, and the   *)
(* will or a ready message, which shows no motors, may have overtaken the      *)
(* snapshot it was due before (loop 72-104, presence loop 80-98).             *)
EventuallyCurrent == (<>[]connected /\ <>[][UNCHANGED node]_vars) => []<>(shown = node)

=============================================================================

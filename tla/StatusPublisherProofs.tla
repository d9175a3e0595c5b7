------------------------ MODULE StatusPublisherProofs ------------------------
(***************************************************************************)
(* Proofs about the publish queue and the status publisher on top of it, for *)
(* any capacity, any intervals and any number of responses and snapshots;   *)
(* and that the responses among them are the lossy FIFO of LossyFifo.       *)
(***************************************************************************)
EXTENDS StatusPublisher, SequenceTheorems, FiniteSetTheorems, TLAPS

-----------------------------------------------------------------------------
(* Sequences of messages.                                                   *)

OneStatus(q) == \A i, j \in 1..Len(q) : q[i].isStatus /\ q[j].isStatus => i = j
NoStatus(q)  == \A i \in 1..Len(q) : ~q[i].isStatus
Within(q, oldest, latest) ==
  \A i \in 1..Len(q) : q[i].isStatus => oldest <= q[i].stamp /\ q[i].stamp <= latest

(* The first of some positions.                                              *)
LEMMA FirstOf ==
  ASSUME NEW q \in Seq(Messages), OneStatus(q), Statuses(q) # {}
  PROVE  First(Statuses(q)) \in 1..Len(q) /\ q[First(Statuses(q))].isStatus
<1>1. PICK k \in Statuses(q) : TRUE
  OBVIOUS
<1>2. Statuses(q) \subseteq 1..Len(q) /\ \A i \in Statuses(q) : q[i].isStatus
  BY DEF Statuses
<1>3. \A j \in Statuses(q) : k = j
  BY <1>1, <1>2 DEF OneStatus
<1>4. k \in Statuses(q) /\ \A j \in Statuses(q) : k <= j
  BY <1>1, <1>2, <1>3
<1>5. First(Statuses(q)) \in Statuses(q)
  BY <1>4 DEF First
<1> QED BY <1>2, <1>5

LEMMA Removed ==
  ASSUME NEW q \in Seq(Messages), NEW k \in 1..Len(q)
  PROVE  /\ RemoveAt(q, k) \in Seq(Messages)
         /\ Len(RemoveAt(q, k)) = Len(q) - 1
         /\ \A i \in 1..(Len(q) - 1) : RemoveAt(q, k)[i] = IF i < k THEN q[i] ELSE q[i + 1]
<1> DEFINE a == SubSeq(q, 1, k - 1)
           b == SubSeq(q, k + 1, Len(q))
<1>1. Len(q) \in Nat /\ \A i \in 1..Len(q) : q[i] \in Messages
  BY ElementOfSeq
<1>2. a \in Seq(Messages) /\ Len(a) = k - 1 /\ \A i \in 1..(k - 1) : a[i] = q[i]
  <2>1. \A i \in 1..(k - 1) : q[i] \in Messages
    BY <1>1
  <2> QED BY <1>1, <2>1, SubSeqProperties
<1>3. b \in Seq(Messages) /\ Len(b) = Len(q) - k /\ \A i \in 1..(Len(q) - k) : b[i] = q[k + i]
  <2>1. \A i \in (k + 1)..Len(q) : q[i] \in Messages
    BY <1>1
  <2>2. /\ SubSeq(q, k + 1, Len(q)) \in Seq(Messages)
        /\ Len(SubSeq(q, k + 1, Len(q))) = IF k + 1 <= Len(q) THEN Len(q) - (k + 1) + 1 ELSE 0
        /\ \A i \in 1..(Len(q) - (k + 1) + 1) : SubSeq(q, k + 1, Len(q))[i] = q[(k + 1) + i - 1]
    BY <1>1, <2>1, SubSeqProperties
  <2> HIDE DEF b
  <2>3. b \in Seq(Messages) /\ Len(b) = Len(q) - k
    <3>1. IF k + 1 <= Len(q) THEN Len(q) - (k + 1) + 1 = Len(q) - k ELSE Len(q) - k = 0
      BY <1>1
    <3> QED BY <2>2, <3>1 DEF b
  <2>4. ASSUME NEW i \in 1..(Len(q) - k) PROVE b[i] = q[k + i]
    <3>1. i \in 1..(Len(q) - (k + 1) + 1) /\ (k + 1) + i - 1 = k + i
      BY <1>1
    <3> QED BY <2>2, <3>1 DEF b
  <2> QED BY <2>3, <2>4
<1> HIDE DEF a, b
<1>4. /\ a \o b \in Seq(Messages) /\ Len(a \o b) = Len(a) + Len(b)
      /\ \A i \in 1..(Len(a) + Len(b)) : (a \o b)[i] = IF i <= Len(a) THEN a[i] ELSE b[i - Len(a)]
  BY <1>2, <1>3, ConcatProperties
<1>5. RemoveAt(q, k) = a \o b
  BY DEF RemoveAt, a, b
<1>6. ASSUME NEW i \in 1..(Len(q) - 1)
      PROVE  RemoveAt(q, k)[i] = IF i < k THEN q[i] ELSE q[i + 1]
  <2>1. i \in 1..(Len(a) + Len(b))
    BY <1>1, <1>2, <1>3
  <2>2. CASE i < k
    BY <1>1, <1>2, <1>4, <1>5, <2>1, <2>2
  <2>3. CASE ~(i < k)
    <3>1. i - (k - 1) \in 1..(Len(q) - k) /\ k + (i - (k - 1)) = i + 1 /\ ~(i <= k - 1)
      BY <1>1, <2>3
    <3> QED BY <1>2, <1>3, <1>4, <1>5, <2>1, <2>3, <3>1
  <2> QED BY <2>2, <2>3
<1>7. Len(RemoveAt(q, k)) = Len(q) - 1
  <2>1. (k - 1) + (Len(q) - k) = Len(q) - 1
    BY <1>1
  <2> QED BY <1>2, <1>3, <1>4, <1>5, <2>1
<1> QED BY <1>4, <1>5, <1>6, <1>7

(* Making room: a full queue loses a message and keeps no status.             *)
LEMMA RoomMade ==
  ASSUME NEW q \in Seq(Messages), OneStatus(q)
  PROVE  /\ MadeRoom(q) \in Seq(Messages)
         /\ ~Full(q) => MadeRoom(q) = q
         /\ Full(q) => NoStatus(MadeRoom(q)) /\ Len(MadeRoom(q)) = Len(q) - 1
<1>0. Len(q) \in Nat
  OBVIOUS
<1>1. CASE ~Full(q)
  BY <1>1 DEF MadeRoom
<1>2. CASE Full(q) /\ Statuses(q) # {}
  <2> DEFINE k == First(Statuses(q))
  <2>1. k \in 1..Len(q) /\ q[k].isStatus
    BY <1>2, FirstOf
  <2>2. MadeRoom(q) = RemoveAt(q, k)
    BY <1>2 DEF MadeRoom
  <2> HIDE DEF k
  <2>3. /\ MadeRoom(q) \in Seq(Messages) /\ Len(MadeRoom(q)) = Len(q) - 1
        /\ \A i \in 1..(Len(q) - 1) : MadeRoom(q)[i] = IF i < k THEN q[i] ELSE q[i + 1]
    BY <2>1, <2>2, Removed
  <2>4. ASSUME NEW i \in 1..(Len(q) - 1) PROVE ~MadeRoom(q)[i].isStatus
    <3>1. i \in 1..Len(q) /\ i + 1 \in 1..Len(q) /\ (i < k => i # k) /\ (~(i < k) => i + 1 # k)
      BY <1>0, <2>1
    <3> QED BY <2>1, <2>3, <3>1 DEF OneStatus
  <2> QED BY <1>2, <2>3, <2>4 DEF NoStatus
<1>3. CASE Full(q) /\ Statuses(q) = {}
  <2>1. q # <<>>
    BY <1>3, CapacityAssumption DEF Full
  <2>2. MadeRoom(q) = Tail(q)
    BY <1>3 DEF MadeRoom
  <2>3. /\ MadeRoom(q) \in Seq(Messages) /\ Len(MadeRoom(q)) = Len(q) - 1
        /\ \A i \in 1..Len(MadeRoom(q)) : MadeRoom(q)[i] = q[i + 1]
    BY <2>1, <2>2, HeadTailProperties
  <2>4. \A i \in 1..Len(q) : ~q[i].isStatus
    BY <1>3 DEF Statuses
  <2>5. \A i \in 1..(Len(q) - 1) : i + 1 \in 1..Len(q)
    BY <1>0
  <2> QED BY <1>3, <2>3, <2>4, <2>5 DEF NoStatus
<1> QED BY <1>1, <1>2, <1>3

-----------------------------------------------------------------------------
(* The queue, message by message.                                           *)

(* A snapshot in the queue or in the hand is the only one there, no older than *)
(* the last one published and no newer than the status; the hand is empty     *)
(* outside a drain.                                                          *)
IInv ==
  /\ TypeOK
  /\ Len(queue) + Len(hand) <= Capacity + 1
  /\ OneStatus(queue) /\ Within(queue, newest, node)
  /\ Within(hand, newest, node) /\ newest <= node
  /\ hand # <<>> => draining /\ (hand[1].isStatus => NoStatus(queue))

LEMMA InitIInv == Init => IInv
<1> SUFFICES ASSUME Init PROVE IInv
  OBVIOUS
<1>1. 1 \in 1..MaxVersion /\ 0 \in 0..MaxVersion /\ NoHash \in 1..NoHash
      /\ 0 \in 0..MaxStamp /\ 0 \in 0..IdleInterval
  BY CapacityAssumption, IntervalAssumption DEF NoHash
<1>2. <<>> \in Seq(Messages) /\ <<>> \in Seq(Responses) /\ Len(<<>>) = 0
  OBVIOUS
<1>3. TypeOK
  BY <1>1, <1>2 DEF Init, QueueInit, TypeOK, QueueTypeOK
<1>4. Len(queue) + Len(hand) <= Capacity + 1
  BY CapacityAssumption DEF Init, QueueInit
<1> QED BY <1>3, <1>4 DEF Init, QueueInit, IInv, OneStatus, Within

(* What is known of numbers and messages.                                      *)
LEMMA Known ==
  ASSUME IInv
  PROVE  /\ queue \in Seq(Messages) /\ Len(queue) \in Nat /\ Len(hand) \in Nat
         /\ \A i \in 1..Len(queue) : queue[i] \in Messages
         /\ newest \in Nat /\ node \in 1..MaxVersion /\ Capacity \in Nat \ {0}
         /\ hand \in Seq(Messages)
         /\ hand # <<>> => /\ Len(hand) = 1 /\ hand[1] \in Messages /\ hand = <<hand[1]>>
                           /\ Last(hand) = hand[1]
                           /\ (Statuses(hand) # {} <=> hand[1].isStatus)
<1>1. queue \in Seq(Messages) /\ hand \in {<<>>} \cup {<<m>> : m \in Messages}
      /\ newest \in 0..MaxVersion /\ node \in 1..MaxVersion
  BY DEF IInv, TypeOK, QueueTypeOK
<1>2. CASE hand = <<>>
  BY <1>1, <1>2, ElementOfSeq, CapacityAssumption
<1>3. ASSUME hand # <<>>
      PROVE  /\ Len(hand) = 1 /\ hand[1] \in Messages /\ hand = <<hand[1]>>
             /\ hand \in Seq(Messages) /\ Last(hand) = hand[1]
             /\ (Statuses(hand) # {} <=> hand[1].isStatus)
  <2>1. PICK m \in Messages : hand = <<m>>
    BY <1>1, <1>3
  <2>2. Len(hand) = 1 /\ hand[1] = m /\ hand \in Seq(Messages)
    BY <2>1
  <2>3. Last(hand) = hand[1]
    BY <2>2 DEF Last
  <2>4. Statuses(hand) = {i \in {1} : hand[i].isStatus}
    BY <2>2 DEF Statuses
  <2>5. Statuses(hand) # {} <=> hand[1].isStatus
    BY <2>4
  <2> QED BY <2>1, <2>2, <2>3, <2>5
<1> QED BY <1>1, <1>2, <1>3, ElementOfSeq, CapacityAssumption

LEMMA MessageFields ==
  ASSUME NEW m \in Messages
  PROVE  /\ m.isStatus \in BOOLEAN
         /\ m.isStatus => m \in Snapshots /\ m.stamp \in 0..MaxVersion
         /\ ~m.isStatus => m \in Responses
BY DEF Messages, Responses, Snapshots

(* Steps that leave queue and hand alone.                                      *)
LEMMA QueueAlone ==
  ASSUME IInv, UNCHANGED <<queue, hand, newest>>, node <= node', node' \in 1..MaxVersion,
         TypeOK', hand # <<>> => draining'
  PROVE  IInv'
<1>1. node \in Nat /\ node' \in Nat
  BY DEF IInv, TypeOK
<1>2. Within(queue, newest, node)'
  <2> SUFFICES ASSUME NEW i \in 1..Len(queue), queue[i].isStatus
               PROVE  newest <= queue[i].stamp /\ queue[i].stamp <= node'
    BY DEF Within
  <2>1. newest <= queue[i].stamp /\ queue[i].stamp <= node
    BY DEF IInv, Within
  <2>2. queue[i].stamp \in Nat
    BY Known, MessageFields
  <2> QED BY <1>1, <2>1, <2>2
<1>3. Within(hand, newest, node)'
  <2> SUFFICES ASSUME NEW i \in 1..Len(hand), hand[i].isStatus
               PROVE  newest <= hand[i].stamp /\ hand[i].stamp <= node'
    BY DEF Within
  <2>1. newest <= hand[i].stamp /\ hand[i].stamp <= node
    BY DEF IInv, Within
  <2>2. hand[i].stamp \in Nat
    BY Known, MessageFields, ElementOfSeq
  <2> QED BY <1>1, <2>1, <2>2
<1>4. newest' <= node'
  BY <1>1, Known DEF IInv
<1> QED BY <1>2, <1>3, <1>4 DEF IInv, OneStatus, NoStatus

LEMMA NewStatus ==
  ASSUME NEW q \in Seq(Messages), OneStatus(q), NEW m \in Snapshots
  PROVE  /\ StatusQueued(q, m) \in Seq(Messages)
         /\ Len(StatusQueued(q, m)) <= Len(q) \/ (~Full(q) /\ Len(StatusQueued(q, m)) = Len(q) + 1)
         /\ OneStatus(StatusQueued(q, m))
         /\ \A i \in 1..Len(StatusQueued(q, m)) :
               StatusQueued(q, m)[i].isStatus => StatusQueued(q, m)[i] = m
<1>a. Len(q) \in Nat
  OBVIOUS
<1>b. m.isStatus
  BY Zenon DEF Snapshots
<1>c. m \in Messages
  BY DEF Messages
<1>0. Len(q) \in Nat /\ m \in Messages /\ m.isStatus
  BY <1>a, <1>b, <1>c
<1>1. CASE Statuses(q) # {}
  <2> DEFINE k == First(Statuses(q))
  <2>1. k \in 1..Len(q) /\ q[k].isStatus
    BY <1>1, FirstOf
  <2>2. StatusQueued(q, m) = [q EXCEPT ![k] = m]
    BY <1>1 DEF StatusQueued
  <2> HIDE DEF k
  <2>3. /\ StatusQueued(q, m) \in Seq(Messages) /\ Len(StatusQueued(q, m)) = Len(q)
        /\ \A j \in 1..Len(q) : StatusQueued(q, m)[j] = IF j = k THEN m ELSE q[j]
    BY <1>0, <2>1, <2>2, ExceptSeq
  <2>4. ASSUME NEW j \in 1..Len(q), StatusQueued(q, m)[j].isStatus PROVE j = k
    BY <2>1, <2>3, <2>4 DEF OneStatus
  <2>5. OneStatus(StatusQueued(q, m))
    BY <2>3, <2>4 DEF OneStatus
  <2> QED BY <1>0, <2>3, <2>4, <2>5
<1>2. CASE Statuses(q) = {} /\ Full(q)
  <2>1. StatusQueued(q, m) = q /\ \A i \in 1..Len(q) : ~q[i].isStatus
    BY <1>2 DEF StatusQueued, Statuses
  <2> QED BY <1>0, <2>1
<1>3. CASE Statuses(q) = {} /\ ~Full(q)
  <2>1. StatusQueued(q, m) = Append(q, m) /\ \A i \in 1..Len(q) : ~q[i].isStatus
    BY <1>3 DEF StatusQueued, Statuses
  <2>2. /\ StatusQueued(q, m) \in Seq(Messages) /\ Len(StatusQueued(q, m)) = Len(q) + 1
        /\ \A i \in 1..Len(q) : StatusQueued(q, m)[i] = q[i]
        /\ StatusQueued(q, m)[Len(q) + 1] = m
    BY <1>0, <2>1, AppendProperties
  <2>3. \A i \in 1..(Len(q) + 1) : StatusQueued(q, m)[i].isStatus => i = Len(q) + 1
    BY <1>0, <2>1, <2>2
  <2>4. OneStatus(StatusQueued(q, m))
    BY <2>2, <2>3 DEF OneStatus
  <2> QED BY <1>0, <1>3, <2>2, <2>3, <2>4
<1> QED BY <1>1, <1>2, <1>3

(* The status publisher.                                                     *)
LEMMA PublishKeeps == ASSUME IInv, PublishStatus PROVE IInv'
<1>1. /\ ~draining /\ hand = <<>>
      /\ queue' = StatusQueued(queue, Snapshot(node))
      /\ UNCHANGED <<hand, draining, connected, stamp, observed, node, moving, readyDue>>
      /\ hash' = node /\ since' = 0
  BY DEF PublishStatus, EnqueueStatus, IInv
<1>2. Snapshot(node) \in Snapshots /\ Snapshot(node).stamp = node
  BY Known, CapacityAssumption DEF Snapshot, Snapshots
<1>3. /\ queue' \in Seq(Messages) /\ OneStatus(queue')
      /\ Len(queue') <= Len(queue) \/ (~Full(queue) /\ Len(queue') = Len(queue) + 1)
      /\ \A i \in 1..Len(queue') : queue'[i].isStatus => queue'[i] = Snapshot(node)
  BY <1>1, <1>2, Known, NewStatus DEF IInv
<1>4. Len(queue') + Len(hand') <= Capacity + 1
  BY <1>1, <1>3, Known DEF IInv, Full
<1>5. Within(queue', newest, node) /\ newest <= node
  BY <1>2, <1>3, Known DEF Within, IInv
<1>6. TypeOK'
  BY <1>1, <1>3, Known, IntervalAssumption, CapacityAssumption
     DEF IInv, TypeOK, QueueTypeOK, observed, NoHash
<1> QED BY <1>1, <1>3, <1>4, <1>5, <1>6 DEF IInv, observed, Within

(* Responses, from either task.                                               *)
LEMMA ResponseKeeps == ASSUME IInv, EnqueueResponse, UNCHANGED pubVars PROVE IInv'
<1> DEFINE m == [isStatus |-> FALSE, stamp |-> stamp + 1]
           r == MadeRoom(queue)
<1>1. /\ queue' = Append(r, m) /\ stamp' = stamp + 1 /\ stamp < MaxStamp
      /\ UNCHANGED <<hand, draining, connected, observed, pubVars>>
  BY DEF EnqueueResponse
<1>2. stamp \in 0..MaxStamp /\ stamp + 1 \in 1..MaxStamp
  BY <1>1, CapacityAssumption DEF IInv, TypeOK, QueueTypeOK
<1>3. m \in Messages /\ ~m.isStatus
  BY <1>2 DEF Messages, Responses
<1>4. /\ r \in Seq(Messages)
      /\ ~Full(queue) => r = queue
      /\ Full(queue) => NoStatus(r) /\ Len(r) = Len(queue) - 1
  BY Known, RoomMade DEF IInv
<1> HIDE DEF m, r
<1>5. /\ queue' \in Seq(Messages) /\ Len(queue') = Len(r) + 1 /\ Len(r) \in Nat
      /\ \A i \in 1..Len(r) : queue'[i] = r[i]
      /\ queue'[Len(r) + 1] = m
  BY <1>1, <1>3, <1>4, AppendProperties, LenProperties
<1>6. Len(queue') + Len(hand') <= Capacity + 1
  <2>1. CASE Full(queue)
    BY <1>1, <1>4, <1>5, <2>1, Known DEF IInv
  <2>2. CASE ~Full(queue)
    <3>1. Len(hand) <= 1
      BY Known, EmptySeq
    <3> QED BY <1>1, <1>4, <1>5, <2>2, <3>1, Known DEF Full
  <2> QED BY <2>1, <2>2
<1>7. ASSUME NEW i \in 1..Len(queue'), queue'[i].isStatus
      PROVE  ~Full(queue) /\ i \in 1..Len(queue) /\ queue'[i] = queue[i]
  <2>1. i \in 1..Len(r) /\ r[i].isStatus /\ queue'[i] = r[i]
    BY <1>3, <1>5, <1>7
  <2> QED BY <1>4, <2>1 DEF NoStatus
<1>8. OneStatus(queue') /\ Within(queue', newest, node)
      /\ (NoStatus(queue) => NoStatus(queue'))
  BY <1>7 DEF IInv, OneStatus, Within, NoStatus
<1>9. TypeOK'
  BY <1>1, <1>2, <1>5 DEF IInv, TypeOK, QueueTypeOK, observed, pubVars, ownVars
<1> QED BY <1>1, <1>6, <1>8, <1>9 DEF IInv, observed, pubVars, ownVars, Within, NoStatus

(* The drain.                                                               *)
LEMMA PopKeeps == ASSUME IInv, PopFront, UNCHANGED pubVars PROVE IInv'
<1>1. /\ draining /\ hand = <<>> /\ queue # <<>>
      /\ hand' = <<Head(queue)>> /\ queue' = Tail(queue)
      /\ UNCHANGED <<draining, connected, stamp, observed, pubVars>>
  BY DEF PopFront
<1>2. /\ Head(queue) = queue[1] /\ queue[1] \in Messages
      /\ queue' \in Seq(Messages) /\ Len(queue') = Len(queue) - 1 /\ Len(queue) \in Nat \ {0}
      /\ \A i \in 1..Len(queue') : queue'[i] = queue[i + 1]
  BY <1>1, Known, HeadTailProperties
<1>3. hand'[1] = queue[1] /\ Len(hand') = 1 /\ hand' # <<>>
  BY <1>1, <1>2
<1>4. ASSUME NEW i \in 1..Len(queue')
      PROVE  i + 1 \in 1..Len(queue) /\ queue'[i] = queue[i + 1] /\ i + 1 # 1
  BY <1>2
<1>5. OneStatus(queue') /\ Within(queue', newest, node)
  <2>1. \A i, j \in 1..Len(queue') : i + 1 = j + 1 => i = j
    BY <1>2
  <2> QED BY <1>4, <2>1 DEF IInv, OneStatus, Within
<1>6. hand'[1].isStatus => NoStatus(queue')
  <2>1. 1 \in 1..Len(queue)
    BY <1>2
  <2> QED BY <1>3, <1>4, <2>1 DEF IInv, OneStatus, NoStatus
<1>7. Within(hand', newest, node)
  <2>1. 1 \in 1..Len(queue) /\ \A i \in 1..Len(hand') : i = 1
    BY <1>2, <1>3
  <2> QED BY <1>3, <2>1 DEF IInv, Within
<1>8. Len(queue') + Len(hand') <= Capacity + 1
  BY <1>1, <1>2, <1>3, Known DEF IInv
<1>9. TypeOK'
  <2>1. hand' \in {<<m>> : m \in Messages}
    BY <1>1, <1>2
  <2> QED BY <1>1, <1>2, <2>1 DEF IInv, TypeOK, QueueTypeOK, observed, pubVars, ownVars
<1> QED BY <1>1, <1>5, <1>6, <1>7, <1>8, <1>9 DEF IInv, observed, pubVars, ownVars, Within, NoStatus

LEMMA PublishedKeeps == ASSUME IInv, Published, UNCHANGED pubVars PROVE IInv' /\ newest' >= newest
<1>1. /\ hand # <<>> /\ hand' = <<>> /\ UNCHANGED <<queue, draining, connected, stamp, pubVars>>
      /\ IF Statuses(hand) # {}
         THEN newest' = Last(hand).stamp /\ shown' = Last(hand).stamp /\ UNCHANGED sent
         ELSE sent' = sent \o hand /\ UNCHANGED <<newest, shown>>
  BY DEF Published
<1>2. /\ Len(hand) = 1 /\ hand[1] \in Messages /\ hand = <<hand[1]>> /\ Last(hand) = hand[1]
      /\ (Statuses(hand) # {} <=> hand[1].isStatus)
  BY <1>1, Known
<1>3. 1 \in 1..Len(hand)
  BY <1>2
<1>4. Len(queue') + Len(hand') <= Capacity + 1
  BY <1>1, <1>2, Known DEF IInv
<1>5. CASE hand[1].isStatus
  <2>1. newest' = hand[1].stamp /\ shown' = hand[1].stamp /\ sent' = sent
    BY <1>1, <1>2, <1>5
  <2>2. newest <= hand[1].stamp /\ hand[1].stamp <= node /\ hand[1].stamp \in 0..MaxVersion
    BY <1>2, <1>3, <1>5, MessageFields DEF IInv, Within
  <2>3. NoStatus(queue)
    BY <1>1, <1>5 DEF IInv
  <2>4. TypeOK'
    BY <1>1, <2>1, <2>2 DEF IInv, TypeOK, QueueTypeOK, pubVars, ownVars
  <2> QED BY <1>1, <1>4, <2>1, <2>2, <2>3, <2>4, Known
          DEF IInv, NoStatus, Within, OneStatus, pubVars, ownVars
<1>6. CASE ~hand[1].isStatus
  <2>1. newest' = newest /\ shown' = shown /\ sent' = sent \o hand
    BY <1>1, <1>2, <1>6
  <2>2. hand \in Seq(Responses)
    <3>1. hand[1] \in Responses
      BY <1>2, <1>6, MessageFields
    <3>2. \A r : r \in Responses => <<r>> \in Seq(Responses)
      OBVIOUS
    <3> QED BY <1>2, <3>1, <3>2, Zenon
  <2>3. sent' \in Seq(Responses)
    BY <2>1, <2>2, ConcatProperties DEF IInv, TypeOK, QueueTypeOK
  <2>4. TypeOK'
    BY <1>1, <2>1, <2>3 DEF IInv, TypeOK, QueueTypeOK, pubVars, ownVars
  <2> QED BY <1>1, <1>4, <2>1, <2>4, Known
          DEF IInv, NoStatus, Within, OneStatus, pubVars, ownVars
<1> QED BY <1>5, <1>6

LEMMA RefusedKeeps == ASSUME IInv, Refused, UNCHANGED pubVars PROVE IInv'
<1>1. /\ hand # <<>> /\ queue' = hand \o queue /\ hand' = <<>> /\ draining' = FALSE
      /\ UNCHANGED <<connected, stamp, observed, pubVars>>
  BY DEF Refused
<1>2. hand \in Seq(Messages) /\ queue \in Seq(Messages) /\ Len(hand) = 1 /\ Len(queue) \in Nat
  BY <1>1, Known
<1>3. /\ queue' \in Seq(Messages) /\ Len(queue') = 1 + Len(queue)
      /\ \A i \in 1..(1 + Len(queue)) : queue'[i] = IF i <= 1 THEN hand[i] ELSE queue[i - 1]
  <2>1. /\ hand \o queue \in Seq(Messages) /\ Len(hand \o queue) = Len(hand) + Len(queue)
        /\ \A i \in 1..(Len(hand) + Len(queue)) :
              (hand \o queue)[i] = IF i <= Len(hand) THEN hand[i] ELSE queue[i - Len(hand)]
    BY <1>2, ConcatProperties
  <2> QED BY <1>1, <1>2, <2>1
<1>4. queue'[1] = hand[1] /\ 1 \in 1..Len(hand)
  BY <1>2, <1>3
<1>5. ASSUME NEW i \in 1..Len(queue'), i # 1
      PROVE  i - 1 \in 1..Len(queue) /\ queue'[i] = queue[i - 1]
  BY <1>2, <1>3, <1>5
<1>6. ASSUME NEW i \in 1..Len(queue'), queue'[i].isStatus, i # 1
      PROVE  ~hand[1].isStatus
  BY <1>1, <1>5, <1>6 DEF IInv, NoStatus
<1>7. OneStatus(queue')
  <2> SUFFICES ASSUME NEW i \in 1..Len(queue'), NEW j \in 1..Len(queue'),
                      queue'[i].isStatus, queue'[j].isStatus
               PROVE  i = j
    BY DEF OneStatus
  <2>1. CASE i # 1 /\ j # 1
    <3>1. i - 1 = j - 1
      BY <1>5, <2>1 DEF IInv, OneStatus
    <3> QED BY <1>3, <1>2, <3>1
  <2> QED BY <1>4, <1>6, <2>1
<1>8. Within(queue', newest, node)
  BY <1>4, <1>5 DEF IInv, Within
<1>9. Len(queue') + Len(hand') <= Capacity + 1
  BY <1>1, <1>2, <1>3, Known DEF IInv
<1>10. TypeOK'
  BY <1>1, <1>3 DEF IInv, TypeOK, QueueTypeOK, observed, pubVars, ownVars
<1> QED BY <1>1, <1>7, <1>8, <1>9, <1>10 DEF IInv, observed, pubVars, ownVars, Within

LEMMA DrainKeeps == ASSUME IInv, BeginDrain \/ EndDrain, UNCHANGED pubVars PROVE IInv'
<1>1. /\ UNCHANGED <<queue, hand, stamp, connected, observed, pubVars>>
      /\ draining' \in BOOLEAN /\ (hand # <<>> => draining')
  BY DEF BeginDrain, EndDrain, IInv
<1>2. TypeOK'
  BY <1>1 DEF IInv, TypeOK, QueueTypeOK, observed, pubVars, ownVars
<1>3. node <= node' /\ node' \in 1..MaxVersion
  BY <1>1, Known, CapacityAssumption DEF pubVars, ownVars
<1> QED BY <1>1, <1>2, <1>3, QueueAlone DEF observed

(* The status, time, the connection and the ready message.                    *)
LEMMA WorldKeeps == ASSUME IInv, StatusChanges \/ SayReady \/ Elapse \/ Connects PROVE IInv'
<1>1. UNCHANGED <<queue, hand, newest, stamp, draining, sent>>
  BY DEF StatusChanges, SayReady, Elapse, Connects, Connection, qVars, observed
<1>2. node <= node' /\ node' \in 1..MaxVersion
  BY Known, CapacityAssumption DEF StatusChanges, SayReady, Elapse, Connects, ownVars
<1>3. shown' \in {0, newest'}
  BY DEF StatusChanges, SayReady, Elapse, Connects, Connection, qVars, observed, IInv, TypeOK,
         QueueTypeOK
<1>4. connected' \in BOOLEAN
  BY DEF StatusChanges, SayReady, Elapse, Connects, Connection, qVars, IInv, TypeOK, QueueTypeOK
<1>5. readyDue' \in BOOLEAN /\ moving' \in BOOLEAN
  BY <1>4, Zenon DEF StatusChanges, SayReady, Elapse, Connects, IInv, TypeOK, ownVars
<1>6. since' \in 0..IdleInterval /\ hash' = hash
  BY IntervalAssumption DEF StatusChanges, SayReady, Elapse, Connects, IInv, TypeOK, ownVars
<1>7. TypeOK'
  BY <1>1, <1>2, <1>3, <1>4, <1>5, <1>6 DEF IInv, TypeOK, QueueTypeOK
<1>8. hand # <<>> => draining'
  BY <1>1 DEF IInv
<1> QED BY <1>1, <1>2, <1>7, <1>8, QueueAlone

-----------------------------------------------------------------------------
LEMMA NextIInv == IInv /\ [Next]_vars => IInv' /\ newest' >= newest
<1> SUFFICES ASSUME IInv, [Next]_vars PROVE IInv' /\ newest' >= newest
  OBVIOUS
<1>0. newest \in Nat
  BY Known
<1>1. CASE UNCHANGED vars
  BY <1>0, <1>1 DEF vars, qVars, pubVars, ownVars, observed, IInv, TypeOK, QueueTypeOK,
     OneStatus, NoStatus, Within
<1>2. CASE PublishStatus
  <2>1. newest' = newest
    BY <1>2 DEF PublishStatus, EnqueueStatus, observed
  <2> QED BY <1>0, <1>2, <2>1, PublishKeeps
<1>3. CASE StatusChanges \/ SayReady \/ Elapse \/ Connects
  <2>1. newest' = newest
    BY <1>3 DEF StatusChanges, SayReady, Elapse, Connects, Connection, qVars, observed
  <2> QED BY <1>0, <1>3, <2>1, WorldKeeps
<1>4. CASE Queue
  <2>1. CASE Published
    BY <1>4, <2>1, PublishedKeeps DEF Queue
  <2>2. CASE EnqueueResponse \/ BeginDrain \/ PopFront \/ Refused \/ EndDrain
    <3>1. newest' = newest
      BY <2>2 DEF EnqueueResponse, BeginDrain, PopFront, Refused, EndDrain, observed
    <3>2. UNCHANGED pubVars
      BY <1>4 DEF Queue
    <3> QED BY <1>0, <2>2, <3>1, <3>2, ResponseKeeps, PopKeeps, RefusedKeeps, DrainKeeps
  <2> QED BY <1>4, <2>1, <2>2 DEF Queue, Drain
<1> QED BY <1>1, <1>2, <1>3, <1>4 DEF Next

(* Queue and hand hold one snapshot at most, none older than the newest one     *)
(* published, in every behaviour (EnqueuePublishMessage, drainPublishQueue).   *)
THEOREM Inductive == Spec => []IInv
BY InitIInv, NextIInv, PTL DEF Spec

(* The variables of the queue and of MqttStatusPublisher keep to their ranges.  *)
THEOREM TypeCorrect == Spec => []TypeOK
<1>1. IInv => TypeOK
  BY DEF IInv
<1> QED BY <1>1, Inductive, PTL

(* Subscribers never see an older snapshot after a newer one, though a refused  *)
(* one goes back in front (EnqueuePublishMessage, drainPublishQueue).          *)
THEOREM NeverOlder == Spec => StatusOrder
<1>1. IInv /\ [Next]_vars => [newest' >= newest]_qVars
  BY NextIInv
<1> QED BY <1>1, Inductive, PTL DEF Spec, StatusOrder

-----------------------------------------------------------------------------
(* Responses are a lossy FIFO.                                               *)

(* Removing from one of two sequences, one after the other.                   *)
LEMMA RemoveLeft ==
  ASSUME NEW a \in Seq(Messages), NEW b \in Seq(Messages), NEW k \in 1..Len(a)
  PROVE  RemoveAt(a \o b, k) = RemoveAt(a, k) \o b
<1> DEFINE ab == a \o b
           l == RemoveAt(ab, k)
           d == RemoveAt(a, k)
           r == d \o b
<1>1. /\ Len(a) \in Nat /\ Len(b) \in Nat
      /\ ab \in Seq(Messages) /\ Len(ab) = Len(a) + Len(b)
      /\ \A i \in 1..(Len(a) + Len(b)) : ab[i] = IF i <= Len(a) THEN a[i] ELSE b[i - Len(a)]
  BY ConcatProperties, LenProperties
<1> HIDE DEF ab
<1>2. k \in 1..Len(ab)
  BY <1>1
<1>3. /\ l \in Seq(Messages) /\ Len(l) = Len(ab) - 1
      /\ \A i \in 1..(Len(ab) - 1) : l[i] = IF i < k THEN ab[i] ELSE ab[i + 1]
  BY <1>1, <1>2, Removed
<1>4. /\ d \in Seq(Messages) /\ Len(d) = Len(a) - 1
      /\ \A i \in 1..(Len(a) - 1) : d[i] = IF i < k THEN a[i] ELSE a[i + 1]
  BY Removed
<1> HIDE DEF l, d
<1>5. /\ r \in Seq(Messages) /\ Len(r) = Len(d) + Len(b)
      /\ \A i \in 1..(Len(d) + Len(b)) : r[i] = IF i <= Len(d) THEN d[i] ELSE b[i - Len(d)]
  BY <1>4, ConcatProperties
<1> HIDE DEF r
<1>6. ASSUME NEW i \in 1..Len(l) PROVE l[i] = r[i]
  <2>1. i \in 1..(Len(ab) - 1) /\ i \in 1..(Len(d) + Len(b))
    BY <1>1, <1>3, <1>4
  <2>2. CASE i <= Len(d)
    <3>1. i \in 1..(Len(a) - 1) /\ i <= Len(a) /\ i + 1 <= Len(a)
          /\ i \in 1..(Len(a) + Len(b)) /\ i + 1 \in 1..(Len(a) + Len(b))
      BY <1>1, <1>4, <2>2
    <3> QED BY <1>1, <1>3, <1>4, <1>5, <2>1, <2>2, <3>1
  <2>3. CASE ~(i <= Len(d))
    <3>1. ~(i < k) /\ i + 1 \in 1..(Len(a) + Len(b)) /\ ~(i + 1 <= Len(a))
          /\ (i + 1) - Len(a) = i - Len(d)
      BY <1>1, <1>4, <2>1, <2>3
    <3> QED BY <1>1, <1>3, <1>5, <2>1, <2>3, <3>1
  <2> QED BY <2>2, <2>3
<1>7. Len(l) = Len(r)
  BY <1>1, <1>3, <1>4, <1>5
<1>8. l = r
  BY <1>3, <1>5, <1>6, <1>7, SeqEqual
<1> QED BY <1>8 DEF l, r, d, ab

LEMMA RemoveRight ==
  ASSUME NEW a \in Seq(Messages), NEW b \in Seq(Messages), NEW k \in 1..Len(b)
  PROVE  RemoveAt(a \o b, Len(a) + k) = a \o RemoveAt(b, k)
<1> DEFINE ab == a \o b
           l == RemoveAt(ab, Len(a) + k)
           d == RemoveAt(b, k)
           r == a \o d
<1>1. /\ Len(a) \in Nat /\ Len(b) \in Nat
      /\ ab \in Seq(Messages) /\ Len(ab) = Len(a) + Len(b)
      /\ \A i \in 1..(Len(a) + Len(b)) : ab[i] = IF i <= Len(a) THEN a[i] ELSE b[i - Len(a)]
  BY ConcatProperties, LenProperties
<1> HIDE DEF ab
<1>2. Len(a) + k \in 1..Len(ab)
  BY <1>1
<1>3. /\ l \in Seq(Messages) /\ Len(l) = Len(ab) - 1
      /\ \A i \in 1..(Len(ab) - 1) : l[i] = IF i < Len(a) + k THEN ab[i] ELSE ab[i + 1]
  BY <1>1, <1>2, Removed
<1>4. /\ d \in Seq(Messages) /\ Len(d) = Len(b) - 1
      /\ \A i \in 1..(Len(b) - 1) : d[i] = IF i < k THEN b[i] ELSE b[i + 1]
  BY Removed
<1> HIDE DEF l, d
<1>5. /\ r \in Seq(Messages) /\ Len(r) = Len(a) + Len(d)
      /\ \A i \in 1..(Len(a) + Len(d)) : r[i] = IF i <= Len(a) THEN a[i] ELSE d[i - Len(a)]
  BY <1>4, ConcatProperties
<1> HIDE DEF r
<1>6. ASSUME NEW i \in 1..Len(l) PROVE l[i] = r[i]
  <2>1. /\ i \in 1..(Len(ab) - 1) /\ i \in 1..(Len(a) + Len(d))
        /\ i \in 1..(Len(a) + Len(b)) /\ i + 1 \in 1..(Len(a) + Len(b))
    BY <1>1, <1>3, <1>4
  <2>2. CASE i <= Len(a)
    <3>1. i < Len(a) + k
      BY <1>1, <2>2
    <3> QED BY <1>1, <1>3, <1>5, <2>1, <2>2, <3>1
  <2>3. CASE ~(i <= Len(a))
    <3>1. /\ i - Len(a) \in 1..(Len(b) - 1) /\ (i < Len(a) + k <=> i - Len(a) < k)
          /\ ~(i + 1 <= Len(a)) /\ (i + 1) - Len(a) = (i - Len(a)) + 1
      BY <1>1, <1>4, <2>1, <2>3
    <3>2. l[i] = IF i - Len(a) < k THEN b[i - Len(a)] ELSE b[(i - Len(a)) + 1]
      BY <1>1, <1>3, <2>1, <2>3, <3>1
    <3>3. r[i] = d[i - Len(a)]
      BY <1>5, <2>1, <2>3
    <3> QED BY <1>4, <3>1, <3>2, <3>3
  <2> QED BY <2>2, <2>3
<1>7. Len(l) = Len(r)
  BY <1>1, <1>3, <1>4, <1>5
<1>8. l = r
  BY <1>3, <1>5, <1>6, <1>7, SeqEqual
<1> QED BY <1>8 DEF l, r, d, ab

LEMMA RemoveHead ==
  ASSUME NEW q \in Seq(Messages), q # <<>>
  PROVE  RemoveAt(q, 1) = Tail(q)
<1>1. Len(q) \in Nat \ {0} /\ Tail(q) = SubSeq(q, 2, Len(q)) /\ Tail(q) \in Seq(Messages)
  BY EmptySeq, TailIsSubSeq, HeadTailProperties
<1>2. SubSeq(q, 1, 0) = <<>>
  BY SubSeqEmpty
<1>3. RemoveAt(q, 1) = SubSeq(q, 1, 0) \o SubSeq(q, 2, Len(q))
  <2>1. 1 - 1 = 0 /\ 1 + 1 = 2
    OBVIOUS
  <2> QED BY <2>1, Zenon DEF RemoveAt
<1>4. RemoveAt(q, 1) = <<>> \o Tail(q)
  BY <1>1, <1>2, <1>3, Zenon
<1>5. <<>> \o Tail(q) = Tail(q)
  BY <1>1, ConcatEmptySeq
<1>6. QED
  BY <1>4, <1>5, Zenon

(* What is left of a queue without its snapshot.                              *)
LEMMA NothingToDrop == ASSUME NEW q \in Seq(Messages), NoStatus(q) PROVE WithoutStatus(q) = q
<1>1. Statuses(q) = {}
  BY LenProperties DEF Statuses, NoStatus
<1> QED BY <1>1 DEF WithoutStatus

LEMMA DropAt ==
  ASSUME NEW q \in Seq(Messages), OneStatus(q), NEW k \in 1..Len(q), q[k].isStatus
  PROVE  WithoutStatus(q) = RemoveAt(q, k)
<1>1. Statuses(q) # {}
  BY LenProperties DEF Statuses
<1>2. First(Statuses(q)) = k
  BY <1>1, FirstOf DEF OneStatus
<1> QED BY <1>1, <1>2 DEF WithoutStatus

LEMMA DropApart ==
  ASSUME NEW a \in Seq(Messages), NEW b \in Seq(Messages), OneStatus(a \o b)
  PROVE  /\ OneStatus(a) /\ OneStatus(b)
         /\ WithoutStatus(a \o b) = WithoutStatus(a) \o WithoutStatus(b)
<1>1. /\ Len(a) \in Nat /\ Len(b) \in Nat
      /\ a \o b \in Seq(Messages) /\ Len(a \o b) = Len(a) + Len(b)
      /\ \A i \in 1..(Len(a) + Len(b)) : (a \o b)[i] = IF i <= Len(a) THEN a[i] ELSE b[i - Len(a)]
  BY ConcatProperties, LenProperties
<1> DEFINE ab == a \o b
<1>2. ab = a \o b
  OBVIOUS
<1> HIDE DEF ab
<1>3. \A i \in 1..Len(a) : i \in 1..Len(ab) /\ ab[i] = a[i]
  BY <1>1, <1>2
<1>4. \A i \in 1..Len(b) : Len(a) + i \in 1..Len(ab) /\ ab[Len(a) + i] = b[i]
  <2> TAKE i \in 1..Len(b)
  <2>1. Len(a) + i \in 1..(Len(a) + Len(b)) /\ ~(Len(a) + i <= Len(a)) /\ (Len(a) + i) - Len(a) = i
    BY <1>1
  <2> QED BY <1>1, <1>2, <2>1
<1>5. OneStatus(ab) /\ ab \in Seq(Messages)
  BY <1>1, <1>2
<1>6. OneStatus(a)
  BY <1>3, <1>5 DEF OneStatus
<1>7. OneStatus(b)
  <2> SUFFICES ASSUME NEW i \in 1..Len(b), NEW j \in 1..Len(b), b[i].isStatus, b[j].isStatus
               PROVE  i = j
    BY DEF OneStatus
  <2>1. Len(a) + i = Len(a) + j
    BY <1>4, <1>5 DEF OneStatus
  <2> QED BY <1>1, <2>1
<1>8. \A i \in 1..Len(a), j \in 1..Len(b) : ~(a[i].isStatus /\ b[j].isStatus)
  <2> SUFFICES ASSUME NEW i \in 1..Len(a), NEW j \in 1..Len(b), a[i].isStatus, b[j].isStatus
               PROVE  FALSE
    OBVIOUS
  <2>1. i = Len(a) + j
    BY <1>3, <1>4, <1>5 DEF OneStatus
  <2> QED BY <1>1, <2>1
<1>9. CASE NoStatus(a) /\ NoStatus(b)
  <2>1. NoStatus(ab)
    <3> SUFFICES ASSUME NEW i \in 1..Len(ab) PROVE ~ab[i].isStatus
      BY DEF NoStatus
    <3>1. CASE i <= Len(a)
      BY <1>1, <1>2, <1>9, <3>1 DEF NoStatus
    <3>2. CASE ~(i <= Len(a))
      <4>1. i - Len(a) \in 1..Len(b)
        BY <1>1, <1>2, <3>2
      <4> QED BY <1>1, <1>2, <1>9, <3>2, <4>1 DEF NoStatus
    <3> QED BY <3>1, <3>2
  <2> QED BY <1>2, <1>5, <1>6, <1>7, <1>9, <2>1, NothingToDrop
<1>10. ASSUME NEW k \in 1..Len(a), a[k].isStatus
       PROVE  WithoutStatus(ab) = WithoutStatus(a) \o WithoutStatus(b)
  <2>1. NoStatus(b)
    BY <1>8, <1>10 DEF NoStatus
  <2>2. WithoutStatus(ab) = RemoveAt(ab, k) /\ WithoutStatus(a) = RemoveAt(a, k)
    BY <1>3, <1>5, <1>6, <1>10, DropAt
  <2>3. RemoveAt(a \o b, k) = RemoveAt(a, k) \o b
    BY RemoveLeft
  <2>4. WithoutStatus(b) = b
    BY <2>1, NothingToDrop
  <2> QED BY <1>2, <2>2, <2>3, <2>4, Zenon
<1>11. ASSUME NEW k \in 1..Len(b), b[k].isStatus
       PROVE  WithoutStatus(ab) = WithoutStatus(a) \o WithoutStatus(b)
  <2>1. NoStatus(a)
    BY <1>8, <1>11 DEF NoStatus
  <2>2. WithoutStatus(ab) = RemoveAt(ab, Len(a) + k) /\ WithoutStatus(b) = RemoveAt(b, k)
    BY <1>4, <1>5, <1>7, <1>11, DropAt
  <2>3. RemoveAt(a \o b, Len(a) + k) = a \o RemoveAt(b, k)
    BY RemoveRight
  <2>4. WithoutStatus(a) = a
    BY <2>1, NothingToDrop
  <2> QED BY <1>2, <2>2, <2>3, <2>4, Zenon
<1> QED BY <1>2, <1>6, <1>7, <1>9, <1>10, <1>11 DEF NoStatus

(* One message more, at either end.                                          *)
LEMMA DropBehind ==
  ASSUME NEW q \in Seq(Messages), OneStatus(q), NEW m \in Responses
  PROVE  /\ Append(q, m) \in Seq(Messages) /\ OneStatus(Append(q, m))
         /\ WithoutStatus(Append(q, m)) = Append(WithoutStatus(q), m)
         /\ WithoutStatus(q) \in Seq(Messages)
<1>1. m \in Messages /\ ~m.isStatus
  BY DEF Messages, Responses
<1>2. /\ Append(q, m) \in Seq(Messages) /\ Len(Append(q, m)) = Len(q) + 1 /\ Len(q) \in Nat
      /\ \A i \in 1..Len(q) : Append(q, m)[i] = q[i]
      /\ Append(q, m)[Len(q) + 1] = m
  BY <1>1, AppendProperties, LenProperties
<1>3. OneStatus(Append(q, m))
  <2>1. \A i \in 1..Len(Append(q, m)) : Append(q, m)[i].isStatus =>
          i \in 1..Len(q) /\ q[i].isStatus
    BY <1>1, <1>2
  <2> QED BY <2>1 DEF OneStatus
<1>4. WithoutStatus(q) \in Seq(Messages)
  <2>1. CASE Statuses(q) = {}
    BY <2>1 DEF WithoutStatus
  <2>2. CASE Statuses(q) # {}
    BY <2>2, FirstOf, Removed DEF WithoutStatus
  <2> QED BY <2>1, <2>2
<1>5. <<m>> \in Seq(Messages) /\ NoStatus(<<m>>)
  <2>1. Len(<<m>>) = 1 /\ <<m>>[1] = m
    OBVIOUS
  <2> QED BY <1>1, <2>1 DEF NoStatus
<1>6. Append(q, m) = q \o <<m>> /\ Append(WithoutStatus(q), m) = WithoutStatus(q) \o <<m>>
  BY <1>1, <1>4, AppendIsConcat
<1>7. WithoutStatus(q \o <<m>>) = WithoutStatus(q) \o WithoutStatus(<<m>>)
  BY <1>3, <1>5, <1>6, DropApart
<1>8. WithoutStatus(<<m>>) = <<m>>
  BY <1>5, NothingToDrop
<1> QED BY <1>2, <1>3, <1>4, <1>6, <1>7, <1>8

(* A message alone.                                                          *)
LEMMA DropLone ==
  ASSUME NEW m \in Messages
  PROVE  /\ <<m>> \in Seq(Messages) /\ OneStatus(<<m>>)
         /\ WithoutStatus(<<m>>) = IF m.isStatus THEN <<>> ELSE <<m>>
         /\ m.isStatus \/ NoStatus(<<m>>)
<1> DEFINE one == <<m>>
<1>1. one \in Seq(Messages) /\ Len(one) = 1 /\ one[1] = m
  OBVIOUS
<1>2. one = <<m>>
  OBVIOUS
<1> HIDE DEF one
<1>3. OneStatus(one) /\ one # <<>> /\ (m.isStatus \/ NoStatus(one))
  <2>1. one # <<>>
    BY <1>1, EmptySeq
  <2> QED BY <1>1, <2>1 DEF OneStatus, NoStatus
<1>4. CASE m.isStatus
  <2>1. WithoutStatus(one) = RemoveAt(one, 1)
    BY <1>1, <1>3, <1>4, DropAt
  <2>2. RemoveAt(one, 1) = Tail(one) /\ Tail(one) \in Seq(Messages) /\ Len(Tail(one)) = 1 - 1
    BY <1>1, <1>3, RemoveHead, HeadTailProperties
  <2>3. WithoutStatus(one) = <<>>
    BY <2>1, <2>2, EmptySeq
  <2> QED BY <1>1, <1>2, <1>3, <1>4, <2>3, Zenon
<1>5. CASE ~m.isStatus
  <2>1. WithoutStatus(one) = one
    BY <1>1, <1>3, <1>5, NothingToDrop
  <2> QED BY <1>1, <1>2, <1>3, <1>5, <2>1, Zenon
<1> QED BY <1>4, <1>5

(* A new snapshot does not touch the responses.                               *)
LEMMA DropNew ==
  ASSUME NEW q \in Seq(Messages), OneStatus(q), NEW m \in Snapshots
  PROVE  WithoutStatus(StatusQueued(q, m)) = WithoutStatus(q)
<1> DEFINE r == StatusQueued(q, m)
<1>1. r \in Seq(Messages) /\ OneStatus(r) /\ Len(q) \in Nat
  BY NewStatus, LenProperties
<1>2. m \in Messages /\ m.isStatus
  BY DEF Messages, Snapshots
<1>3. CASE Statuses(q) # {}
  <2> DEFINE k == First(Statuses(q))
  <2>1. k \in 1..Len(q) /\ q[k].isStatus
    BY <1>3, FirstOf
  <2>2. r = [q EXCEPT ![k] = m]
    BY <1>3 DEF StatusQueued
  <2> HIDE DEF k, r
  <2>3. Len(r) = Len(q) /\ \A j \in 1..Len(q) : r[j] = IF j = k THEN m ELSE q[j]
    BY <1>2, <2>1, <2>2, ExceptSeq
  <2>4. WithoutStatus(q) = RemoveAt(q, k) /\ WithoutStatus(r) = RemoveAt(r, k)
    BY <1>1, <1>2, <2>1, <2>3, DropAt
  <2>5. /\ RemoveAt(q, k) \in Seq(Messages) /\ RemoveAt(r, k) \in Seq(Messages)
        /\ Len(RemoveAt(q, k)) = Len(q) - 1 /\ Len(RemoveAt(r, k)) = Len(q) - 1
        /\ \A i \in 1..(Len(q) - 1) :
             /\ RemoveAt(q, k)[i] = IF i < k THEN q[i] ELSE q[i + 1]
             /\ RemoveAt(r, k)[i] = IF i < k THEN r[i] ELSE r[i + 1]
    BY <1>1, <2>1, <2>3, Removed
  <2>6. ASSUME NEW i \in 1..(Len(q) - 1) PROVE RemoveAt(r, k)[i] = RemoveAt(q, k)[i]
    <3>1. i \in 1..Len(q) /\ i + 1 \in 1..Len(q) /\ (i < k => i # k) /\ (~(i < k) => i + 1 # k)
      BY <1>1, <2>1
    <3> QED BY <2>3, <2>5, <3>1
  <2>7. RemoveAt(r, k) = RemoveAt(q, k)
    BY <2>5, <2>6, SeqEqual
  <2> QED BY <2>4, <2>7 DEF r
<1>4. CASE Statuses(q) = {} /\ Full(q)
  BY <1>4 DEF StatusQueued
<1>5. CASE Statuses(q) = {} /\ ~Full(q)
  <2>1. r = q \o <<m>> /\ <<m>> \in Seq(Messages) /\ Len(<<m>>) = 1 /\ <<m>>[1] = m
    <3>1. r = Append(q, m)
      BY <1>5 DEF StatusQueued
    <3> QED BY <1>2, <3>1, AppendIsConcat
  <2>2. WithoutStatus(q) = q
    BY <1>5 DEF WithoutStatus
  <2>3. WithoutStatus(r) = WithoutStatus(q) \o WithoutStatus(<<m>>)
    BY <1>1, <2>1, DropApart
  <2>4. WithoutStatus(<<m>>) = <<>>
    BY <1>2, DropLone
  <2>5. q \o <<>> = q
    BY ConcatEmptySeq
  <2>6. WithoutStatus(r) = WithoutStatus(q)
    BY <2>2, <2>3, <2>4, <2>5, Zenon
  <2> QED BY <2>6 DEF r
<1> QED BY <1>3, <1>4, <1>5

(* What waits, in the hand and behind it.                                     *)
Hands == {<<>>} \cup {<<m>> : m \in Messages}

LEMMA Parted ==
  ASSUME NEW h \in Hands, NEW q \in Seq(Messages), OneStatus(q),
         h # <<>> => (h[1].isStatus => NoStatus(q))
  PROVE  /\ h \in Seq(Messages) /\ OneStatus(h \o q)
         /\ WithoutStatus(h) \in Seq(Messages) /\ WithoutStatus(q) \in Seq(Messages)
         /\ WithoutStatus(h \o q) = WithoutStatus(h) \o WithoutStatus(q)
<1>1. WithoutStatus(q) \in Seq(Messages)
  <2>1. CASE Statuses(q) = {}
    BY <2>1 DEF WithoutStatus
  <2>2. CASE Statuses(q) # {}
    BY <2>2, FirstOf, Removed DEF WithoutStatus
  <2> QED BY <2>1, <2>2
<1>2. CASE h = <<>>
  <2>1. h \in Seq(Messages) /\ NoStatus(h)
    BY <1>2, EmptySeq DEF NoStatus
  <2>2. WithoutStatus(h) = <<>>
    BY <1>2, <2>1, NothingToDrop
  <2>3. <<>> \o q = q /\ <<>> \o WithoutStatus(q) = WithoutStatus(q)
    BY <1>1, ConcatEmptySeq
  <2>4. h \o q = q /\ WithoutStatus(h) \o WithoutStatus(q) = WithoutStatus(q)
    BY <1>2, <2>2, <2>3, Zenon
  <2>5. WithoutStatus(h) \in Seq(Messages)
    BY <1>2, <2>1, <2>2, Zenon
  <2> QED BY <1>1, <2>1, <2>4, <2>5, Zenon
<1>3. ASSUME NEW m \in Messages, h = <<m>>
      PROVE  /\ h \in Seq(Messages) /\ WithoutStatus(h) \in Seq(Messages)
             /\ OneStatus(h \o q)
  <2>1. <<m>> \in Seq(Messages) /\ OneStatus(<<m>>) /\ <<m>>[1] = m /\ <<m>> # <<>>
        /\ WithoutStatus(<<m>>) = (IF m.isStatus THEN <<>> ELSE <<m>>)
    BY DropLone
  <2>2. h \in Seq(Messages) /\ Len(h) = 1 /\ h[1] = m /\ h # <<>>
    BY <1>3
  <2>3. WithoutStatus(h) \in Seq(Messages)
    BY <1>3, <2>1, EmptySeq
  <2>4. /\ h \o q \in Seq(Messages) /\ Len(h \o q) = 1 + Len(q) /\ Len(q) \in Nat
        /\ \A i \in 1..(1 + Len(q)) : (h \o q)[i] = IF i <= 1 THEN h[i] ELSE q[i - 1]
    <3>1. /\ h \o q \in Seq(Messages) /\ Len(h \o q) = Len(h) + Len(q)
          /\ \A i \in 1..(Len(h) + Len(q)) :
                (h \o q)[i] = IF i <= Len(h) THEN h[i] ELSE q[i - Len(h)]
      BY <2>2, ConcatProperties
    <3> QED BY <2>2, <3>1, LenProperties
  <2> DEFINE hq == h \o q
  <2>5. hq = h \o q
    OBVIOUS
  <2> HIDE DEF hq
  <2>6. ASSUME NEW i \in 1..Len(hq), i # 1
        PROVE  i - 1 \in 1..Len(q) /\ hq[i] = q[i - 1] /\ (m.isStatus => ~q[i - 1].isStatus)
    <3>1. i - 1 \in 1..Len(q) /\ ~(i <= 1) /\ i \in 1..(1 + Len(q))
      BY <2>4, <2>5, <2>6
    <3> QED BY <2>2, <2>4, <2>5, <3>1 DEF NoStatus
  <2>7. hq[1] = m
    BY <2>2, <2>4, <2>5
  <2>8. OneStatus(hq)
    <3> SUFFICES ASSUME NEW i \in 1..Len(hq), NEW j \in 1..Len(hq),
                        hq[i].isStatus, hq[j].isStatus
                 PROVE  i = j
      BY DEF OneStatus
    <3>1. CASE i # 1 /\ j # 1
      <4>1. i - 1 = j - 1
        BY <2>6, <3>1 DEF OneStatus
      <4> QED BY <2>4, <2>5, <4>1
    <3> QED BY <2>6, <2>7, <3>1
  <2> QED BY <2>2, <2>3, <2>5, <2>8, Zenon
<1>4. ASSUME NEW m \in Messages, h = <<m>>
      PROVE  WithoutStatus(h \o q) = WithoutStatus(h) \o WithoutStatus(q)
  BY <1>3, <1>4, DropApart
<1> QED BY <1>1, <1>2, <1>3, <1>4, Zenon DEF Hands

LEMMA WaitingIs ==
  ASSUME IInv
  PROVE  /\ OneStatus(hand \o queue) /\ WithoutStatus(hand \o queue) \in Seq(Messages)
         /\ WithoutStatus(hand) \in Seq(Messages) /\ WithoutStatus(queue) \in Seq(Messages)
         /\ WithoutStatus(hand \o queue) = WithoutStatus(hand) \o WithoutStatus(queue)
<1>1. hand \in Hands /\ queue \in Seq(Messages) /\ OneStatus(queue)
      /\ (hand # <<>> => (hand[1].isStatus => NoStatus(queue)))
  BY DEF IInv, TypeOK, QueueTypeOK, Hands
<1>2. /\ hand \in Seq(Messages) /\ OneStatus(hand \o queue)
      /\ WithoutStatus(hand) \in Seq(Messages) /\ WithoutStatus(queue) \in Seq(Messages)
      /\ WithoutStatus(hand \o queue) = WithoutStatus(hand) \o WithoutStatus(queue)
  BY <1>1, Parted
<1>3. WithoutStatus(hand) \o WithoutStatus(queue) \in Seq(Messages)
  BY <1>2, ConcatProperties
<1> QED BY <1>2, <1>3

(* At most one message above the capacity and one snapshot wait, put-backs      *)
(* included (EnqueuePublishMessage, drainPublishQueue).                       *)
THEOREM QueueBounded == Spec => []Bounded
<1>1. IInv => Bounded
  <2> SUFFICES ASSUME IInv PROVE Bounded
    OBVIOUS
  <2> DEFINE w == hand \o queue
  <2>1. w \in Seq(Messages) /\ OneStatus(w)
    <3>1. hand \in Seq(Messages) /\ queue \in Seq(Messages) /\ OneStatus(hand \o queue)
      BY Known, WaitingIs
    <3> QED BY <3>1, ConcatProperties
  <2> HIDE DEF w
  <2>2. \A i, j \in Statuses(w) : i = j
    BY <2>1, LenProperties DEF Statuses, OneStatus
  <2>3. Statuses(w) = {} \/ \E k : Statuses(w) = {k}
    BY <2>2
  <2>4. Cardinality(Statuses(w)) \in {0, 1}
    BY <2>3, FS_EmptySet, FS_Singleton
  <2> QED BY <2>4 DEF IInv, Bounded, w
<1> QED BY <1>1, Inductive, PTL

-----------------------------------------------------------------------------
(* Each step is one of LossyFifo, or none.                                    *)

Waiting == WithoutStatus(hand \o queue)
Newest  == [isStatus |-> FALSE, stamp |-> stamp + 1]

Same   == UNCHANGED <<Waiting, sent, stamp>>
Leaves == /\ Waiting # <<>> /\ Waiting' = Tail(Waiting)
          /\ sent' = Append(sent, Head(Waiting)) /\ UNCHANGED stamp
Comes  == /\ Newest \in Responses /\ stamp' = stamp + 1 /\ UNCHANGED sent
          /\ \/ Waiting' = Append(Waiting, Newest)
             \/ \E i \in 1..Len(Waiting) :
                  Len(Waiting) >= Capacity /\ Waiting' = Append(RemoveAt(Waiting, i), Newest)

LEMMA SnapshotAside == ASSUME IInv, PublishStatus PROVE Same
<1>1. /\ hand = <<>> /\ hand' = <<>> /\ queue' = StatusQueued(queue, Snapshot(node))
      /\ UNCHANGED <<stamp, sent>>
  BY DEF PublishStatus, EnqueueStatus, observed, IInv
<1>2. Snapshot(node) \in Snapshots /\ queue \in Seq(Messages) /\ OneStatus(queue)
  BY Known, CapacityAssumption DEF Snapshot, Snapshots, IInv
<1>3. WithoutStatus(queue') = WithoutStatus(queue) /\ queue' \in Seq(Messages)
  BY <1>1, <1>2, DropNew, NewStatus
<1>4. <<>> \o queue = queue /\ <<>> \o queue' = queue'
  BY <1>2, <1>3, ConcatEmptySeq
<1>5. Waiting' = Waiting
  BY <1>1, <1>3, <1>4 DEF Waiting
<1> QED BY <1>1, <1>5 DEF Same

LEMMA ResponseComes == ASSUME IInv, EnqueueResponse, UNCHANGED pubVars PROVE Comes
<1> DEFINE m == Newest
           r == MadeRoom(queue)
           A == WithoutStatus(hand)
           B == WithoutStatus(queue)
<1>1. /\ queue' = Append(r, m) /\ stamp' = stamp + 1 /\ stamp < MaxStamp
      /\ UNCHANGED <<hand, sent>>
  BY DEF EnqueueResponse, observed, Newest
<1>2. m \in Responses /\ m \in Messages
  <2>1. stamp + 1 \in 1..MaxStamp
    BY <1>1, CapacityAssumption DEF IInv, TypeOK, QueueTypeOK
  <2> QED BY <2>1 DEF Newest, Responses, Messages
<1>3. /\ queue \in Seq(Messages) /\ OneStatus(queue) /\ Len(queue) \in Nat
      /\ r \in Seq(Messages)
      /\ ~Full(queue) => r = queue
      /\ Full(queue) => NoStatus(r)
  BY Known, RoomMade DEF IInv
<1>4. A \in Seq(Messages) /\ B \in Seq(Messages) /\ Waiting = A \o B
  BY WaitingIs DEF Waiting
<1> HIDE DEF m
<1>5. OneStatus(r)
  BY <1>3 DEF OneStatus, NoStatus
<1>6. IInv'
  BY ResponseKeeps
<1>7. hand \in Hands /\ queue' \in Seq(Messages) /\ OneStatus(queue')
      /\ (hand # <<>> => (hand[1].isStatus => NoStatus(queue')))
  <2>1. hand' \in Hands /\ queue' \in Seq(Messages) /\ OneStatus(queue')
        /\ (hand' # <<>> => (hand'[1].isStatus => NoStatus(queue')))
    BY <1>6 DEF IInv, TypeOK, QueueTypeOK, Hands
  <2> QED BY <1>1, <2>1
<1> DEFINE C == WithoutStatus(r)
<1>8. C \in Seq(Messages) /\ WithoutStatus(queue') = Append(C, m)
  BY <1>1, <1>2, <1>3, <1>5, DropBehind
<1>9. Waiting' = Append(A \o C, m)
  <2>1. WithoutStatus(hand \o queue') = A \o Append(C, m)
    BY <1>7, <1>8, Parted
  <2> HIDE DEF A, C
  <2>2. <<m>> \in Seq(Messages) /\ A \o C \in Seq(Messages)
    BY <1>2, <1>4, <1>8, ConcatProperties
  <2>3. Append(C, m) = C \o <<m>> /\ Append(A \o C, m) = (A \o C) \o <<m>>
    BY <1>2, <1>8, <2>2, AppendIsConcat
  <2>4. (A \o C) \o <<m>> = A \o (C \o <<m>>)
    BY <1>4, <1>8, <2>2, ConcatAssociative
  <2>5. Waiting' = WithoutStatus(hand \o queue')
    BY <1>1 DEF Waiting
  <2> QED BY <2>1, <2>3, <2>4, <2>5, Zenon
<1>10. CASE ~Full(queue)
  <2>1. A \o C = Waiting
    BY <1>3, <1>4, <1>10
  <2> QED BY <1>1, <1>2, <1>9, <2>1 DEF Comes, m
<1>11. CASE Full(queue) /\ Statuses(queue) # {}
  <2>1. r = B
    BY <1>11 DEF MadeRoom, WithoutStatus
  <2>2. C = r
    BY <1>3, <1>11, NothingToDrop
  <2>3. A \o C = Waiting
    BY <1>4, <2>1, <2>2
  <2> QED BY <1>1, <1>2, <1>9, <2>3 DEF Comes, m
<1>12. CASE Full(queue) /\ Statuses(queue) = {}
  <2>1. queue # <<>>
    BY <1>12, CapacityAssumption, EmptySeq DEF Full
  <2>2. B = queue /\ r = Tail(queue) /\ C = r
    BY <1>3, <1>12, NothingToDrop DEF MadeRoom, WithoutStatus
  <2>3. RemoveAt(queue, 1) = Tail(queue) /\ 1 \in 1..Len(queue)
    BY <1>3, <2>1, RemoveHead, EmptySeq
  <2>4. RemoveAt(A \o queue, Len(A) + 1) = A \o RemoveAt(queue, 1)
    BY <1>3, <1>4, <2>3, RemoveRight
  <2>5. Waiting = A \o queue /\ Waiting' = Append(RemoveAt(A \o queue, Len(A) + 1), m)
    BY <1>4, <1>9, <2>2, <2>3, <2>4
  <2>6. Len(Waiting) = Len(A) + Len(queue) /\ Len(A) \in Nat
    BY <1>3, <1>4, <2>5, ConcatProperties, LenProperties
  <2> HIDE DEF A
  <2>7. Len(A) + 1 \in 1..Len(Waiting) /\ Len(Waiting) >= Capacity
    BY <1>3, <1>12, <2>3, <2>6, CapacityAssumption DEF Full
  <2>8. Waiting' = Append(RemoveAt(Waiting, Len(A) + 1), m)
    BY <2>5, Zenon
  <2> QED BY <1>1, <1>2, <2>7, <2>8 DEF Comes, m
<1> QED BY <1>10, <1>11, <1>12

LEMMA PopAside == ASSUME IInv, PopFront PROVE Same
<1>1. /\ hand = <<>> /\ queue # <<>> /\ hand' = <<Head(queue)>> /\ queue' = Tail(queue)
      /\ UNCHANGED <<stamp, sent>> /\ queue \in Seq(Messages)
  BY Known DEF PopFront, observed
<1>2. Len(queue) \in Nat \ {0} /\ Head(queue) = queue[1] /\ Tail(queue) = SubSeq(queue, 2, Len(queue))
  BY <1>1, EmptySeq, TailIsSubSeq
<1>3. SubSeq(queue, 1, Len(queue)) = <<queue[1]>> \o SubSeq(queue, 1 + 1, Len(queue))
      /\ SubSeq(queue, 1, Len(queue)) = queue
  BY <1>1, <1>2, SubSeqRecursiveFirst, SubSeqFull
<1>4. hand' \o queue' = queue /\ hand \o queue = queue
  <2>1. <<>> \o queue = queue /\ 1 + 1 = 2
    BY <1>1, ConcatEmptySeq
  <2> QED BY <1>1, <1>2, <1>3, <2>1, Zenon
<1>5. Waiting' = Waiting
  BY <1>4 DEF Waiting
<1> QED BY <1>1, <1>5 DEF Same

LEMMA PublishedLeaves == ASSUME IInv, Published PROVE Same \/ Leaves
<1>1. /\ hand # <<>> /\ hand' = <<>> /\ queue' = queue /\ stamp' = stamp
      /\ IF Statuses(hand) # {} THEN sent' = sent ELSE sent' = sent \o hand
  BY DEF Published
<1>2. /\ hand[1] \in Messages /\ hand = <<hand[1]>> /\ queue \in Seq(Messages)
      /\ (Statuses(hand) # {} <=> hand[1].isStatus)
  BY <1>1, Known
<1> DEFINE B == WithoutStatus(queue)
<1>3. B \in Seq(Messages) /\ Waiting = WithoutStatus(hand) \o B
  BY WaitingIs DEF Waiting
<1>4. WithoutStatus(hand) = IF hand[1].isStatus THEN <<>> ELSE hand
  <2> DEFINE m == hand[1]
  <2>1. m \in Messages /\ hand = <<m>>
    BY <1>2
  <2> HIDE DEF m
  <2>2. WithoutStatus(<<m>>) = IF m.isStatus THEN <<>> ELSE <<m>>
    BY <2>1, DropLone
  <2>3. WithoutStatus(hand) = IF m.isStatus THEN <<>> ELSE hand
    BY <2>1, <2>2, Zenon
  <2> QED BY <2>3 DEF m
<1>5. Waiting' = B
  <2>1. <<>> \o queue = queue
    BY <1>2, ConcatEmptySeq
  <2> QED BY <1>1, <2>1 DEF Waiting
<1>6. CASE hand[1].isStatus
  <2>1. <<>> \o B = B
    BY <1>3, ConcatEmptySeq
  <2>2. Waiting = B
    BY <1>3, <1>4, <1>6, <2>1, Zenon
  <2> QED BY <1>1, <1>2, <1>5, <1>6, <2>2 DEF Same
<1>7. CASE ~hand[1].isStatus
  <2> DEFINE m == hand[1]
  <2>1. m \in Messages /\ m \in Responses /\ hand = <<m>>
    BY <1>2, <1>7, MessageFields
  <2> HIDE DEF m, B
  <2>2. Waiting = <<m>> \o B /\ sent' = sent \o <<m>>
    <3>1. WithoutStatus(hand) = hand /\ sent' = sent \o hand
      BY <1>1, <1>2, <1>4, <1>7
    <3> QED BY <1>3, <2>1, <3>1, Zenon
  <2>3. sent' = Append(sent, m)
    <3>1. sent \in Seq(Responses)
      BY DEF IInv, TypeOK, QueueTypeOK
    <3> QED BY <2>1, <2>2, <3>1, AppendIsConcat
  <2>4. Waiting # <<>> /\ Head(Waiting) = m /\ Tail(Waiting) = B
    <3> DEFINE one == <<m>>
               w == one \o B
    <3>1. one \in Seq(Messages) /\ Len(one) = 1 /\ one[1] = m /\ Len(B) \in Nat
      BY <1>3, <2>1, LenProperties
    <3> HIDE DEF one
    <3>2. /\ w \in Seq(Messages) /\ Len(w) = Len(one) + Len(B)
          /\ \A i \in 1..(Len(one) + Len(B)) : w[i] = IF i <= Len(one) THEN one[i] ELSE B[i - Len(one)]
      BY <1>3, <3>1, ConcatProperties
    <3> HIDE DEF w
    <3>3. w # <<>> /\ Head(w) = m
      BY <3>1, <3>2, EmptySeq
    <3>4. /\ Tail(w) \in Seq(Messages) /\ Len(Tail(w)) = Len(w) - 1
          /\ \A i \in 1..Len(Tail(w)) : Tail(w)[i] = w[i + 1]
      BY <3>2, <3>3, HeadTailProperties
    <3>5. ASSUME NEW i \in 1..Len(Tail(w)) PROVE Tail(w)[i] = B[i]
      <4>1. i + 1 \in 1..(1 + Len(B)) /\ ~(i + 1 <= 1) /\ (i + 1) - 1 = i
        BY <3>1, <3>2, <3>4
      <4> QED BY <3>1, <3>2, <3>4, <4>1
    <3>6. Len(Tail(w)) = Len(B)
      BY <3>1, <3>2, <3>4
    <3>7. Tail(w) = B
      BY <1>3, <3>4, <3>5, <3>6, SeqEqual
    <3>8. Waiting = w
      BY <2>2, Zenon DEF w, one
    <3> QED BY <3>3, <3>7, <3>8, Zenon
  <2> QED BY <1>1, <1>5, <2>3, <2>4 DEF Leaves
<1> QED BY <1>6, <1>7

LEMMA RefusedAside == ASSUME IInv, Refused PROVE Same
<1>1. /\ hand' = <<>> /\ queue' = hand \o queue /\ UNCHANGED <<stamp, sent>>
  BY DEF Refused, observed
<1>2. hand \o queue \in Seq(Messages)
  BY Known, ConcatProperties
<1>3. <<>> \o (hand \o queue) = hand \o queue
  BY <1>2, ConcatEmptySeq
<1>4. Waiting' = Waiting
  BY <1>1, <1>3 DEF Waiting
<1> QED BY <1>1, <1>4 DEF Same

LEMMA StepIs == ASSUME IInv, [Next]_vars PROVE Same \/ Leaves \/ Comes
<1>1. CASE PublishStatus
  BY <1>1, SnapshotAside
<1>2. CASE Queue
  <2>1. UNCHANGED pubVars
    BY <1>2 DEF Queue
  <2>2. CASE BeginDrain \/ EndDrain
    BY <2>2 DEF BeginDrain, EndDrain, Same, Waiting, observed
  <2> QED BY <1>2, <2>1, <2>2, ResponseComes, PopAside, PublishedLeaves, RefusedAside DEF Queue, Drain
<1>3. CASE StatusChanges \/ SayReady \/ Elapse \/ Connects \/ UNCHANGED vars
  <2>1. UNCHANGED <<queue, hand, stamp, sent>>
    BY <1>3 DEF StatusChanges, SayReady, Elapse, Connects, Connection, vars, qVars, observed
  <2> QED BY <2>1 DEF Same, Waiting
<1> QED BY <1>1, <1>2, <1>3 DEF Next

(* Every number in use has been given out: a new response is new.              *)
Numbered ==
  /\ \A i \in 1..Len(Waiting) : Waiting[i].stamp <= stamp
  /\ \A i \in 1..Len(sent) : sent[i].stamp <= stamp

LEMMA InitNumbered == Init => Numbered /\ Waiting = <<>>
<1> SUFFICES ASSUME Init PROVE Numbered /\ Waiting = <<>>
  OBVIOUS
<1>1. hand \o queue = <<>>
  BY DEF Init, QueueInit
<1>2. Waiting = <<>>
  <2>1. NoStatus(<<>>) /\ <<>> \in Seq(Messages)
    BY EmptySeq DEF NoStatus
  <2>2. WithoutStatus(<<>>) = <<>>
    BY <2>1, NothingToDrop
  <2> QED BY <1>1, <2>2, Zenon DEF Waiting
<1> QED BY <1>2 DEF Numbered, Init, QueueInit

LEMMA NextNumbered == ASSUME IInv, IInv', Numbered, Same \/ Leaves \/ Comes PROVE Numbered'
<1>1. /\ Waiting \in Seq(Messages) /\ sent \in Seq(Responses) /\ stamp \in Nat
      /\ Len(Waiting) \in Nat /\ Len(sent) \in Nat
  BY WaitingIs, LenProperties, CapacityAssumption DEF Waiting, IInv, TypeOK, QueueTypeOK
<1>2. /\ \A i \in 1..Len(Waiting) : Waiting[i] \in Messages /\ Waiting[i].stamp \in Nat
      /\ \A i \in 1..Len(sent) : sent[i] \in Responses /\ sent[i].stamp \in Nat
  <2>1. \A m \in Messages : m.stamp \in Nat
    <3>1. \A m \in Responses : m.stamp \in Nat
      BY CapacityAssumption DEF Responses
    <3>2. \A m \in Snapshots : m.stamp \in Nat
      BY CapacityAssumption DEF Snapshots
    <3> QED BY <3>1, <3>2 DEF Messages
  <2>2. Responses \subseteq Messages
    BY DEF Messages
  <2> QED BY <1>1, <2>1, <2>2, ElementOfSeq
<1>3. CASE Same
  BY <1>3 DEF Same, Numbered
<1>4. CASE Leaves
  <2>1. /\ Len(Tail(Waiting)) = Len(Waiting) - 1 /\ Waiting # <<>>
        /\ \A i \in 1..Len(Tail(Waiting)) : Tail(Waiting)[i] = Waiting[i + 1]
        /\ Head(Waiting) = Waiting[1] /\ Len(Waiting) \in Nat \ {0}
    BY <1>1, <1>4, HeadTailProperties, EmptySeq DEF Leaves
  <2>2. /\ Len(sent') = Len(sent) + 1 /\ sent'[Len(sent) + 1] = Waiting[1]
        /\ \A i \in 1..Len(sent) : sent'[i] = sent[i]
    <3>1. Waiting[1] \in Messages /\ Responses \subseteq Messages
      BY <1>2, <2>1 DEF Messages
    <3>2. sent \in Seq(Messages)
      BY <1>1, <3>1, SeqMonotonic
    <3>3. sent' = Append(sent, Waiting[1])
      BY <1>4, <2>1 DEF Leaves
    <3> QED BY <3>1, <3>2, <3>3, AppendProperties
  <2>3. \A i \in 1..Len(Waiting') : Waiting'[i].stamp <= stamp
    <3>1. \A i \in 1..Len(Tail(Waiting)) : i + 1 \in 1..Len(Waiting)
      BY <1>1, <2>1
    <3>2. Waiting' = Tail(Waiting)
      BY <1>4 DEF Leaves
    <3> QED BY <2>1, <3>1, <3>2, Zenon DEF Numbered
  <2>4. \A i \in 1..Len(sent') : sent'[i].stamp <= stamp
    <3>1. 1 \in 1..Len(Waiting) /\ \A i \in 1..Len(sent') : i \in 1..Len(sent) \/ i = Len(sent) + 1
      BY <1>1, <2>1, <2>2
    <3> QED BY <2>2, <3>1 DEF Numbered
  <2> QED BY <1>4, <2>3, <2>4 DEF Numbered, Leaves
<1>5. CASE Comes
  <2>1. /\ Newest \in Responses /\ Newest \in Messages /\ Newest.stamp = stamp + 1
        /\ stamp' = stamp + 1 /\ sent' = sent
    BY <1>5 DEF Comes, Newest, Messages
  <2>2. PICK q \in Seq(Messages) :
          /\ Waiting' = Append(q, Newest) /\ Len(q) \in Nat
          /\ \A i \in 1..Len(q) : \E j \in 1..Len(Waiting) : q[i] = Waiting[j]
    <3>1. CASE Waiting' = Append(Waiting, Newest)
      BY <1>1, <3>1
    <3>2. ASSUME NEW k \in 1..Len(Waiting), Waiting' = Append(RemoveAt(Waiting, k), Newest)
          PROVE  \E q \in Seq(Messages) :
                   /\ Waiting' = Append(q, Newest) /\ Len(q) \in Nat
                   /\ \A i \in 1..Len(q) : \E j \in 1..Len(Waiting) : q[i] = Waiting[j]
      <4> DEFINE q == RemoveAt(Waiting, k)
      <4>1. /\ q \in Seq(Messages) /\ Len(q) = Len(Waiting) - 1
            /\ \A i \in 1..(Len(Waiting) - 1) : q[i] = IF i < k THEN Waiting[i] ELSE Waiting[i + 1]
        BY <1>1, Removed
      <4> HIDE DEF q
      <4>2. ASSUME NEW i \in 1..Len(q) PROVE \E j \in 1..Len(Waiting) : q[i] = Waiting[j]
        <5>1. i \in 1..(Len(Waiting) - 1) /\ i \in 1..Len(Waiting) /\ i + 1 \in 1..Len(Waiting)
          BY <1>1, <4>1
        <5> QED BY <4>1, <5>1
      <4>3. Len(q) \in Nat
        BY <4>1, LenProperties
      <4> QED BY <3>2, <4>1, <4>2, <4>3 DEF q
    <3> QED BY <1>5, <3>1, <3>2 DEF Comes
  <2>3. /\ Len(Waiting') = Len(q) + 1 /\ Waiting'[Len(q) + 1] = Newest
        /\ \A i \in 1..Len(q) : Waiting'[i] = q[i]
    BY <2>1, <2>2, AppendProperties
  <2>4. ASSUME NEW i \in 1..Len(Waiting') PROVE Waiting'[i].stamp <= stamp + 1
    <3>1. CASE i = Len(q) + 1
      BY <1>1, <2>1, <2>3, <3>1
    <3>2. CASE i # Len(q) + 1
      <4>1. i \in 1..Len(q)
        BY <2>2, <2>3, <3>2
      <4>2. PICK j \in 1..Len(Waiting) : Waiting'[i] = Waiting[j]
        BY <2>2, <2>3, <4>1
      <4> QED BY <1>1, <1>2, <4>2 DEF Numbered
    <3> QED BY <3>1, <3>2
  <2>5. \A i \in 1..Len(sent') : sent'[i].stamp <= stamp + 1
    BY <1>1, <1>2, <2>1 DEF Numbered
  <2> QED BY <2>1, <2>4, <2>5 DEF Numbered
<1> QED BY <1>3, <1>4, <1>5

LEMMA StepRefines ==
  ASSUME IInv, Numbered, Same \/ Leaves \/ Comes
  PROVE  [Channel!Next]_<<Waiting, sent>>
<1>1. CASE Same
  BY <1>1 DEF Same
<1>2. CASE Leaves
  BY <1>2 DEF Leaves, Channel!Next, Channel!Publish, Waiting
<1>3. CASE Comes
  <2>1. Newest \notin ToSet(Waiting) \cup ToSet(sent)
    <3>1. Waiting \in Seq(Messages) /\ sent \in Seq(Responses) /\ stamp \in Nat
      BY WaitingIs, CapacityAssumption DEF Waiting, IInv, TypeOK, QueueTypeOK
    <3>2. DOMAIN Waiting = 1..Len(Waiting) /\ DOMAIN sent = 1..Len(sent)
      BY <3>1, LenProperties
    <3>3. Newest.stamp = stamp + 1 /\ ~(stamp + 1 <= stamp)
      BY <3>1 DEF Newest
    <3> QED BY <3>2, <3>3 DEF Numbered, ToSet
  <2>2. Len(Waiting) \in Nat
    BY WaitingIs, LenProperties DEF Waiting
  <2>3. \E i \in 0..Len(Waiting) :
          /\ i # 0 => Len(Waiting) >= Capacity
          /\ Waiting' = Append(IF i = 0 THEN Waiting ELSE RemoveAt(Waiting, i), Newest)
    <3>1. CASE Waiting' = Append(Waiting, Newest)
      <4>1. 0 \in 0..Len(Waiting)
        BY <2>2
      <4> QED BY <3>1, <4>1
    <3>2. ASSUME NEW i \in 1..Len(Waiting), Len(Waiting) >= Capacity,
                 Waiting' = Append(RemoveAt(Waiting, i), Newest)
          PROVE  \E j \in 0..Len(Waiting) :
                   /\ j # 0 => Len(Waiting) >= Capacity
                   /\ Waiting' = Append(IF j = 0 THEN Waiting ELSE RemoveAt(Waiting, j), Newest)
      <4>1. i \in 0..Len(Waiting) /\ i # 0
        BY <2>2
      <4> QED BY <3>2, <4>1
    <3> QED BY <1>3, <3>1, <3>2 DEF Comes
  <2>4. Newest \in Responses /\ sent' = sent
    BY <1>3 DEF Comes
  <2>5. Channel!Submit(Newest)
    <3>1. /\ \A q : Channel!ToSet(q) = ToSet(q)
          /\ \A q, i : Channel!RemoveAt(q, i) = RemoveAt(q, i)
      BY DEF Channel!ToSet, ToSet, Channel!RemoveAt, RemoveAt
    <3> QED BY <2>1, <2>3, <2>4, <3>1 DEF Channel!Submit, Channel!Without, Waiting
  <2> QED BY <2>4, <2>5 DEF Channel!Next
<1> QED BY <1>1, <1>2, <1>3

(* Responses leave in order, each once, and one is given up only for a newer    *)
(* one when Capacity of them wait, whatever snapshots, refusals and lost       *)
(* connections come between: queue and hand implement LossyFifo               *)
(* (EnqueuePublishMessage, drainPublishQueue).                                *)
THEOREM ResponsesImplementFifo == Spec => ResponsesAreLossyFifo
<1>1. Init => Channel!Init
  BY InitNumbered DEF Channel!Init, Waiting, Init, QueueInit
<1>2. IInv /\ Numbered /\ [Next]_vars => IInv' /\ Numbered' /\ [Channel!Next]_<<Waiting, sent>>
  BY NextIInv, StepIs, NextNumbered, StepRefines
<1>3. Init => IInv /\ Numbered
  BY InitIInv, InitNumbered
<1> QED BY <1>1, <1>2, <1>3, PTL DEF Spec, ResponsesAreLossyFifo, Channel!Spec, Waiting
=============================================================================

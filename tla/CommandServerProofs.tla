------------------------- MODULE CommandServerProofs -------------------------
(***************************************************************************)
(* Theorems about CommandServer, for any commands, kinds and capacities.    *)
(* That each execution is answered once, and none is repeated too soon,      *)
(* holds whatever a stream makes of the events it hears.  What Hearing       *)
(* yields, and where the events of the command in hand are parked, is used   *)
(* for the rest: duplicates are not met with silence, and no motion is       *)
(* completed while it goes on.                                              *)
(***************************************************************************)
EXTENDS CommandServer, SequenceTheorems, WellFoundedInduction, TLAPS

-----------------------------------------------------------------------------
(* The inductive invariant.                                                 *)

(* How often each command was executed and answered.                        *)
CountTypes ==
  /\ taken \in [Commands -> Nat] /\ answered \in [Commands -> Nat]
  /\ DOMAIN stream = Commands /\ pending \subseteq Commands

(* A stream is bound only while it is open; that of the command in hand is   *)
(* open and not bound yet, so no event can close it.                         *)
StreamInv ==
  /\ \A c \in Commands : stream[c].bound => stream[c].open
  /\ task # Nobody => /\ "cmd" \in DOMAIN task /\ task.cmd \in Commands
                      /\ stream[task.cmd].open /\ ~stream[task.cmd].bound

CountInv == CountTypes /\ StreamInv /\ OneAnswer

(* The last answers are remembered: that of a command after which k others    *)
(* were given stands k places before the end, unless k reaches CacheSize.     *)
MemoryTypes ==
  /\ since \in [Commands -> Nat] /\ Len(recent) <= CacheSize
  /\ \E S : recent \in Seq(S)

RememberedInv ==
  \A c \in Commands :
    answered[c] > 0 /\ since[c] < CacheSize =>
      since[c] < Len(recent) /\ recent[Len(recent) - since[c]].cmd = c

MemoryInv == MemoryTypes /\ RememberedInv

IInv == CountInv /\ MemoryInv

-----------------------------------------------------------------------------
(* Lemmas.                                                                  *)

(* An answer is appended, and pushes out the oldest when the cache is full.  *)
LEMMA Remembers ==
  ASSUME MemoryTypes, NEW entry
  PROVE  LET R == Remembered(entry) IN
         /\ Len(R) <= CacheSize /\ \E S : R \in Seq(S)
         /\ Len(R) > 0 /\ R[Len(R)] = entry
         /\ \A k \in Nat : k < Len(recent) /\ k + 1 < CacheSize =>
              k + 1 < Len(R) /\ R[Len(R) - (k + 1)] = recent[Len(recent) - k]
<1> DEFINE R == Remembered(entry)
<1>1. PICK T : recent \in Seq(T)
  BY DEF MemoryTypes
<1> DEFINE S == T \cup {entry}
<1>2. recent \in Seq(S) /\ entry \in S /\ Len(recent) <= CacheSize
  <2>1. recent \in Seq(S)
    BY <1>1, SMT
  <2> QED
    BY <2>1 DEF MemoryTypes
<1>3. CacheSize \in Nat \ {0} /\ Len(recent) \in Nat
  BY <1>1, ServerAssumption
<1> HIDE DEF S
<1>4. CASE Len(recent) < CacheSize
  <2>1. R = Append(recent, entry)
    BY <1>4 DEF Remembered
  <2> QED
    BY <1>2, <1>3, <1>4, <2>1
<1>5. CASE ~(Len(recent) < CacheSize)
  <2>1. R = Append(Tail(recent), entry) /\ Len(recent) = CacheSize
    BY <1>2, <1>3, <1>5 DEF Remembered
  <2>2. /\ Tail(recent) \in Seq(S) /\ Len(Tail(recent)) = CacheSize - 1
        /\ \A i \in 1..(CacheSize - 1) : Tail(recent)[i] = recent[i + 1]
    BY <1>2, <1>3, <2>1
  <2>3. /\ R \in Seq(S) /\ Len(R) = CacheSize /\ R[CacheSize] = entry
        /\ \A i \in 1..(CacheSize - 1) : R[i] = recent[i + 1]
    BY <1>2, <1>3, <2>1, <2>2
  <2>4. ASSUME NEW k \in Nat, k + 1 < CacheSize
        PROVE  R[Len(R) - (k + 1)] = recent[Len(recent) - k]
    <3>1. Len(R) - (k + 1) \in 1..(CacheSize - 1)
      BY <1>3, <2>3, <2>4
    <3>2. Len(R) - (k + 1) + 1 = Len(recent) - k
      BY <1>3, <2>1, <2>3
    <3> QED
      BY <2>3, <3>1, <3>2
  <2> QED
    BY <1>3, <2>1, <2>3, <2>4
<1> QED
  BY <1>4, <1>5

(* One more answer, or none, keeps the memory.                              *)
LEMMA RecordKeeps ==
  ASSUME MemoryInv, CountTypes, NEW entry, entry.cmd \in Commands, Record(entry)
  PROVE  MemoryInv'
<1>1. /\ MemoryTypes /\ recent' = Remembered(entry)
      /\ answered' = [answered EXCEPT ![entry.cmd] = @ + 1]
      /\ since' = [c \in Commands |-> IF c = entry.cmd THEN 0
                                      ELSE IF since[c] < CacheSize THEN since[c] + 1
                                      ELSE since[c]]
  BY DEF Record, MemoryInv
<1>2. /\ Len(recent') <= CacheSize /\ \E S : recent' \in Seq(S)
      /\ Len(recent') > 0 /\ recent'[Len(recent')] = entry
      /\ \A k \in Nat : k < Len(recent) /\ k + 1 < CacheSize =>
           k + 1 < Len(recent') /\ recent'[Len(recent') - (k + 1)] = recent[Len(recent) - k]
  BY <1>1, Remembers
<1>3. MemoryTypes'
  <2>1. \A c \in Commands : since[c] \in Nat
    BY <1>1 DEF MemoryTypes
  <2>2. since' \in [Commands -> Nat]
    BY <1>1, <2>1
  <2> QED
    BY <1>2, <2>2 DEF MemoryTypes
<1>4. ASSUME NEW c \in Commands, answered'[c] > 0, since'[c] < CacheSize
      PROVE  since'[c] < Len(recent') /\ recent'[Len(recent') - since'[c]].cmd = c
  <2>1. PICK S : recent' \in Seq(S)
    BY <1>2
  <2>2. CASE c = entry.cmd
    BY <1>1, <1>2, <2>1, <2>2
  <2>3. CASE c # entry.cmd
    <3>1. answered'[c] = answered[c] /\ since[c] \in Nat /\ CacheSize \in Nat
      BY <1>1, <2>3, ServerAssumption DEF CountTypes, MemoryTypes
    <3>2. since'[c] = since[c] + 1 /\ since[c] < CacheSize
      BY <1>1, <1>4, <2>3, <3>1
    <3>3. since[c] < Len(recent) /\ recent[Len(recent) - since[c]].cmd = c
      BY <1>4, <3>1, <3>2 DEF MemoryInv, RememberedInv
    <3> QED
      BY <1>2, <1>4, <3>1, <3>2, <3>3
  <2> QED
    BY <2>2, <2>3
<1> QED
  BY <1>3, <1>4 DEF MemoryInv, RememberedInv

LEMMA NoRecordKeeps == ASSUME MemoryInv, NoRecord PROVE MemoryInv'
BY DEF MemoryInv, MemoryTypes, RememberedInv, NoRecord

(* What a step does to the counts and the memory of the command c it answers. *)
Counted(c) ==
  /\ answered' = [answered EXCEPT ![c] = @ + 1]
  /\ MemoryInv'
Uncounted == answered' = answered /\ MemoryInv'

LEMMA RecordCounts ==
  ASSUME IInv, NEW entry, entry.cmd \in Commands, Record(entry)
  PROVE  Counted(entry.cmd)
<1>1. MemoryInv'
  BY RecordKeeps DEF IInv, CountInv
<1> QED
  BY <1>1 DEF Record, Counted

LEMMA NoRecordCounts == ASSUME IInv, NoRecord PROVE Uncounted
BY NoRecordKeeps DEF IInv, NoRecord, Uncounted

(* The command in hand stays the same.                                      *)
SameTask == "cmd" \in DOMAIN task' /\ task'.cmd = task.cmd

(* A stream that hears events stays open, or is erased with its answer.      *)
LEMMA StreamHears ==
  ASSUME IInv, NEW c \in Commands, NEW h, StreamAfter(c, h)
  PROVE  \/ stream' = [stream EXCEPT ![c] = Closed] /\ Counted(c)
         \/ stream' = [stream EXCEPT ![c] = Bound(h)] /\ Uncounted
<1>1. CASE h.answers # <<>>
  <2> DEFINE entry == [cmd |-> c, ack |-> h.answers[1].ack, answer |-> h.answers[1].answer]
  <2>1. Record(entry) /\ entry.cmd = c /\ stream' = [stream EXCEPT ![c] = Closed]
    BY <1>1 DEF StreamAfter, EraseStream
  <2> HIDE DEF entry
  <2> QED
    BY <2>1, RecordCounts
<1>2. CASE h.answers = <<>>
  BY <1>2, NoRecordCounts DEF StreamAfter
<1> QED
  BY <1>1, <1>2

(* An open stream may be closed with an answer, or stay open.                *)
LEMMA CloseOrStay ==
  ASSUME IInv, NEW c \in Commands, stream[c].open, pending' = pending, taken' = taken,
         NEW h,
         \/ stream' = [stream EXCEPT ![c] = Closed] /\ Counted(c)
         \/ stream' = [stream EXCEPT ![c] = Bound(h)] /\ Uncounted,
         \/ task' = Nobody
         \/ task # Nobody /\ SameTask /\ task.cmd # c
  PROVE  IInv'
<1>1. CountTypes /\ StreamInv /\ OneAnswer
  BY DEF IInv, CountInv
<1>2. c \notin pending /\ taken[c] = answered[c] + 1
  BY <1>1 DEF OneAnswer, Unanswered
<1>3. /\ ~Closed.open /\ ~Closed.bound /\ Bound(h).open
      /\ DOMAIN stream = Commands
  BY <1>1 DEF Closed, Bound, CountTypes
<1>4. /\ \A d \in Commands : d # c => stream'[d] = stream[d] /\ answered'[d] = answered[d]
      /\ DOMAIN stream' = Commands /\ answered' \in [Commands -> Nat] /\ MemoryInv'
      /\ \/ ~stream'[c].open /\ ~stream'[c].bound /\ answered'[c] = answered[c] + 1
         \/ stream'[c].open /\ answered'[c] = answered[c]
  <2> HIDE DEF Closed, Bound
  <2>1. CASE stream' = [stream EXCEPT ![c] = Closed] /\ Counted(c)
    BY <1>1, <1>3, <2>1 DEF Counted, CountTypes
  <2>2. CASE stream' = [stream EXCEPT ![c] = Bound(h)] /\ Uncounted
    BY <1>1, <1>3, <2>2 DEF Uncounted, CountTypes
  <2> QED
    BY <2>1, <2>2
<1>5. CountTypes'
  BY <1>1, <1>4 DEF CountTypes
<1>6. StreamInv'
  BY <1>1, <1>4 DEF StreamInv, SameTask
<1>7. OneAnswer'
  <2> SUFFICES ASSUME NEW d \in Commands
               PROVE  /\ taken'[d] = answered'[d] + (IF Unanswered(d)' THEN 1 ELSE 0)
                      /\ ~(stream'[d].open /\ d \in pending')
    BY DEF OneAnswer
  <2>1. CASE d = c
    BY <1>1, <1>2, <1>4, <2>1 DEF Unanswered, CountTypes
  <2>2. CASE d # c
    BY <1>1, <1>4, <2>2 DEF Unanswered, OneAnswer
  <2> QED
    BY <2>1, <2>2
<1> QED
  BY <1>4, <1>5, <1>6, <1>7 DEF IInv, CountInv

(* An event reaches the bound stream of its id, which is another one than     *)
(* that of the command in hand, or is parked.                                *)
LEMMA ArrivesInv ==
  ASSUME IInv, NEW m, NEW events, Arrives(m, events),
         \/ task' = task
         \/ task # Nobody /\ SameTask
  PROVE  IInv'
<1>1. pending' = pending /\ taken' = taken /\ CountTypes /\ StreamInv
  BY DEF Arrives, IInv, CountInv
<1>2. ASSUME NEW c \in Listening(m), StreamAfter(c, Hearing(c, events))
      PROVE  IInv'
  <2>1. c \in Commands /\ stream[c].bound /\ stream[c].open
    BY <1>1, <1>2 DEF Listening, StreamInv
  <2>2. PICK h : h = Hearing(c, events)
    OBVIOUS
  <2>3. \/ stream' = [stream EXCEPT ![c] = Closed] /\ Counted(c)
        \/ stream' = [stream EXCEPT ![c] = Bound(h)] /\ Uncounted
    BY <1>2, <2>1, <2>2, StreamHears
  <2>4. \/ task' = Nobody
        \/ task # Nobody /\ SameTask /\ task.cmd # c
    BY <1>1, <2>1 DEF StreamInv, SameTask
  <2> QED
    BY <1>1, <2>1, <2>3, <2>4, CloseOrStay
<1>3. CASE NoRecord /\ UNCHANGED stream
  <2>1. Uncounted
    BY <1>3, NoRecordCounts
  <2> QED
    BY <1>1, <1>3, <2>1
    DEF IInv, CountInv, CountTypes, StreamInv, OneAnswer, Unanswered, Uncounted, SameTask
<1> QED
  BY <1>2, <1>3 DEF Arrives

-----------------------------------------------------------------------------
(* The steps.                                                               *)

LEMMA InitInv == ServerInit => IInv
<1> SUFFICES ASSUME ServerInit PROVE IInv
  OBVIOUS
<1>1. CountInv
  BY DEF ServerInit, CountInv, CountTypes, StreamInv, OneAnswer, Unanswered, Closed
<1>2. recent \in Seq({}) /\ Len(recent) = 0 /\ CacheSize \in Nat
  BY ServerAssumption DEF ServerInit
<1>3. MemoryInv
  BY <1>2 DEF ServerInit, MemoryInv, MemoryTypes, RememberedInv
<1> QED
  BY <1>1, <1>3 DEF IInv

(* A command that is not remembered has had every answer it is due.          *)
LEMMA FreshCommand ==
  ASSUME IInv, NEW c \in Commands, ~IsDuplicate(c)
  PROVE  /\ ~stream[c].open /\ c \notin pending /\ taken[c] = answered[c]
         /\ answered[c] > 0 => since[c] >= CacheSize
<1>1. /\ ~stream[c].open /\ c \notin pending /\ Cached(c) = {}
  BY DEF IsDuplicate
<1>2. taken[c] = answered[c]
  BY <1>1 DEF IInv, CountInv, CountTypes, OneAnswer, Unanswered
<1>3. ASSUME answered[c] > 0, since[c] < CacheSize PROVE FALSE
  <2>1. PICK S : recent \in Seq(S)
    BY DEF IInv, MemoryInv, MemoryTypes
  <2>2. since[c] \in Nat /\ since[c] < Len(recent)
        /\ recent[Len(recent) - since[c]].cmd = c
    BY <1>3 DEF IInv, MemoryInv, MemoryTypes, RememberedInv
  <2>3. Len(recent) - since[c] \in DOMAIN recent
    BY <2>1, <2>2
  <2> QED
    BY <1>1, <2>2, <2>3 DEF Cached
<1>4. since[c] \in Nat /\ CacheSize \in Nat
  BY ServerAssumption DEF IInv, MemoryInv, MemoryTypes
<1> QED
  BY <1>1, <1>2, <1>3, <1>4

LEMMA DeliverInv ==
  ASSUME IInv, NEW c \in Commands, Deliver(c)
  PROVE  IInv'
<1>1. /\ task = Nobody /\ ~stream[c].open /\ c \notin pending /\ taken[c] = answered[c]
      /\ taken' = [taken EXCEPT ![c] = @ + 1] /\ pending' = pending
  BY FreshCommand DEF Deliver
<1>2. CountTypes /\ StreamInv /\ OneAnswer
  BY DEF IInv, CountInv
<1>3. CASE \E type \in {"done", "error"} : AnswerLocally(c, type)
  <2>1. PICK type \in {"done", "error"} : AnswerLocally(c, type)
    BY <1>3
  <2> DEFINE entry == [cmd |-> c, ack |-> FALSE,
                       answer |-> Message(c, type, type = "error")]
  <2>2. Record(entry) /\ entry.cmd = c /\ task' = task /\ stream' = stream
    BY <2>1 DEF AnswerLocally
  <2> HIDE DEF entry
  <2>3. Counted(c)
    BY <2>2, RecordCounts
  <2>4. CountTypes' /\ StreamInv' /\ MemoryInv'
    BY <1>1, <1>2, <2>2, <2>3 DEF Counted, CountTypes, StreamInv
  <2>5. OneAnswer'
    BY <1>1, <1>2, <2>2, <2>3 DEF Counted, CountTypes, OneAnswer, Unanswered
  <2> QED
    BY <2>4, <2>5 DEF IInv, CountInv
<1>4. CASE Begin(c)
  <2>1. /\ stream' = [stream EXCEPT ![c] = Opened] /\ task'.cmd = c
        /\ "cmd" \in DOMAIN task'
        /\ Opened.open /\ ~Opened.bound
    BY <1>4 DEF Begin, Opened, Closed
  <2>2. Uncounted
    BY <1>4, NoRecordCounts DEF Begin
  <2> HIDE DEF Opened
  <2>3. /\ DOMAIN stream' = Commands /\ stream'[c].open /\ ~stream'[c].bound
        /\ \A d \in Commands : d # c => stream'[d] = stream[d]
    BY <1>2, <2>1 DEF CountTypes
  <2>4. CountTypes' /\ StreamInv' /\ MemoryInv'
    BY <1>1, <1>2, <2>1, <2>2, <2>3 DEF Uncounted, CountTypes, StreamInv
  <2>5. OneAnswer'
    BY <1>1, <1>2, <2>2, <2>3 DEF Uncounted, CountTypes, OneAnswer, Unanswered
  <2> QED
    BY <2>4, <2>5 DEF IInv, CountInv
<1> QED
  BY <1>3, <1>4 DEF Deliver

(* A step that touches no stream, no count and no memory.                    *)
LEMMA UntouchedInv ==
  ASSUME IInv, UNCHANGED <<stream, pending, recent, taken, answered, since>>,
         task' = task \/ (task # Nobody /\ SameTask)
  PROVE  IInv'
BY DEF IInv, CountInv, CountTypes, StreamInv, OneAnswer, Unanswered, MemoryInv,
       MemoryTypes, RememberedInv, SameTask

LEMMA FinishInv ==
  ASSUME IInv, NEW c \in Commands, FinishPending(c)
  PROVE  IInv'
<1>1. CountTypes /\ StreamInv /\ OneAnswer
  BY DEF IInv, CountInv
<1>2. /\ c \in pending /\ pending' = pending \ {c} /\ UNCHANGED <<taken, stream, task>>
      /\ Record([cmd |-> c, ack |-> TRUE, answer |-> Message(c, "done", FALSE)])
  BY DEF FinishPending
<1> DEFINE entry == [cmd |-> c, ack |-> TRUE, answer |-> Message(c, "done", FALSE)]
<1>3. Record(entry) /\ entry.cmd = c
  BY <1>2
<1> HIDE DEF entry
<1>4. Counted(c)
  BY <1>3, RecordCounts
<1>5. CountTypes' /\ StreamInv' /\ MemoryInv'
  BY <1>1, <1>2, <1>4 DEF Counted, CountTypes, StreamInv
<1>6. OneAnswer'
  BY <1>1, <1>2, <1>4 DEF Counted, CountTypes, OneAnswer, Unanswered
<1> QED
  BY <1>5, <1>6 DEF IInv, CountInv

LEMMA BindInv == ASSUME IInv, Bind PROVE IInv'
<1>1. CountTypes /\ StreamInv /\ OneAnswer
  BY DEF IInv, CountInv
<1>2. PICK c : c = task.cmd
  OBVIOUS
<1>3. /\ c \in Commands /\ stream[c].open /\ taken' = taken /\ task' = Nobody
  BY <1>1, <1>2 DEF Bind, StreamInv
<1>4. PICK h : h = BindHears(c)
  OBVIOUS
<1>5. CASE BindStream(c, h)
  <2>1. PICK g : StreamAfter(c, g)
    BY <1>5 DEF BindStream
  <2>2. pending' = pending
    BY <1>5 DEF BindStream
  <2> QED
    BY <1>3, <2>1, <2>2, StreamHears, CloseOrStay
<1>6. ASSUME pending' = pending, EraseStream(c), NEW entry, entry.cmd = c, Record(entry)
      PROVE  IInv'
  <2>1. stream' = [stream EXCEPT ![c] = Closed] /\ Counted(c)
    BY <1>3, <1>6, RecordCounts DEF EraseStream
  <2> QED
    BY <1>3, <1>6, <2>1, CloseOrStay
<1>7. CASE Reject(c)
  <2> DEFINE entry == [cmd |-> c, ack |-> FALSE, answer |-> Message(c, "error", TRUE)]
  <2>1. Record(entry) /\ entry.cmd = c /\ EraseStream(c) /\ pending' = pending
    BY <1>7 DEF Reject
  <2> HIDE DEF entry
  <2> QED
    BY <1>6, <2>1
<1>8. CASE AcceptUnheard(c)
  <2>1. CASE Awaiting(c)
    <3>1. /\ EraseStream(c) /\ pending' = pending \cup {c} /\ Uncounted
      BY <1>8, <2>1, NoRecordCounts DEF AcceptUnheard
    <3>2. /\ DOMAIN stream' = Commands /\ ~stream'[c].open /\ ~stream'[c].bound
          /\ \A d \in Commands : d # c => stream'[d] = stream[d]
      BY <1>1, <1>3, <3>1 DEF EraseStream, Closed, CountTypes
    <3>3. CountTypes' /\ StreamInv' /\ MemoryInv'
      BY <1>1, <1>3, <3>1, <3>2 DEF Uncounted, CountTypes, StreamInv
    <3>4. OneAnswer'
      BY <1>1, <1>3, <3>1, <3>2 DEF Uncounted, CountTypes, OneAnswer, Unanswered
    <3> QED
      BY <3>3, <3>4 DEF IInv, CountInv
  <2>2. CASE ~Awaiting(c)
    <3> DEFINE entry == [cmd |-> c, ack |-> TRUE, answer |-> Message(c, "done", FALSE)]
    <3>1. Record(entry) /\ entry.cmd = c /\ EraseStream(c) /\ pending' = pending
      BY <1>8, <2>2 DEF AcceptUnheard
    <3> HIDE DEF entry
    <3> QED
      BY <1>6, <3>1
  <2> QED
    BY <2>1, <2>2
<1> QED
  BY <1>2, <1>4, <1>5, <1>7, <1>8 DEF Bind

LEMMA NextInv == IInv /\ [ServerNext]_serverVars => IInv'
<1> SUFFICES ASSUME IInv, [ServerNext]_serverVars PROVE IInv'
  OBVIOUS
<1>1. ASSUME NEW c \in Commands, Redeliver(c) PROVE IInv'
  <2>1. UNCHANGED <<stream, pending, recent, taken, answered, since>> /\ task' = task
    BY <1>1 DEF Redeliver
  <2> QED
    BY <2>1, UntouchedInv, Zenon
<1>2. CASE Execute
  <2>1. task # Nobody /\ SameTask
    <3>1. "cmd" \in DOMAIN task /\ task # Nobody
      BY <1>2 DEF IInv, CountInv, StreamInv, Execute
    <3>2. PICK reply : task' = [task EXCEPT !.reply = reply, !.left = reply]
      BY <1>2 DEF Execute
    <3> QED
      BY <3>1, <3>2 DEF SameTask
  <2> QED
    BY <1>2, <2>1, UntouchedInv DEF Execute
<1>3. CASE Emit
  <2>1. task # Nobody /\ SameTask
    BY <1>3 DEF IInv, CountInv, StreamInv, Emit, SameTask
  <2> QED
    BY <1>3, <2>1, ArrivesInv DEF Emit
<1>4. ASSUME NEW m \in MsgIds, TrackerDone(m) PROVE IInv'
  BY <1>4, ArrivesInv DEF TrackerDone
<1>5. ASSUME NEW m \in MsgIds, MotionEnds(m) PROVE IInv'
  <2>1. UNCHANGED <<stream, pending, recent, taken, answered, since>> /\ task' = task
    BY <1>5 DEF MotionEnds
  <2> QED
    BY <2>1, UntouchedInv, Zenon
<1>6. CASE SerialCommand
  BY <1>6, ArrivesInv DEF SerialCommand
<1>7. ASSUME NEW connected \in BOOLEAN, NetSettles(connected) PROVE IInv'
  <2>1. PICK m, events : Arrives(m, events)
    BY <1>7, Zenon DEF NetSettles
  <2> QED
    BY <1>7, <2>1, ArrivesInv DEF NetSettles
<1>8. CASE UNCHANGED serverVars
  <2>1. UNCHANGED <<stream, pending, recent, taken, answered, since>> /\ task' = task
    BY <1>8 DEF serverVars
  <2> QED
    BY <2>1, UntouchedInv, Zenon
<1> QED
  BY <1>1, <1>2, <1>3, <1>4, <1>5, <1>6, <1>7, <1>8, DeliverInv, FinishInv, BindInv, Zenon
  DEF ServerNext, TaskStep

(* The invariant holds in every behaviour.                                  *)
THEOREM Inductive == ServerSpec => []IInv
<1> QED
  BY InitInv, NextInv, PTL DEF ServerSpec

(* Every execution of a command has one completion, published or still owed,  *)
(* and owed in one place only, whatever is redelivered, evicted or            *)
(* interleaved (handleIncoming, bindStreamToMessageId, finalizeCompleted).    *)
THEOREM AnsweredOnce == ServerSpec => []OneAnswer
<1>1. IInv => OneAnswer
  BY DEF IInv, CountInv
<1> QED
  BY <1>1, Inductive, PTL

(* A redelivered cmd_id is executed again only if its completion was published *)
(* and CacheSize others came after it (recordCompleted, replay).               *)
THEOREM ExecutedOnce == ServerSpec => OncePerMemory
<1>1. ASSUME IInv, ServerNext, NEW c \in Commands, taken'[c] # taken[c], taken[c] > 0
      PROVE  answered[c] = taken[c] /\ since[c] >= CacheSize
  <2>1. PICK d \in Commands : Deliver(d)
    BY <1>1, Zenon DEF ServerNext, TaskStep, Redeliver, FinishPending, Execute, Emit, Bind,
       TrackerDone, MotionEnds, SerialCommand, NetSettles, Arrives
  <2>2. c = d
    BY <1>1, <2>1 DEF Deliver, IInv, CountInv, CountTypes
  <2> QED
    BY <1>1, <2>1, <2>2, FreshCommand DEF Deliver
<1>2. IInv /\ [ServerNext]_serverVars =>
        [\A c \in Commands : taken'[c] # taken[c] /\ taken[c] > 0 =>
           answered[c] = taken[c] /\ since[c] >= CacheSize]_serverVars
  BY <1>1
<1> QED
  BY <1>2, Inductive, PTL DEF ServerSpec, OncePerMemory

-----------------------------------------------------------------------------
(* What a stream makes of the events it hears.  Hearing is a recursive        *)
(* function over them: that it exists and what it keeps is shown at the least *)
(* number of events that would be a counterexample.                          *)

LEMMA LeastNumber ==
  ASSUME NEW T \in SUBSET Nat, T # {}
  PROVE  \E n \in T : \A m \in T : n <= m
<1> DEFINE Less == OpToRel(<, Nat)
<1>1. PICK n \in T : \A m \in T : ~(<<m, n>> \in Less)
  <2>1. IsWellFoundedOn(Less, Nat)
    BY NatLessThanWellFounded
  <2> HIDE DEF Less
  <2> QED
    BY <2>1, WFMin, Zenon
<1>2. ASSUME NEW m \in T PROVE n <= m
  <2>1. ~(<<m, n>> \in Less)
    BY <1>1
  <2>2. ~(m < n)
    BY <2>1 DEF OpToRel
  <2> QED
    BY <2>2
<1> QED
  BY <1>2

(* What the stream of c has made of the first n events, as a function of n.   *)
HeardUpTo(f, c, events, n) ==
  f = [i \in 0..n |-> IF i = 0 THEN Unheard(c) ELSE Heard(f[i - 1], c, events[i])]

LEMMA HearingExists ==
  ASSUME NEW c, NEW events, NEW n \in Nat
  PROVE  \E f : HeardUpTo(f, c, events, n)
<1> DEFINE T == {k \in Nat : ~ \E f : HeardUpTo(f, c, events, k)}
<1>1. SUFFICES ASSUME T # {} PROVE FALSE
  OBVIOUS
<1>2. PICK k \in T : \A j \in T : k <= j
  BY <1>1, LeastNumber
<1>3. CASE k = 0
  <2> DEFINE g == [i \in 0..0 |-> Unheard(c)]
  <2>1. g = [i \in 0..0 |-> IF i = 0 THEN Unheard(c) ELSE Heard(g[i - 1], c, events[i])]
    <3>1. \A i \in 0..0 : i = 0
      OBVIOUS
    <3> QED
      BY <3>1
  <2> HIDE DEF g
  <2> QED
    BY <1>2, <1>3, <2>1 DEF HeardUpTo
<1>4. CASE k > 0
  <2>1. k - 1 \in Nat /\ k - 1 \notin T
    BY <1>2, <1>4
  <2>2. PICK f : HeardUpTo(f, c, events, k - 1)
    BY <2>1
  <2> DEFINE last == Heard(f[k - 1], c, events[k])
             g == [i \in 0..k |-> IF i < k THEN f[i] ELSE last]
  <2>3. \A i \in 0..(k - 1) :
          f[i] = IF i = 0 THEN Unheard(c) ELSE Heard(f[i - 1], c, events[i])
    BY <2>1, <2>2 DEF HeardUpTo
  <2>4. ASSUME NEW i \in 0..k
        PROVE  g[i] = IF i = 0 THEN Unheard(c) ELSE Heard(g[i - 1], c, events[i])
    <3> HIDE DEF last
    <3>1. CASE i = 0
      BY <1>4, <2>3, <3>1
    <3>2. CASE i # 0 /\ i < k
      <4>1. i - 1 \in 0..k /\ i - 1 < k /\ i \in 0..(k - 1)
        BY <3>2
      <4>2. g[i] = f[i] /\ g[i - 1] = f[i - 1]
        BY <3>2, <4>1
      <4> HIDE DEF g
      <4> QED
        BY <2>3, <3>2, <4>1, <4>2
    <3>3. CASE i = k
      <4>1. k - 1 \in 0..k /\ k - 1 < k
        BY <1>4
      <4>2. g[k] = last /\ g[k - 1] = f[k - 1]
        BY <1>4, <4>1
      <4> HIDE DEF g
      <4> QED
        BY <1>4, <3>3, <4>2 DEF last
    <3> QED
      BY <1>2, <3>1, <3>2, <3>3
  <2>5. g = [i \in 0..k |-> g[i]]
    OBVIOUS
  <2> HIDE DEF g
  <2>6. HeardUpTo(g, c, events, k)
    BY <2>4, <2>5 DEF HeardUpTo
  <2> QED
    BY <1>2, <2>6
<1> QED
  BY <1>2, <1>3, <1>4

LEMMA HearingIs ==
  ASSUME NEW c, NEW events, Len(events) \in Nat
  PROVE  \E f : /\ f[0] = Unheard(c) /\ Hearing(c, events) = f[Len(events)]
                /\ \A i \in 1..Len(events) : f[i] = Heard(f[i - 1], c, events[i])
<1> DEFINE n == Len(events)
           f == CHOOSE g : g = [i \in 0..n |-> IF i = 0 THEN Unheard(c)
                                               ELSE Heard(g[i - 1], c, events[i])]
<1>1. f = [i \in 0..n |-> IF i = 0 THEN Unheard(c) ELSE Heard(f[i - 1], c, events[i])]
  <2>1. \E g : g = [i \in 0..n |-> IF i = 0 THEN Unheard(c) ELSE Heard(g[i - 1], c, events[i])]
    <3>1. PICK g : HeardUpTo(g, c, events, Len(events))
      BY HearingExists
    <3> QED
      BY <3>1 DEF HeardUpTo
  <2> QED
    BY <2>1, Zenon
<1>2. Hearing(c, events) = f[n]
  BY DEF Hearing
<1> HIDE DEF f
<1>3. f[0] = Unheard(c) /\ \A i \in 1..n : f[i] = Heard(f[i - 1], c, events[i])
  BY <1>1
<1> QED
  BY <1>2, <1>3

(* One event: the ACK is kept, and a DONE gives the answer.                  *)
HeardShape(h) ==
  \E a, e, o, s : h = [acked |-> a, errors |-> e, out |-> o, answers |-> s]

LEMMA HeardOne ==
  ASSUME NEW h, HeardShape(h), NEW c, NEW event \in Events
  PROVE  LET g == Heard(h, c, event) IN
         /\ HeardShape(g)
         /\ h.acked => g.acked
         /\ event = "ACK" => g.acked
         /\ g.answers # <<>> <=> h.answers # <<>> \/ event = "DONE"
<1>1. PICK a, e, o, s : h = [acked |-> a, errors |-> e, out |-> o, answers |-> s]
  BY DEF HeardShape
<1>2. CASE event = "ACK"
  <2>1. PICK p : Heard(h, c, event) = [h EXCEPT !.acked = TRUE, !.out = p]
    BY <1>2 DEF Heard
  <2>2. Heard(h, c, event) = [acked |-> TRUE, errors |-> e, out |-> p, answers |-> s]
    BY <1>1, <2>1
  <2>3. HeardShape(Heard(h, c, event))
    BY <2>2, Zenon DEF HeardShape
  <2> QED
    BY <1>1, <1>2, <2>2, <2>3
<1>3. CASE event = "ERR"
  <2>1. Heard(h, c, event) = [h EXCEPT !.errors = TRUE]
    BY <1>3 DEF Heard
  <2>2. Heard(h, c, event) = [acked |-> a, errors |-> TRUE, out |-> o, answers |-> s]
    BY <1>1, <2>1
  <2>3. HeardShape(Heard(h, c, event))
    BY <2>2, Zenon DEF HeardShape
  <2> QED
    BY <1>1, <1>3, <2>2, <2>3
<1>4. CASE event = "DONE" /\ h.answers # <<>>
  <2>1. Heard(h, c, event) = h
    BY <1>4 DEF Heard
  <2> QED
    BY <1>1, <1>4, <2>1 DEF HeardShape
<1>5. CASE event = "DONE" /\ h.answers = <<>>
  <2>1. PICK p, x : Heard(h, c, event) = [h EXCEPT !.out = p, !.answers = <<x>>]
    BY <1>5 DEF Heard
  <2>2. Heard(h, c, event) = [acked |-> a, errors |-> e, out |-> p, answers |-> <<x>>]
    BY <1>1, <2>1
  <2>3. HeardShape(Heard(h, c, event))
    BY <2>2, Zenon DEF HeardShape
  <2>4. <<x>> # <<>>
    OBVIOUS
  <2> QED
    BY <1>1, <1>5, <2>2, <2>3, <2>4
<1> QED
  BY <1>2, <1>3, <1>4, <1>5 DEF Events

(* All events: the ACK is kept, a DONE among them gives the answer.          *)
LEMMA Hears ==
  ASSUME NEW c, NEW events \in Seq(Events)
  PROVE  LET h == Hearing(c, events) IN
         /\ HeardShape(h)
         /\ stream[c].acked => h.acked
         /\ "ACK" \in ToSet(events) => h.acked
         /\ h.answers # <<>> <=> "DONE" \in ToSet(events)
<1>1. PICK f : /\ f[0] = Unheard(c) /\ Hearing(c, events) = f[Len(events)]
               /\ \A i \in 1..Len(events) : f[i] = Heard(f[i - 1], c, events[i])
  BY HearingIs
<1> DEFINE Good(n) ==
             /\ HeardShape(f[n])
             /\ stream[c].acked => f[n].acked
             /\ (\E i \in 1..n : events[i] = "ACK") => f[n].acked
             /\ f[n].answers # <<>> <=> \E i \in 1..n : events[i] = "DONE"
           T == {n \in Nat : n <= Len(events) /\ ~Good(n)}
<1>2. T = {}
  <2>1. SUFFICES ASSUME T # {} PROVE FALSE
    OBVIOUS
  <2>2. PICK n \in T : \A m \in T : n <= m
    <3>1. T \in SUBSET Nat
      OBVIOUS
    <3> HIDE DEF T
    <3> QED
      BY <2>1, <3>1, LeastNumber
  <2>3. n \in Nat /\ n <= Len(events) /\ ~Good(n)
    BY <2>2
  <2>4. CASE n = 0
    <3>1. f[0] = [acked |-> stream[c].acked, errors |-> stream[c].errors,
                  out |-> <<>>, answers |-> <<>>]
      BY <1>1 DEF Unheard
    <3>2. HeardShape(f[0])
      BY <3>1 DEF HeardShape
    <3>3. \A i \in 1..0 : FALSE
      OBVIOUS
    <3> QED
      BY <2>3, <2>4, <3>1, <3>2, <3>3
  <2>5. CASE n > 0
    <3>1. n - 1 \in Nat /\ n \in 1..Len(events) /\ Good(n - 1)
      <4>1. n - 1 \in Nat /\ n - 1 <= Len(events) /\ n \in 1..Len(events) /\ n - 1 \notin T
        BY <2>2, <2>3, <2>5
      <4> HIDE DEF Good
      <4> QED
        BY <4>1
    <3>2. f[n] = Heard(f[n - 1], c, events[n]) /\ events[n] \in Events
      BY <1>1, <3>1
    <3>3. /\ HeardShape(f[n])
          /\ f[n - 1].acked => f[n].acked
          /\ events[n] = "ACK" => f[n].acked
          /\ f[n].answers # <<>> <=> f[n - 1].answers # <<>> \/ events[n] = "DONE"
      BY <3>1, <3>2, HeardOne
    <3>4. \A i : i \in 1..n <=> i \in 1..(n - 1) \/ i = n
      BY <3>1
    <3>5. (\E i \in 1..n : events[i] = "ACK") => f[n].acked
      BY <3>1, <3>3, <3>4
    <3>6. (\E i \in 1..n : events[i] = "DONE")
             <=> (\E i \in 1..(n - 1) : events[i] = "DONE") \/ events[n] = "DONE"
      BY <3>4
    <3>7. f[n].answers # <<>> <=> \E i \in 1..n : events[i] = "DONE"
      BY <3>1, <3>3, <3>6, Zenon
    <3> QED
      BY <2>3, <3>1, <3>3, <3>5, <3>7
  <2> QED
    BY <2>3, <2>4, <2>5
<1>3. Good(Len(events))
  <2>1. Len(events) \in Nat /\ Len(events) <= Len(events)
    OBVIOUS
  <2> HIDE DEF Good
  <2> QED
    BY <1>2, <2>1
<1>4. \A event : event \in ToSet(events) <=> \E i \in 1..Len(events) : events[i] = event
  BY DEF ToSet
<1> QED
  BY <1>1, <1>3, <1>4, Zenon

-----------------------------------------------------------------------------
(* Whose events are where.                                                  *)

Lines == {<<>>, <<"ACK">>, <<"ERR">>, <<"DONE">>, <<"ACK", "DONE">>}
Ids   == (Commands \cup {Serial}) \X Nat
Entry == [msg : Ids, events : Seq(Events)]

EventTypes ==
  /\ kind \in [Commands -> AllKinds] /\ serial \in Nat
  /\ task # Nobody => /\ task \in [cmd : Commands, reply : Lines, left : Seq(Events)]
                      /\ kind[task.cmd] # "LOCAL"
  /\ parked \in Seq(Entry)
  /\ tracked \cup active \subseteq Ids /\ moving \subseteq Commands \X Nat

(* An id that no handler has begun to use: of an execution to come, or of     *)
(* the command in hand before its handler acts.                              *)
Unused(m) ==
  /\ m[1] \in Commands
  /\ \/ taken[m[1]] < m[2]
     \/ task # Nobody /\ task.reply = <<>> /\ m = Msg(task.cmd)

UsedInv ==
  /\ \A m \in tracked \cup moving \cup active : ~Unused(m)
  /\ \A i \in DOMAIN parked : ~Unused(parked[i].msg)

(* What the queue q of parked events has for m includes an event.            *)
Holds(q, m, event) ==
  /\ \E i \in DOMAIN q : q[i].msg = m
  /\ \A i \in DOMAIN q : q[i].msg = m => event \in ToSet(q[i].events)

(* What the command in hand has said is parked, or was evicted.              *)
Said(q, m, reply, left) ==
  \A event \in ToSet(reply) : event \in ToSet(left) \/ Holds(q, m, event)

TaskInv ==
  task # Nobody =>
    /\ ToSet(task.left) \subseteq ToSet(task.reply)
    /\ Msg(task.cmd) \in moving => task.reply = <<"ACK">>
    /\ task.cmd \notin lost => Said(parked, Msg(task.cmd), task.reply, task.left)

(* No DONE is on its way to a motion in progress.                            *)
NotDone ==
  /\ active \cap moving = {}
  /\ \A i \in DOMAIN parked : parked[i].msg \in moving => "DONE" \notin ToSet(parked[i].events)

EarlyHome(c) == kind[c] = "HOME" /\ c \in lost

MovingInv ==
  \A c \in Commands : kind[c] \in Motions /\ Msg(c) \in moving => Unanswered(c) \/ EarlyHome(c)

EventInv == EventTypes /\ UsedInv /\ TaskInv /\ NotDone /\ MovingInv /\ DuplicateAnswered

(* Events are parked at the end of their entry, or in a new one that may push *)
(* out the oldest.                                                          *)
LEMMA Parks ==
  ASSUME parked \in Seq(Entry), NEW m \in Ids, NEW events \in Seq(Events), Park(m, events)
  PROVE  /\ parked' \in Seq(Entry) /\ lost \subseteq lost'
         /\ \A j \in DOMAIN parked' :
              \/ \E i \in DOMAIN parked : parked'[j] = parked[i]
              \/ /\ parked'[j].msg = m
                 /\ \A event \in ToSet(parked'[j].events) :
                      \/ event \in ToSet(events)
                      \/ \E i \in ParkedAt(m) : event \in ToSet(parked[i].events)
<1> DEFINE entry == [msg |-> m, events |-> events]
           queue == Append(parked, entry)
<1>1. CASE ParkedAt(m) # {}
  <2>1. /\ lost' = lost
        /\ parked' = [i \in DOMAIN parked |->
                        IF i \in ParkedAt(m) THEN [parked[i] EXCEPT !.events = @ \o events]
                        ELSE parked[i]]
    BY <1>1 DEF Park
  <2>2. ASSUME NEW i \in DOMAIN parked, i \in ParkedAt(m)
        PROVE  /\ parked'[i] \in Entry /\ parked'[i].msg = m
               /\ \A event \in ToSet(parked'[i].events) :
                    event \in ToSet(events) \/ event \in ToSet(parked[i].events)
    <3>1. parked[i] \in Entry /\ parked[i].msg = m
      BY <2>2 DEF ParkedAt
    <3>2. parked'[i] = [msg |-> m, events |-> parked[i].events \o events]
      BY <2>1, <2>2, <3>1 DEF Entry
    <3>3. parked[i].events \in Seq(Events)
      BY <3>1 DEF Entry
    <3>4. /\ parked[i].events \o events \in Seq(Events)
          /\ \A k \in 1..Len(parked[i].events \o events) :
               \/ \E l \in 1..Len(events) : (parked[i].events \o events)[k] = events[l]
               \/ \E l \in 1..Len(parked[i].events) :
                    (parked[i].events \o events)[k] = parked[i].events[l]
      <4>1. PICK p : p = parked[i].events /\ p \in Seq(Events)
        BY <3>3
      <4>2. /\ p \o events \in Seq(Events) /\ Len(p \o events) = Len(p) + Len(events)
            /\ \A k \in 1..(Len(p) + Len(events)) :
                 (p \o events)[k] = IF k <= Len(p) THEN p[k] ELSE events[k - Len(p)]
        BY <4>1
      <4>3. ASSUME NEW k \in 1..(Len(p) + Len(events))
            PROVE  k \in 1..Len(p) \/ k - Len(p) \in 1..Len(events)
        BY <4>1
      <4> QED
        BY <4>1, <4>2, <4>3
    <3> QED
      BY <3>1, <3>2, <3>3, <3>4 DEF Entry, ToSet
  <2>3. \A i \in DOMAIN parked : i \notin ParkedAt(m) => parked'[i] = parked[i]
    BY <2>1
  <2>4. /\ DOMAIN parked' = 1..Len(parked) /\ DOMAIN parked = 1..Len(parked)
        /\ parked' = [i \in 1..Len(parked) |-> parked'[i]]
        /\ \A i \in 1..Len(parked) : parked[i] \in Entry
    BY <2>1
  <2>5. \A i \in 1..Len(parked) : parked'[i] \in Entry
    BY <2>2, <2>3, <2>4
  <2>6. parked' \in Seq(Entry)
    <3>1. parked' \in [1..Len(parked) -> Entry] /\ Len(parked) \in Nat
      BY <2>4, <2>5
    <3> QED
      BY <3>1
  <2> QED
    BY <2>1, <2>2, <2>3, <2>4, <2>6
<1>2. CASE ParkedAt(m) = {}
  <2>1. \/ parked' = queue /\ lost' = lost
        \/ parked' = Tail(queue) /\ lost' = Evicted(Head(queue))
    BY <1>2 DEF Park
  <2>2. entry \in Entry /\ entry.msg = m /\ entry.events = events
    BY DEF Entry
  <2> HIDE DEF entry
  <2>3. /\ queue \in Seq(Entry) /\ Len(queue) = Len(parked) + 1
        /\ \A j \in 1..Len(queue) :
             queue[j] = entry \/ \E i \in DOMAIN parked : queue[j] = parked[i]
    BY <2>2
  <2>4. lost \subseteq lost'
    BY <2>1 DEF Evicted
  <2> HIDE DEF queue
  <2>5. /\ parked' \in Seq(Entry)
        /\ \A j \in DOMAIN parked' : \E k \in 1..Len(queue) : parked'[j] = queue[k]
    <3>1. CASE parked' = queue
      BY <2>3, <3>1
    <3>2. CASE parked' = Tail(queue)
      <4>1. Len(queue) \in Nat /\ Len(queue) > 0 /\ queue # <<>>
        BY <2>3
      <4>2. /\ Tail(queue) \in Seq(Entry) /\ Len(Tail(queue)) = Len(queue) - 1
            /\ \A j \in 1..(Len(queue) - 1) : Tail(queue)[j] = queue[j + 1]
        BY <2>3, <4>1
      <4>3. \A j \in 1..(Len(queue) - 1) : j + 1 \in 1..Len(queue)
        BY <4>1
      <4> QED
        BY <3>2, <4>2, <4>3
    <3> QED
      BY <2>1, <3>1, <3>2
  <2>6. ASSUME NEW j \in DOMAIN parked'
        PROVE  parked'[j] = entry \/ \E i \in DOMAIN parked : parked'[j] = parked[i]
    BY <2>3, <2>5
  <2> QED
    BY <2>2, <2>4, <2>5, <2>6
<1> QED
  BY <1>1, <1>2

(* What is parked for the command in hand stays, unless it is evicted, and     *)
(* what comes is added to it.                                                *)
LEMMA ParksHeld ==
  ASSUME parked \in Seq(Entry), NEW m \in Ids, NEW events \in Seq(Events), Park(m, events),
         NEW own, task # Nobody, own = Msg(task.cmd), task.cmd \notin lost'
  PROVE  /\ \A event : Holds(parked, own, event) => Holds(parked', own, event)
         /\ m = own => \A event \in ToSet(events) : Holds(parked', own, event)
<1> DEFINE entry == [msg |-> m, events |-> events]
           queue == Append(parked, entry)
<1>1. CASE ParkedAt(m) # {}
  <2>1. parked' = [i \in DOMAIN parked |->
                     IF i \in ParkedAt(m) THEN [parked[i] EXCEPT !.events = @ \o events]
                     ELSE parked[i]]
    BY <1>1 DEF Park
  <2>2. DOMAIN parked' = DOMAIN parked /\ \A i \in DOMAIN parked : parked[i] \in Entry
    BY <2>1
  <2>3. ASSUME NEW i \in ParkedAt(m)
        PROVE  /\ parked'[i].msg = m /\ parked[i].msg = m
               /\ \A event : event \in ToSet(parked[i].events) \/ event \in ToSet(events) =>
                    event \in ToSet(parked'[i].events)
    <3>1. i \in DOMAIN parked /\ parked[i] \in Entry /\ parked[i].msg = m
      BY <2>2 DEF ParkedAt
    <3>2. parked'[i] = [msg |-> m, events |-> parked[i].events \o events]
      BY <2>1, <3>1 DEF Entry
    <3>3. PICK p : p = parked[i].events /\ p \in Seq(Events)
      BY <3>1 DEF Entry
    <3>4. /\ Len(p \o events) = Len(p) + Len(events) /\ p \o events \in Seq(Events)
          /\ \A k \in 1..Len(p) : (p \o events)[k] = p[k]
          /\ \A k \in 1..Len(events) : (p \o events)[k + Len(p)] = events[k]
      BY <3>3
    <3>5. \A k \in 1..Len(p) : k \in 1..Len(p \o events)
      BY <3>3, <3>4
    <3>6. \A k \in 1..Len(events) : k + Len(p) \in 1..Len(p \o events)
      BY <3>3, <3>4
    <3>7. parked'[i].events = p \o events /\ parked'[i].msg = m
      BY <3>2, <3>3
    <3>8. \A q \in Seq(Events) : \A event : event \in ToSet(q) <=> \E k \in 1..Len(q) : q[k] = event
      BY DEF ToSet
    <3>9. ASSUME NEW event, event \in ToSet(p) \/ event \in ToSet(events)
          PROVE  event \in ToSet(p \o events)
      <4>1. \E k \in 1..Len(p \o events) : (p \o events)[k] = event
        <5>1. ASSUME NEW k \in 1..Len(p), p[k] = event PROVE (p \o events)[k] = event
          BY <3>4, <5>1
        <5>2. ASSUME NEW k \in 1..Len(events), events[k] = event
              PROVE  (p \o events)[k + Len(p)] = event
          BY <3>4, <5>2
        <5>3. CASE event \in ToSet(p)
          <6>1. PICK k \in 1..Len(p) : p[k] = event
            BY <3>3, <3>8, <5>3
          <6> QED
            BY <3>5, <5>1, <6>1
        <5>4. CASE event \in ToSet(events)
          <6>1. PICK k \in 1..Len(events) : events[k] = event
            BY <3>8, <5>4
          <6> QED
            BY <3>6, <5>2, <6>1
        <5> QED
          BY <3>9, <5>3, <5>4
      <4> QED
        BY <3>4, <3>8, <4>1, Zenon
    <3> QED
      BY <3>1, <3>3, <3>7, <3>9
  <2>4. \A i \in DOMAIN parked : i \notin ParkedAt(m) => parked'[i] = parked[i]
    BY <2>1
  <2>5. \A i \in DOMAIN parked : i \in ParkedAt(own) <=> parked'[i].msg = own
    BY <2>3, <2>4 DEF ParkedAt
  <2>6. ASSUME NEW event, Holds(parked, own, event)
        PROVE  Holds(parked', own, event)
    <3>1. \E j \in DOMAIN parked' : parked'[j].msg = own
      BY <2>2, <2>5, <2>6 DEF Holds, ParkedAt
    <3>2. ASSUME NEW j \in DOMAIN parked', parked'[j].msg = own
          PROVE  event \in ToSet(parked'[j].events)
      <4>1. j \in ParkedAt(own) /\ event \in ToSet(parked[j].events)
        BY <2>2, <2>5, <2>6, <3>2 DEF Holds, ParkedAt
      <4> QED
        BY <2>2, <2>3, <2>4, <4>1
    <3> QED
      BY <3>1, <3>2 DEF Holds
  <2>7. ASSUME m = own
        PROVE  \A event \in ToSet(events) : Holds(parked', own, event)
    BY <1>1, <2>2, <2>3, <2>5, <2>7 DEF Holds, ParkedAt
  <2> QED
    BY <2>6, <2>7
<1>2. CASE ParkedAt(m) = {}
  <2>1. \/ parked' = queue
        \/ parked' = Tail(queue) /\ lost' = Evicted(Head(queue)) /\ Len(queue) > OrphanCap
    <3>1. Len(queue) \in Nat /\ OrphanCap \in Nat
      BY ServerAssumption DEF Entry
    <3> QED
      BY <1>2, <3>1 DEF Park
  <2>2. entry \in Entry /\ entry.msg = m /\ entry.events = events
    BY DEF Entry
  <2> HIDE DEF entry
  <2>3. /\ queue \in Seq(Entry) /\ Len(queue) = Len(parked) + 1 /\ Len(parked) \in Nat
        /\ queue[Len(parked) + 1] = entry
        /\ \A i \in 1..Len(parked) : queue[i] = parked[i]
        /\ DOMAIN parked = 1..Len(parked)
    BY <2>2
  <2> HIDE DEF queue
  <2>4. CASE parked' = queue
    <3>1. DOMAIN parked' = 1..(Len(parked) + 1)
      BY <2>3, <2>4
    <3>2. \A j \in DOMAIN parked' :
            \/ j \in DOMAIN parked /\ parked'[j] = parked[j]
            \/ j = Len(parked) + 1 /\ parked'[j] = entry
      BY <2>3, <2>4, <3>1
    <3>3. /\ \A i \in DOMAIN parked : i \in DOMAIN parked' /\ parked'[i] = parked[i]
          /\ Len(parked) + 1 \in DOMAIN parked' /\ parked'[Len(parked) + 1] = entry
      BY <2>3, <2>4, <3>1
    <3> QED
      BY <1>2, <2>2, <3>2, <3>3 DEF Holds, ParkedAt
  <2>5. CASE parked' = Tail(queue) /\ lost' = Evicted(Head(queue)) /\ Len(queue) > OrphanCap
    <3>1. Len(parked) > 0
      BY <2>3, <2>5, ServerAssumption
    <3>2. /\ DOMAIN parked' = 1..Len(parked)
          /\ \A j \in 1..Len(parked) : parked'[j] = queue[j + 1]
          /\ Head(queue) = parked[1] /\ 1 \in DOMAIN parked
      BY <2>3, <2>5, <3>1
    <3>3. parked[1].msg # own
      BY <2>5, <3>2 DEF Evicted
    <3>4. \A j \in DOMAIN parked' :
            \/ j + 1 \in DOMAIN parked /\ parked'[j] = parked[j + 1]
            \/ parked'[j] = entry
      BY <2>3, <3>2
    <3>5. \A i \in DOMAIN parked : i # 1 => i - 1 \in DOMAIN parked' /\ parked'[i - 1] = parked[i]
      BY <2>3, <3>2
    <3>6. Len(parked) \in DOMAIN parked' /\ parked'[Len(parked)] = entry
      BY <2>3, <3>1, <3>2
    <3>7. ASSUME NEW event, Holds(parked, own, event)
          PROVE  Holds(parked', own, event)
      <4>1. PICK i \in DOMAIN parked : parked[i].msg = own
        BY <3>7 DEF Holds, ParkedAt
      <4>2. m # own
        BY <1>2, <4>1 DEF ParkedAt
      <4>3. i - 1 \in DOMAIN parked' /\ parked'[i - 1] = parked[i]
        BY <3>3, <3>5, <4>1
      <4>4. ASSUME NEW j \in DOMAIN parked', parked'[j].msg = own
            PROVE  event \in ToSet(parked'[j].events)
        <5>1. j + 1 \in DOMAIN parked /\ parked'[j] = parked[j + 1]
          BY <2>2, <3>4, <4>2, <4>4
        <5> QED
          BY <3>7, <4>4, <5>1 DEF Holds, ParkedAt
      <4> QED
        BY <4>1, <4>3, <4>4 DEF Holds
    <3>8. ASSUME m = own, NEW j \in DOMAIN parked', parked'[j].msg = own
          PROVE  parked'[j] = entry
      BY <1>2, <3>4, <3>8 DEF ParkedAt
    <3> QED
      BY <2>2, <3>6, <3>7, <3>8 DEF Holds
  <2> QED
    BY <2>1, <2>4, <2>5
<1> QED
  BY <1>1, <1>2

(* Forgetting what was parked leaves the other entries as they are.          *)
LEMMA ForgetsOne ==
  ASSUME NEW s \in Seq(Entry), NEW i \in DOMAIN s
  PROVE  /\ RemoveAt(s, i) \in Seq(Entry)
         /\ \A j \in DOMAIN RemoveAt(s, i) : \E k \in DOMAIN s : RemoveAt(s, i)[j] = s[k]
<1>1. i \in 1..Len(s) /\ Len(s) \in Nat
  OBVIOUS
<1> DEFINE a == SubSeq(s, 1, i - 1)
           b == SubSeq(s, i + 1, Len(s))
<1>2. /\ a \in Seq(Entry) /\ Len(a) = i - 1 /\ \A j \in 1..Len(a) : a[j] = s[j]
      /\ b \in Seq(Entry) /\ Len(b) = Len(s) - i /\ \A j \in 1..Len(b) : b[j] = s[j + i]
  BY <1>1
<1>3. RemoveAt(s, i) = a \o b
  BY DEF RemoveAt
<1> HIDE DEF a, b
<1>4. /\ a \o b \in Seq(Entry) /\ Len(a \o b) = Len(a) + Len(b)
      /\ \A j \in 1..(Len(a) + Len(b)) : (a \o b)[j] = IF j <= Len(a) THEN a[j] ELSE b[j - Len(a)]
  BY <1>2
<1>5. ASSUME NEW j \in 1..(Len(a) + Len(b)) PROVE \E k \in DOMAIN s : (a \o b)[j] = s[k]
  <2>1. CASE j <= Len(a)
    <3>1. j \in 1..Len(a) /\ j \in DOMAIN s
      BY <1>1, <1>2, <2>1
    <3> QED
      BY <1>2, <1>4, <2>1, <3>1
  <2>2. CASE ~(j <= Len(a))
    <3>1. /\ j \in Int /\ 1 <= j /\ j <= i - 1 + (Len(s) - i)
          /\ Len(a) = i - 1 /\ Len(b) = Len(s) - i /\ i \in Int /\ j > i - 1
          /\ DOMAIN s = 1..Len(s)
      BY <1>1, <1>2, <2>2
    <3>2. j - Len(a) \in 1..Len(b) /\ j - Len(a) + i \in DOMAIN s
      BY <1>1, <3>1
    <3> QED
      BY <1>2, <1>4, <2>2, <3>2
  <2> QED
    BY <2>1, <2>2
<1>6. DOMAIN (a \o b) = 1..(Len(a) + Len(b))
  BY <1>4
<1>7. RemoveAt(s, i) \in Seq(Entry)
  BY <1>3, <1>4, Zenon
<1> QED
  BY <1>3, <1>5, <1>6, <1>7, Zenon

(* What a step may not do: answer a motion that is going on.                 *)
NoEarlyStep ==
  \A c \in Commands :
    answered'[c] # answered[c] /\ kind[c] \in Motions /\ Msg(c) \in moving => EarlyHome(c)

(* A motion that loses its owed answer got it in this step.                  *)
LEMMA MovingKept ==
  ASSUME OneAnswer, OneAnswer', CountTypes, MovingInv, NoEarlyStep,
         taken' = taken, kind' = kind, lost \subseteq lost', moving' \subseteq moving
  PROVE  MovingInv'
<1> SUFFICES ASSUME NEW c \in Commands, kind[c] \in Motions, <<c, taken[c]>> \in moving',
                    ~Unanswered(c)'
             PROVE  kind[c] = "HOME" /\ c \in lost'
  BY DEF MovingInv, Msg, EarlyHome
<1>1. Msg(c) \in moving
  BY DEF Msg
<1>2. CASE EarlyHome(c)
  BY <1>2 DEF EarlyHome
<1>3. CASE Unanswered(c)
  <2>1. taken[c] = answered[c] + 1 /\ taken[c] = answered'[c] + 0
    BY <1>3 DEF OneAnswer
  <2>2. answered'[c] # answered[c]
    BY <2>1 DEF CountTypes
  <2> QED
    BY <1>1, <2>2 DEF NoEarlyStep, EarlyHome
<1> QED
  BY <1>1, <1>2, <1>3 DEF MovingInv

(* An event that arrives for an id in use, and is no DONE of a motion that is  *)
(* going on, is heard by a stream or parked.                                 *)
LEMMA ArrivesWell ==
  ASSUME IInv, EventInv, NEW m \in Ids, ~Unused(m), NEW events \in Seq(Events),
         m \notin moving \/ "DONE" \notin ToSet(events), Arrives(m, events)
  PROVE  /\ parked' \in Seq(Entry) /\ lost \subseteq lost'
         /\ \A j \in DOMAIN parked' :
              /\ ~Unused(parked'[j].msg)
              /\ parked'[j].msg \in moving => "DONE" \notin ToSet(parked'[j].events)
         /\ \A c \in Commands : stream'[c].open =>
              stream[c].open /\ (stream[c].acked => stream'[c].acked)
         /\ NoEarlyStep
         /\ task # Nobody /\ task.cmd \notin lost' =>
              LET own == Msg(task.cmd) IN
              /\ \A event : Holds(parked, own, event) => Holds(parked', own, event)
              /\ m = own => \A event \in ToSet(events) : Holds(parked', own, event)
<1>1. /\ parked \in Seq(Entry) /\ CountTypes /\ StreamInv
      /\ \A j \in DOMAIN parked :
           /\ ~Unused(parked[j].msg)
           /\ parked[j].msg \in moving => "DONE" \notin ToSet(parked[j].events)
  BY DEF EventInv, EventTypes, UsedInv, NotDone, IInv, CountInv
<1>2. ASSUME NEW c \in Listening(m), StreamAfter(c, Hearing(c, events)), UNCHANGED <<parked, lost>>
      PROVE  /\ \A d \in Commands : stream'[d].open =>
                  stream[d].open /\ (stream[d].acked => stream'[d].acked)
             /\ NoEarlyStep
             /\ task # Nobody => m # Msg(task.cmd)
  <2>1. c \in Commands /\ stream[c].bound /\ stream[c].open /\ Msg(c) = m
    BY <1>1, <1>2 DEF Listening, StreamInv
  <2>2. PICK h : h = Hearing(c, events)
    OBVIOUS
  <2>3. /\ stream[c].acked => h.acked
        /\ h.answers # <<>> <=> "DONE" \in ToSet(events)
    BY <2>2, Hears
  <2>4. task # Nobody => m # Msg(task.cmd)
    BY <1>1, <2>1 DEF StreamInv, Msg
  <2>5. CASE h.answers # <<>>
    <3>1. EraseStream(c) /\ answered' = [answered EXCEPT ![c] = @ + 1]
      BY <1>2, <2>2, <2>5 DEF StreamAfter, Record
    <3>2. ~Closed.open
      BY DEF Closed
    <3>3. \A d \in Commands : d # c => stream'[d] = stream[d] /\ answered'[d] = answered[d]
      BY <1>1, <3>1 DEF EraseStream, CountTypes
    <3>4. ~stream'[c].open
      BY <1>1, <2>1, <3>1, <3>2 DEF EraseStream, CountTypes
    <3>5. Msg(c) \notin moving
      BY <2>1, <2>3, <2>5
    <3> QED
      BY <2>4, <3>3, <3>4, <3>5 DEF NoEarlyStep
  <2>6. CASE h.answers = <<>>
    <3>1. stream' = [stream EXCEPT ![c] = Bound(h)] /\ answered' = answered
      BY <1>2, <2>2, <2>6 DEF StreamAfter, NoRecord
    <3>2. Bound(h).acked = h.acked
      BY DEF Bound
    <3>3. \A d \in Commands : d # c => stream'[d] = stream[d]
      BY <1>1, <3>1 DEF CountTypes
    <3>4. stream[c].acked => stream'[c].acked
      BY <1>1, <2>1, <2>3, <3>1, <3>2 DEF CountTypes
    <3> QED
      BY <2>1, <2>4, <3>1, <3>3, <3>4 DEF NoEarlyStep
  <2> QED
    BY <2>5, <2>6
<1>3. CASE Park(m, events) /\ NoRecord /\ UNCHANGED stream
  <2>1. /\ parked' \in Seq(Entry) /\ lost \subseteq lost'
        /\ \A j \in DOMAIN parked' :
              \/ \E i \in DOMAIN parked : parked'[j] = parked[i]
              \/ /\ parked'[j].msg = m
                 /\ \A event \in ToSet(parked'[j].events) :
                      \/ event \in ToSet(events)
                      \/ \E i \in ParkedAt(m) : event \in ToSet(parked[i].events)
    BY <1>1, <1>3, Parks
  <2>2. ASSUME NEW j \in DOMAIN parked'
        PROVE  /\ ~Unused(parked'[j].msg)
               /\ parked'[j].msg \in moving => "DONE" \notin ToSet(parked'[j].events)
    <3>1. CASE \E i \in DOMAIN parked : parked'[j] = parked[i]
      BY <1>1, <3>1
    <3>2. CASE /\ parked'[j].msg = m
               /\ \A event \in ToSet(parked'[j].events) :
                      \/ event \in ToSet(events)
                      \/ \E i \in ParkedAt(m) : event \in ToSet(parked[i].events)
      BY <1>1, <3>2 DEF ParkedAt
    <3> QED
      BY <2>1, <3>1, <3>2
  <2>3. ASSUME task # Nobody, task.cmd \notin lost'
        PROVE  LET own == Msg(task.cmd) IN
               /\ \A event : Holds(parked, own, event) => Holds(parked', own, event)
               /\ m = own => \A event \in ToSet(events) : Holds(parked', own, event)
    BY <1>1, <1>3, <2>3, ParksHeld
  <2>4. NoEarlyStep
    BY <1>3 DEF NoRecord, NoEarlyStep
  <2> QED
    BY <1>3, <2>1, <2>2, <2>3, <2>4
<1>4. CASE \E c \in Listening(m) :
             LET h == Hearing(c, events)
             IN StreamAfter(c, h) /\ sent' = h.out /\ UNCHANGED <<parked, lost>>
  <2>1. PICK c \in Listening(m) : StreamAfter(c, Hearing(c, events)) /\ UNCHANGED <<parked, lost>>
    BY <1>4
  <2>2. /\ \A d \in Commands : stream'[d].open =>
             stream[d].open /\ (stream[d].acked => stream'[d].acked)
        /\ NoEarlyStep
        /\ task # Nobody => m # Msg(task.cmd)
    BY <1>2, <2>1
  <2>3. parked' = parked /\ lost' = lost
    BY <2>1
  <2> QED
    BY <1>1, <2>2, <2>3
<1> QED
  BY <1>3, <1>4 DEF Arrives

LEMMA LinesAreEvents == Lines \subseteq Seq(Events)
<1>1. "ACK" \in Events /\ "ERR" \in Events /\ "DONE" \in Events
  BY DEF Events
<1>2. <<>> \in Seq(Events) /\ <<"ACK">> \in Seq(Events) /\ <<"ERR">> \in Seq(Events)
      /\ <<"DONE">> \in Seq(Events) /\ <<"ACK", "DONE">> \in Seq(Events)
  BY <1>1
<1> QED
  BY <1>2 DEF Lines

(* The command in hand stays the same, its handler has not begun anew.       *)
SameHand ==
  \/ task' = task
  \/ /\ task # Nobody /\ task.reply # <<>>
     /\ task' = [cmd |-> task.cmd, reply |-> task.reply, left |-> Tail(task.left)]
     /\ task.left # <<>>

(* An arrival keeps the invariant, when a line of the command in hand that is  *)
(* emitted goes to its own id.                                               *)
LEMMA ArrivesEvents ==
  ASSUME IInv, IInv', EventInv, NEW m \in Ids, ~Unused(m), NEW events \in Seq(Events),
         m \notin moving \/ "DONE" \notin ToSet(events), Arrives(m, events),
         SameHand,
         task' = task \/ (m = Msg(task.cmd) /\ events = <<Head(task.left)>>),
         moving' = moving, tracked' \subseteq tracked, active' \subseteq active, serial' \in Nat
  PROVE  EventInv' /\ NoEarlyStep
<1>1. /\ parked' \in Seq(Entry) /\ lost \subseteq lost'
      /\ \A j \in DOMAIN parked' :
           /\ ~Unused(parked'[j].msg)
           /\ parked'[j].msg \in moving => "DONE" \notin ToSet(parked'[j].events)
      /\ \A c \in Commands : stream'[c].open =>
           stream[c].open /\ (stream[c].acked => stream'[c].acked)
      /\ NoEarlyStep
      /\ task # Nobody /\ task.cmd \notin lost' =>
           LET own == Msg(task.cmd) IN
           /\ \A event : Holds(parked, own, event) => Holds(parked', own, event)
           /\ m = own => \A event \in ToSet(events) : Holds(parked', own, event)
  BY ArrivesWell
<1>2. UNCHANGED <<kind, pending, taken>>
  BY DEF Arrives
<1>3. EventTypes /\ UsedInv /\ TaskInv /\ NotDone /\ MovingInv /\ DuplicateAnswered
  BY DEF EventInv
<1>4. CASE task # Nobody /\ task' # task
  <2>1. PICK c, reply, left : /\ task = [cmd |-> c, reply |-> reply, left |-> left]
                              /\ c \in Commands /\ reply \in Lines /\ left \in Seq(Events)
    BY <1>3, <1>4 DEF EventTypes
  <2>2. /\ task.cmd = c /\ task.reply = reply /\ task.left = left /\ left # <<>>
        /\ task' = [cmd |-> c, reply |-> reply, left |-> Tail(left)] /\ reply # <<>>
        /\ m = Msg(c) /\ events = <<Head(left)>>
    BY <1>4, <2>1 DEF SameHand
  <2>3. task'.cmd = c /\ task'.reply = reply /\ task'.left = Tail(left)
    BY <2>2
  <2>4. /\ Tail(left) \in Seq(Events) /\ Len(left) \in Nat /\ Len(left) > 0
        /\ Len(Tail(left)) = Len(left) - 1
        /\ \A k \in 1..(Len(left) - 1) : Tail(left)[k] = left[k + 1]
        /\ Head(left) = left[1]
    BY <2>1, <2>2
  <2>5. \A event : event \in ToSet(left) <=> \E k \in 1..Len(left) : left[k] = event
    BY <2>1 DEF ToSet
  <2>6. \A event : event \in ToSet(Tail(left)) <=> \E k \in 1..(Len(left) - 1) : Tail(left)[k] = event
    <3>1. DOMAIN Tail(left) = 1..(Len(left) - 1)
      BY <2>4
    <3> QED
      BY <3>1 DEF ToSet
  <2>7. ASSUME NEW event PROVE event \in ToSet(left) <=> event \in ToSet(Tail(left)) \/ event = Head(left)
    <3>1. ASSUME NEW k \in 1..Len(left)
          PROVE  k = 1 \/ (k - 1 \in 1..(Len(left) - 1) /\ Tail(left)[k - 1] = left[k])
      <4>1. k = 1 \/ k - 1 \in 1..(Len(left) - 1)
        BY <2>4
      <4>2. k - 1 \in 1..(Len(left) - 1) => Tail(left)[k - 1] = left[(k - 1) + 1]
        BY <2>4
      <4>3. (k - 1) + 1 = k
        OBVIOUS
      <4> QED
        BY <4>1, <4>2, <4>3
    <3>2. ASSUME NEW k \in 1..(Len(left) - 1)
          PROVE  k + 1 \in 1..Len(left) /\ Tail(left)[k] = left[k + 1]
      BY <2>4
    <3>3. 1 \in 1..Len(left)
      BY <2>4
    <3>4. event \in ToSet(left) => event \in ToSet(Tail(left)) \/ event = Head(left)
      BY <2>4, <2>5, <2>6, <3>1, Zenon
    <3>5. event \in ToSet(Tail(left)) => event \in ToSet(left)
      BY <2>5, <2>6, <3>2, Zenon
    <3>6. event = Head(left) => event \in ToSet(left)
      BY <2>4, <2>5, <3>3, Zenon
    <3> QED
      BY <3>4, <3>5, <3>6
  <2>8. ToSet(events) = {Head(left)}
    <3>1. DOMAIN events = {1} /\ events[1] = Head(left)
      BY <2>2
    <3> QED
      BY <3>1 DEF ToSet
  <2>9. EventTypes'
    <3>1. task' \in [cmd : Commands, reply : Lines, left : Seq(Events)] /\ kind'[task'.cmd] # "LOCAL"
      BY <1>2, <1>3, <1>4, <2>1, <2>2, <2>3, <2>4 DEF EventTypes
    <3> QED
      BY <1>1, <1>2, <1>3, <3>1 DEF EventTypes
  <2>10. TaskInv'
    <3>1. /\ ToSet(left) \subseteq ToSet(reply)
          /\ Msg(c) \in moving => reply = <<"ACK">>
          /\ c \notin lost => Said(parked, Msg(c), reply, left)
      BY <1>3, <1>4, <2>2 DEF TaskInv
    <3>2. ToSet(Tail(left)) \subseteq ToSet(reply)
      BY <2>7, <3>1
    <3>3. ASSUME c \notin lost' PROVE Said(parked', Msg(c), reply, Tail(left))
      BY <1>1, <1>4, <2>2, <2>7, <2>8, <3>1, <3>3 DEF Said
    <3> QED
      BY <1>2, <2>3, <3>1, <3>2, <3>3 DEF TaskInv, Msg
  <2>11. UsedInv'
    BY <1>1, <1>2, <1>3, <1>4, <2>2, <2>3 DEF UsedInv, Unused, Msg
  <2>12. NotDone'
    BY <1>1, <1>3 DEF NotDone
  <2>13. MovingInv'
    BY <1>1, <1>2, <1>3, MovingKept DEF IInv, CountInv
  <2>14. task' # Nobody
    <3>1. task' \in [cmd : Commands, reply : Seq(Events), left : Seq(Events)]
      BY <2>1, <2>2, <2>4, LinesAreEvents
    <3> QED
      BY <3>1, NobodyAssumption
  <2>15. DuplicateAnswered'
    BY <1>1, <1>3, <2>2, <2>3, <2>14 DEF DuplicateAnswered
  <2> QED
    BY <1>1, <2>9, <2>10, <2>11, <2>12, <2>13, <2>15 DEF EventInv
<1>5. CASE task' = task
  <2>1. EventTypes'
    BY <1>1, <1>2, <1>3, <1>5 DEF EventTypes
  <2>2. UsedInv'
    BY <1>1, <1>2, <1>3, <1>5 DEF UsedInv, Unused, Msg
  <2>3. TaskInv'
    BY <1>1, <1>2, <1>3, <1>5 DEF TaskInv, Said, Msg
  <2>4. NotDone'
    BY <1>1, <1>3 DEF NotDone
  <2>5. MovingInv'
    BY <1>1, <1>2, <1>3, MovingKept DEF IInv, CountInv
  <2>6. DuplicateAnswered'
    BY <1>1, <1>3, <1>5 DEF DuplicateAnswered
  <2> QED
    BY <1>1, <2>1, <2>2, <2>3, <2>4, <2>5, <2>6 DEF EventInv
<1> QED
  BY <1>4, <1>5 DEF SameHand

(* A command that is taken anew has an id no event can name yet.             *)
LEMMA DeliverEvents ==
  ASSUME IInv, EventInv, NEW c \in Commands, Deliver(c)
  PROVE  EventInv' /\ NoEarlyStep
<1>1. /\ EventTypes /\ UsedInv /\ TaskInv /\ NotDone /\ MovingInv /\ DuplicateAnswered
      /\ CountTypes /\ StreamInv
  BY DEF EventInv, IInv, CountInv
<1>2. /\ task = Nobody /\ ~stream[c].open /\ c \notin pending
      /\ taken' = [taken EXCEPT ![c] = @ + 1] /\ lost' = lost \ {c}
      /\ UNCHANGED <<parked, pending, tracked, moving, active, serial>>
  BY FreshCommand DEF Deliver
<1>3. PICK k \in Kinds : /\ kind' = [kind EXCEPT ![c] = k]
                         /\ \/ \E type \in {"done", "error"} : AnswerLocally(c, type)
                            \/ Begin(c) /\ k # "LOCAL"
  BY DEF Deliver
<1>4. /\ taken[c] \in Nat /\ taken'[c] = taken[c] + 1
      /\ \A d \in Commands : d # c => taken'[d] = taken[d] /\ kind'[d] = kind[d]
      /\ kind' \in [Commands -> AllKinds]
        /\ kind'[c] = k
  BY <1>1, <1>2, <1>3, ServerAssumption DEF CountTypes, EventTypes
<1> DEFINE own == <<c, taken[c] + 1>>
<1>5. Unused(own) /\ own[1] = c /\ own[2] = taken[c] + 1
  BY <1>4 DEF Unused
<1>6. own \notin moving /\ (\A d \in Commands : d # c => Msg(d)' = Msg(d)) /\ Msg(c)' = own
  BY <1>1, <1>4, <1>5 DEF UsedInv, Msg
<1> HIDE DEF own
<1>7. /\ stream' = stream /\ task' = task
      \/ /\ stream' = [stream EXCEPT ![c] = Opened]
         /\ task' = [cmd |-> c, reply |-> <<>>, left |-> <<>>]
         /\ answered' = answered
  BY <1>3 DEF AnswerLocally, Begin, NoRecord
<1>8. NoEarlyStep
  <2>1. CASE answered' = answered
    BY <2>1 DEF NoEarlyStep
  <2>2. CASE \E type \in {"done", "error"} : AnswerLocally(c, type)
    <3>1. answered' = [answered EXCEPT ![c] = @ + 1]
      BY <2>2 DEF AnswerLocally, Record
    <3>2. \A d \in Commands : answered'[d] # answered[d] => d = c
      BY <1>1, <3>1 DEF CountTypes
    <3> QED
      BY <1>1, <1>2, <3>2 DEF NoEarlyStep, MovingInv, Unanswered
  <2> QED
    BY <1>3, <2>1, <2>2 DEF Begin, NoRecord
<1>9. ASSUME NEW m, Unused(m)', m \in Ids PROVE Unused(m)
  <2>1. m[1] \in Commands /\ m[2] \in Nat
    BY <1>9 DEF Unused, Ids
  <2>2. CASE taken'[m[1]] < m[2]
    BY <1>1, <1>4, <2>1, <2>2 DEF Unused, CountTypes
  <2>3. CASE task' # Nobody /\ task'.reply = <<>> /\ m = <<task'.cmd, taken'[task'.cmd]>>
    <3>1. task'.cmd = c
      BY <1>2, <1>7, <2>3
    <3>2. m = own
      BY <1>6, <2>3, <3>1 DEF Msg
    <3> QED
      BY <1>5, <3>2
  <2> QED
    BY <1>9, <2>2, <2>3 DEF Unused, Msg
<1>10. EventTypes'
  <2>1. <<>> \in Seq(Events) /\ <<>> \in Lines
    BY DEF Lines
  <2>2. ASSUME task' # Nobody
        PROVE  /\ task' \in [cmd : Commands, reply : Lines, left : Seq(Events)]
               /\ kind'[task'.cmd] # "LOCAL"
    <3>1. task' # task
      BY <1>2, <2>2
    <3>2. Begin(c) /\ k # "LOCAL"
      BY <1>3, <3>1 DEF AnswerLocally
    <3>3. task' = [cmd |-> c, reply |-> <<>>, left |-> <<>>]
      BY <3>2 DEF Begin
    <3> QED
      BY <1>4, <2>1, <3>2, <3>3
  <2> QED
    BY <1>1, <1>2, <1>4, <2>2 DEF EventTypes
<1>11. UsedInv'
  <2>1. \A m \in tracked \cup moving \cup active : m \in Ids
    BY <1>1 DEF EventTypes, Ids
  <2>2. \A i \in DOMAIN parked : parked[i].msg \in Ids
    <3>1. \A i \in DOMAIN parked : parked[i] \in Entry
      BY <1>1 DEF EventTypes
    <3> QED
      BY <3>1 DEF Entry
  <2>3. \A m \in tracked \cup moving \cup active : ~Unused(m)'
    BY <1>1, <1>9, <2>1 DEF UsedInv
  <2>4. ASSUME NEW i \in DOMAIN parked, NEW m, m = parked[i].msg PROVE ~Unused(m)'
    BY <1>1, <1>9, <2>2, <2>4 DEF UsedInv
  <2> QED
    BY <1>2, <2>3, <2>4 DEF UsedInv, Unused
<1>12. TaskInv'
  <2>1. ToSet(<<>>) = {}
    BY DEF ToSet
  <2>2. ASSUME task' # Nobody PROVE task'.cmd = c /\ task'.reply = <<>> /\ task'.left = <<>>
    BY <1>2, <1>7, <2>2
  <2>3. task' # Nobody => Msg(task.cmd)' = own
    BY <1>6, <2>2 DEF Msg
  <2> QED
    BY <1>2, <1>6, <2>1, <2>2, <2>3 DEF TaskInv, Said
<1>13. NotDone'
  BY <1>1, <1>2 DEF NotDone
<1>14. MovingInv'
  <2>1. ASSUME NEW d \in Commands, kind'[d] \in Motions, Msg(d)' \in moving'
        PROVE  Unanswered(d)' \/ EarlyHome(d)'
    <3>1. d # c
      BY <1>2, <1>6, <2>1
    <3>2. Msg(d) \in moving /\ kind[d] \in Motions
      BY <1>2, <1>4, <1>6, <2>1, <3>1
    <3>3. stream'[d] = stream[d]
      BY <1>1, <1>7, <3>1 DEF CountTypes
    <3> QED
      BY <1>1, <1>2, <1>4, <3>1, <3>2, <3>3 DEF MovingInv, Unanswered, EarlyHome
  <2> QED
    BY <2>1 DEF MovingInv
<1>15. DuplicateAnswered'
  <2>1. ASSUME NEW d \in Commands, stream'[d].open, task' # Nobody => task'.cmd # d
        PROVE  stream'[d].acked \/ d \in lost'
    <3>1. d # c
      <4>1. CASE stream' = stream
        BY <1>2, <2>1, <4>1
      <4>2. CASE task' = [cmd |-> c, reply |-> <<>>, left |-> <<>>]
        <5>1. task' \in [cmd : Commands, reply : Seq(Events), left : Seq(Events)]
          BY <4>2
        <5> QED
          BY <2>1, <4>2, <5>1, NobodyAssumption
      <4> QED
        BY <1>7, <4>1, <4>2
    <3>2. stream'[d] = stream[d]
      BY <1>1, <1>7, <3>1 DEF CountTypes
    <3> QED
      BY <1>1, <1>2, <2>1, <3>1, <3>2 DEF DuplicateAnswered
  <2> QED
    BY <2>1 DEF DuplicateAnswered
<1> QED
  BY <1>8, <1>10, <1>11, <1>12, <1>13, <1>14, <1>15 DEF EventInv

(* The handler makes the id of its command known, with nothing parked for it.  *)
LEMMA ExecuteEvents ==
  ASSUME IInv, EventInv, Execute
  PROVE  EventInv' /\ NoEarlyStep
<1>1. /\ EventTypes /\ UsedInv /\ TaskInv /\ NotDone /\ MovingInv /\ DuplicateAnswered
      /\ CountTypes /\ StreamInv
  BY DEF EventInv, IInv, CountInv
<1>2. PICK c : c = task.cmd
  OBVIOUS
<1>3. /\ task # Nobody /\ task.reply = <<>> /\ c \in Commands /\ stream[c].open
      /\ task \in [cmd : Commands, reply : Lines, left : Seq(Events)]
      /\ UNCHANGED <<kind, stream, parked, pending, serial, taken, answered, lost>>
  BY <1>1, <1>2 DEF Execute, EventTypes, StreamInv
<1>4. PICK reply \in Replies(kind[c]) :
        /\ task' = [task EXCEPT !.reply = reply, !.left = reply]
        /\ active' \in ActiveAfter(kind[c], reply, Msg(c))
        /\ IF kind[c] \in Motions /\ reply = <<"ACK">>
           THEN tracked' = tracked \cup {Msg(c)} /\ moving' = moving \cup {Msg(c)}
           ELSE UNCHANGED <<tracked, moving>>
  BY <1>2 DEF Execute
<1>5. reply \in Lines /\ reply # <<>> /\ reply \in Seq(Events)
  <2>1. kind[c] \in AllKinds
    BY <1>1, <1>3 DEF EventTypes
  <2>2. kind[c] # "LOCAL"
    BY <1>1, <1>2, <1>3 DEF EventTypes
  <2>3. \/ Replies(kind[c]) = {<<"ACK">>, <<"ERR">>}
        \/ Replies(kind[c]) = {<<"DONE">>, <<"ERR">>}
        \/ Replies(kind[c]) = {<<"ACK", "DONE">>}
        \/ Replies(kind[c]) = {<<"ACK">>, <<"DONE">>, <<"ERR">>}
    BY <2>1, <2>2, Zenon DEF Replies, Motions, AllKinds
  <2>4. /\ <<"ACK">> # <<>> /\ <<"ERR">> # <<>> /\ <<"DONE">> # <<>> /\ <<"ACK", "DONE">> # <<>>
    OBVIOUS
  <2>7. reply \in Lines /\ reply # <<>>
    BY <1>4, <2>3, <2>4, Zenon DEF Lines
  <2> QED
    BY <2>7, LinesAreEvents
<1> DEFINE own == Msg(c)
<1>6. /\ Unused(own) /\ own \in Ids /\ own \in Commands \X Nat
      /\ own[1] = c /\ own[2] = taken[c]
  BY <1>1, <1>2, <1>3 DEF Unused, Msg, CountTypes, Ids
<1>7. /\ own \notin tracked \cup moving \cup active
      /\ \A i \in DOMAIN parked : parked[i].msg # own
  BY <1>1, <1>6 DEF UsedInv
<1>8. /\ task' = [cmd |-> c, reply |-> reply, left |-> reply]
      /\ task'.cmd = c /\ task'.reply = reply /\ task'.left = reply
  BY <1>2, <1>3, <1>4
<1>9. Msg(c)' = own /\ \A d \in Commands : Msg(d)' = Msg(d)
  BY <1>3 DEF Msg
<1>10. /\ tracked' \subseteq tracked \cup {own} /\ moving' \subseteq moving \cup {own}
       /\ active' \subseteq active \cup {own}
       /\ own \in moving' => reply = <<"ACK">> /\ kind[c] \in Motions
       /\ own \in active' => kind[c] = "NET"
  <2>1. active' \in ActiveAfter(kind[c], reply, own)
    BY <1>4
  <2>2. CASE kind[c] # "NET"
    BY <1>4, <1>7, <2>1, <2>2 DEF ActiveAfter
  <2>3. CASE kind[c] = "NET"
    <3>1. reply \in {<<"ACK">>, <<"DONE">>, <<"ERR">>}
      BY <1>4, <2>3 DEF Replies, Motions
    <3>2. <<"ACK">> # <<"DONE">> /\ <<"ACK">> # <<"ERR">> /\ <<"DONE">> # <<"ERR">>
      OBVIOUS
    <3>3. active' \subseteq active \cup {own}
      BY <2>1, <2>3, <3>1, <3>2 DEF ActiveAfter
    <3> QED
      BY <1>4, <1>7, <2>3, <3>3
  <2> QED
    BY <2>2, <2>3
<1> HIDE DEF own
<1>11. ASSUME NEW m, Unused(m)' PROVE Unused(m) /\ m # own
  BY <1>1, <1>3, <1>5, <1>6, <1>8, <1>11 DEF Unused, Msg, CountTypes
<1>12. EventTypes'
  <2>1. tracked' \cup active' \subseteq Ids /\ moving' \subseteq Commands \X Nat
    BY <1>1, <1>6, <1>10 DEF EventTypes
  <2>2. task' \in [cmd : Commands, reply : Lines, left : Seq(Events)] /\ kind'[task'.cmd] # "LOCAL"
    BY <1>1, <1>2, <1>3, <1>5, <1>8 DEF EventTypes
  <2> QED
    BY <1>1, <1>3, <2>1, <2>2 DEF EventTypes
<1>13. UsedInv'
  <2>1. \A m \in tracked' \cup moving' \cup active' : ~Unused(m)'
    BY <1>1, <1>10, <1>11 DEF UsedInv
  <2>2. ASSUME NEW i \in DOMAIN parked, NEW m, m = parked[i].msg PROVE ~Unused(m)'
    BY <1>1, <1>11, <2>2 DEF UsedInv
  <2> QED
    BY <1>3, <2>1, <2>2 DEF UsedInv, Unused
<1>14. TaskInv'
  BY <1>3, <1>8, <1>9, <1>10 DEF TaskInv, Said, Msg
<1>15. NotDone'
  <2>1. active' \cap moving' = {}
    <3>1. active \cap moving = {} /\ "NET" \notin Motions
      BY <1>1 DEF NotDone, Motions
    <3> QED
      BY <1>7, <1>10, <3>1
  <2> QED
    BY <1>1, <1>3, <1>7, <1>10, <2>1 DEF NotDone
<1>16. MovingInv'
  <2>1. ASSUME NEW d \in Commands, kind[d] \in Motions, Msg(d) \in moving'
        PROVE  Unanswered(d) \/ EarlyHome(d)
    <3>1. CASE Msg(d) = own
      <4>1. d = c
        BY <1>6, <3>1 DEF Msg
      <4> QED
        BY <1>3, <4>1 DEF Unanswered
    <3>2. CASE Msg(d) # own
      BY <1>1, <1>10, <2>1, <3>2 DEF MovingInv
    <3> QED
      BY <3>1, <3>2
  <2> QED
    BY <1>3, <1>9, <2>1 DEF MovingInv, Unanswered, EarlyHome
<1>17. DuplicateAnswered'
  <2>1. task' \in [cmd : Commands, reply : Seq(Events), left : Seq(Events)]
    BY <1>3, <1>5, <1>8, LinesAreEvents
  <2>2. task' # Nobody
    BY <2>1, NobodyAssumption
  <2> QED
    BY <1>1, <1>2, <1>3, <1>8, <2>2 DEF DuplicateAnswered
<1>18. NoEarlyStep
  BY <1>3 DEF NoEarlyStep
<1> QED
  BY <1>12, <1>13, <1>14, <1>15, <1>16, <1>17, <1>18 DEF EventInv

(* The stream hears what was parked for it, or the reply settles it.  A reply  *)
(* that only acknowledges has its ACK parked, unless it was evicted; no DONE is *)
(* parked for a motion that goes on.                                        *)
LEMMA BindEvents ==
  ASSUME IInv, IInv', EventInv, Bind
  PROVE  EventInv' /\ NoEarlyStep
<1>1. /\ EventTypes /\ UsedInv /\ TaskInv /\ NotDone /\ MovingInv /\ DuplicateAnswered
      /\ CountTypes /\ StreamInv
  BY DEF EventInv, IInv, CountInv
<1>2. PICK c : c = task.cmd
  OBVIOUS
<1>3. /\ task # Nobody /\ task.reply # <<>> /\ task.left = <<>> /\ c \in Commands
      /\ stream[c].open /\ task' = Nobody /\ task.reply \in Lines
      /\ UNCHANGED <<taken, kind, tracked, moving, active, serial, lost>>
  BY <1>1, <1>2 DEF Bind, EventTypes, StreamInv
<1> DEFINE own == Msg(c)
           events == IF ParkedAt(own) = {} THEN <<>>
                     ELSE parked[CHOOSE i \in ParkedAt(own) : TRUE].events
<1>4. PICK h : h = BindHears(c)
  OBVIOUS
<1>5. /\ events \in Seq(Events)
      /\ \/ ParkedAt(own) = {} /\ events = <<>>
         \/ \E i \in DOMAIN parked : parked[i].msg = own /\ events = parked[i].events
  <2>1. CASE ParkedAt(own) = {}
    BY <2>1
  <2>2. CASE ParkedAt(own) # {}
    <3>1. PICK i : i \in ParkedAt(own) /\ i = CHOOSE j \in ParkedAt(own) : TRUE
      BY <2>2
    <3>2. i \in DOMAIN parked /\ parked[i].msg = own
      BY <3>1 DEF ParkedAt
    <3>3. parked[i] \in Entry
      BY <1>1, <3>2 DEF EventTypes
    <3>4. events = parked[i].events
      BY <2>2, <3>1
    <3> QED
      BY <3>2, <3>3, <3>4 DEF Entry
  <2> QED
    BY <2>1, <2>2
<1>6. /\ HeardShape(h)
      /\ stream[c].acked => h.acked
      /\ "ACK" \in ToSet(events) => h.acked
      /\ h.answers # <<>> <=> "DONE" \in ToSet(events)
  <2>1. h = Hearing(c, events)
    BY <1>4 DEF BindHears
  <2> HIDE DEF events
  <2> QED
    BY <1>5, <2>1, Hears
\* What the reply said is parked, unless it was evicted.
<1>7. ASSUME c \notin lost, NEW event \in ToSet(task.reply)
      PROVE  ParkedAt(own) # {} /\ event \in ToSet(events)
  <2>1. ToSet(task.left) = {}
    BY <1>3 DEF ToSet
  <2>2. Holds(parked, own, event)
    BY <1>1, <1>2, <1>3, <1>7, <2>1 DEF TaskInv, Said
  <2> HIDE DEF events
  <2> QED
    BY <1>5, <2>2 DEF Holds, ParkedAt
<1>8. own \in moving => task.reply = <<"ACK">> /\ "DONE" \notin ToSet(events)
  <2>1. own \in moving => task.reply = <<"ACK">>
    BY <1>1, <1>2, <1>3 DEF TaskInv
  <2>2. ToSet(<<>>) = {}
    BY DEF ToSet
  <2> HIDE DEF own, events
  <2> QED
    BY <1>1, <1>5, <2>1, <2>2 DEF NotDone
<1>9. /\ parked' \in Seq(Entry)
      /\ \A j \in DOMAIN parked' : \E k \in DOMAIN parked : parked'[j] = parked[k]
  <2>1. parked \in Seq(Entry)
    BY <1>1 DEF EventTypes
  <2>2. parked' = IF ParkedAt(own) = {} THEN parked
                  ELSE RemoveAt(parked, CHOOSE i \in ParkedAt(own) : TRUE)
    BY <1>2 DEF Bind
  <2>3. CASE ParkedAt(own) = {}
    BY <2>1, <2>2, <2>3
  <2>4. CASE ParkedAt(own) # {}
    <3>1. PICK i : i \in ParkedAt(own) /\ parked' = RemoveAt(parked, i)
      BY <2>2, <2>4
    <3>2. i \in DOMAIN parked
      BY <3>1 DEF ParkedAt
    <3> QED
      BY <2>1, <3>1, <3>2, ForgetsOne
  <2> QED
    BY <2>3, <2>4
<1> DEFINE handled == \/ h.answers # <<>> \/ Replied("DONE")
                      \/ ParkedAt(own) # {} /\ ~Replied("ERR")
<1>10. \/ handled /\ BindStream(c, h)
       \/ ~handled /\ Replied("ERR") /\ Reject(c)
       \/ ~handled /\ ~Replied("ERR") /\ AcceptUnheard(c)
  BY <1>2, <1>4, Zenon DEF Bind
<1>11. /\ ToSet(<<"ACK">>) = {"ACK"} /\ ToSet(<<"ERR">>) = {"ERR"} /\ ToSet(<<"DONE">>) = {"DONE"}
       /\ ToSet(<<"ACK", "DONE">>) = {"ACK", "DONE"}
  BY DEF ToSet
<1>12. task.reply \in {<<"ACK">>, <<"ERR">>, <<"DONE">>, <<"ACK", "DONE">>}
  BY <1>3 DEF Lines
<1> HIDE DEF own, events
<1>13. /\ \A d \in Commands : d # c => stream'[d] = stream[d] /\ answered'[d] = answered[d]
       /\ stream'[c].open => stream'[c].acked \/ c \in lost
       /\ answered'[c] # answered[c] /\ kind[c] \in Motions /\ own \in moving => EarlyHome(c)
  <2>1. ASSUME EraseStream(c) PROVE /\ \A d \in Commands : d # c => stream'[d] = stream[d]
                                    /\ ~stream'[c].open
    BY <1>1, <1>3, <2>1 DEF EraseStream, Closed, CountTypes
  <2>2. ASSUME NEW e, e.cmd = c, Record(e)
        PROVE  \A d \in Commands : d # c => answered'[d] = answered[d]
    BY <1>1, <2>2 DEF Record, CountTypes
  <2>3. CASE handled /\ BindStream(c, h)
    <3> DEFINE late == Replied("DONE") /\ Replied("ACK")
               g == IF late THEN [h EXCEPT !.acked = TRUE] ELSE h
    <3>1. StreamAfter(c, g)
      BY <2>3 DEF BindStream
    <3>2. g.answers = h.answers /\ (g.acked = IF late THEN TRUE ELSE h.acked)
      BY <1>6 DEF HeardShape
    <3> HIDE DEF g
    <3>3. CASE h.answers # <<>>
      <4>1. PICK e : e.cmd = c /\ EraseStream(c) /\ Record(e)
        BY <3>1, <3>2, <3>3 DEF StreamAfter
      <4>2. own \notin moving
        BY <1>6, <1>8, <3>3
      <4> QED
        BY <2>1, <2>2, <4>1, <4>2
    <3>4. CASE h.answers = <<>>
      <4>1. stream' = [stream EXCEPT ![c] = Bound(g)] /\ answered' = answered
        BY <3>1, <3>2, <3>4 DEF StreamAfter, NoRecord
      <4>2. stream'[c].acked = g.acked /\ \A d \in Commands : d # c => stream'[d] = stream[d]
        BY <1>1, <1>3, <4>1 DEF Bound, CountTypes
      <4>3. g.acked = TRUE \/ c \in lost
        <5>1. CASE task.reply = <<"ACK">>
          BY <1>6, <1>7, <1>11, <3>2, <5>1
        <5>2. CASE task.reply = <<"ERR">>
          BY <1>11, <2>3, <3>4, <5>2 DEF Replied
        <5>3. CASE task.reply = <<"DONE">>
          BY <1>6, <1>7, <1>11, <3>4, <5>3
        <5>4. CASE task.reply = <<"ACK", "DONE">>
          BY <1>11, <3>2, <5>4 DEF Replied
        <5> QED
          BY <1>12, <5>1, <5>2, <5>3, <5>4
      <4> QED
        BY <4>1, <4>2, <4>3
    <3> QED
      BY <3>3, <3>4
  <2>4. CASE ~handled /\ Replied("ERR") /\ Reject(c)
    <3>1. PICK e : e.cmd = c /\ EraseStream(c) /\ Record(e)
      BY <2>4 DEF Reject
    <3>2. own \notin moving
      BY <1>8, <1>11, <2>4 DEF Replied
    <3> QED
      BY <2>1, <2>2, <3>1, <3>2
  <2>5. CASE ~handled /\ ~Replied("ERR") /\ AcceptUnheard(c)
    <3>1. EraseStream(c)
      BY <2>5 DEF AcceptUnheard
    <3>2. CASE Awaiting(c)
      <4>1. answered' = answered
        BY <2>5, <3>2 DEF AcceptUnheard, NoRecord
      <4> QED
        BY <2>1, <3>1, <4>1
    <3>3. CASE ~Awaiting(c)
      <4>1. PICK e : e.cmd = c /\ Record(e)
        BY <2>5, <3>3 DEF AcceptUnheard
      <4>2. ASSUME kind[c] \in Motions, own \in moving PROVE EarlyHome(c)
        <5>1. kind[c] = "HOME"
          BY <3>3, <4>2 DEF Awaiting, Motions, own
        <5>2. "ACK" \in ToSet(task.reply)
          BY <1>8, <1>11, <4>2
        <5>3. ParkedAt(own) = {}
          BY <2>5
        <5>4. c \in lost
          BY <1>7, <5>2, <5>3
        <5> QED
          BY <5>1, <5>4 DEF EarlyHome
      <4> QED
        BY <2>1, <2>2, <3>1, <4>1, <4>2
    <3> QED
      BY <3>2, <3>3
  <2> QED
    BY <1>10, <2>3, <2>4, <2>5
<1>14. NoEarlyStep
  BY <1>13 DEF NoEarlyStep, own
<1>15. EventTypes'
  BY <1>1, <1>3, <1>9 DEF EventTypes
<1>16. ASSUME NEW m, Unused(m)' PROVE Unused(m)
  BY <1>3, <1>16 DEF Unused
<1>17. UsedInv'
  <2>1. \A m \in tracked' \cup moving' \cup active' : ~Unused(m)'
    BY <1>1, <1>3, <1>16 DEF UsedInv
  <2>2. ASSUME NEW j \in DOMAIN parked', NEW m, m = parked'[j].msg PROVE ~Unused(m)'
    BY <1>1, <1>9, <1>16, <2>2 DEF UsedInv
  <2> QED
    BY <2>1, <2>2 DEF UsedInv, Unused
<1>18. TaskInv'
  BY <1>3 DEF TaskInv
<1>19. NotDone'
  BY <1>1, <1>3, <1>9 DEF NotDone
<1>20. MovingInv'
  BY <1>1, <1>3, <1>14, MovingKept DEF IInv, CountInv
<1>21. DuplicateAnswered'
  <2>1. ASSUME NEW d \in Commands, stream'[d].open PROVE stream'[d].acked \/ d \in lost'
    BY <1>1, <1>2, <1>3, <1>13, <2>1 DEF DuplicateAnswered
  <2> QED
    BY <2>1 DEF DuplicateAnswered
<1> QED
  BY <1>14, <1>15, <1>17, <1>18, <1>19, <1>20, <1>21 DEF EventInv

(* A step that moves no event, no stream and no id.                          *)
LEMMA UntouchedEvents ==
  ASSUME IInv, IInv', EventInv, NoEarlyStep,
         UNCHANGED <<kind, serial, task, parked, tracked, active, taken, lost, stream>>,
         moving' \subseteq moving
  PROVE  EventInv'
<1>1. EventTypes /\ UsedInv /\ TaskInv /\ NotDone /\ MovingInv /\ DuplicateAnswered
  BY DEF EventInv
<1>2. EventTypes'
  BY <1>1 DEF EventTypes
<1>3. UsedInv'
  BY <1>1 DEF UsedInv, Unused, Msg
<1>4. TaskInv'
  BY <1>1 DEF TaskInv, Said, Msg
<1>5. NotDone'
  BY <1>1 DEF NotDone
<1>6. MovingInv'
  BY <1>1, MovingKept DEF IInv, CountInv
<1>7. DuplicateAnswered'
  BY <1>1 DEF DuplicateAnswered
<1> QED
  BY <1>2, <1>3, <1>4, <1>5, <1>6, <1>7 DEF EventInv

LEMMA EventInit == ServerInit => EventInv
<1> SUFFICES ASSUME ServerInit PROVE EventInv
  OBVIOUS
<1>1. EventTypes
  BY DEF ServerInit, EventTypes, AllKinds
<1>2. UsedInv /\ NotDone
  BY DEF ServerInit, UsedInv, NotDone
<1>3. TaskInv /\ MovingInv /\ DuplicateAnswered
  BY DEF ServerInit, TaskInv, MovingInv, DuplicateAnswered, Closed
<1> QED
  BY <1>1, <1>2, <1>3 DEF EventInv

LEMMA EventStep ==
  ASSUME IInv, IInv', EventInv, [ServerNext]_serverVars
  PROVE  EventInv' /\ NoEarlyStep
<1>1. EventTypes /\ UsedInv /\ TaskInv /\ NotDone /\ CountTypes /\ StreamInv
  BY DEF EventInv, IInv, CountInv
<1>2. \A event \in Events : <<event>> \in Seq(Events) /\ ToSet(<<event>>) = {event}
  BY DEF ToSet
<1>3. CASE \E c \in Commands : Redeliver(c)
  <2>1. /\ UNCHANGED <<kind, serial, task, parked, tracked, active, taken, lost, stream>>
        /\ moving' = moving /\ answered' = answered
    BY <1>3 DEF Redeliver
  <2>2. NoEarlyStep
    BY <2>1 DEF NoEarlyStep
  <2> QED
    BY <2>1, <2>2, UntouchedEvents
<1>4. ASSUME NEW c \in Commands, FinishPending(c) PROVE EventInv' /\ NoEarlyStep
  <2>1. /\ UNCHANGED <<kind, serial, task, parked, tracked, active, taken, lost, stream>>
        /\ moving' = moving /\ Msg(c) \notin moving
    BY <1>4 DEF FinishPending
  <2>2. answered' = [answered EXCEPT ![c] = @ + 1]
    BY <1>4 DEF FinishPending, Record
  <2>3. NoEarlyStep
    BY <1>1, <2>1, <2>2 DEF NoEarlyStep, CountTypes
  <2> QED
    BY <2>1, <2>3, UntouchedEvents
<1>5. CASE Emit
  <2>1. PICK c, reply, left : /\ task = [cmd |-> c, reply |-> reply, left |-> left] /\ c \in Commands
                              /\ reply \in Lines /\ left \in Seq(Events) /\ left # <<>>
    BY <1>1, <1>5 DEF Emit, EventTypes
  <2>2. task.cmd = c /\ task.reply = reply /\ task.left = left
    BY <2>1
  <2>3. /\ task # Nobody /\ task' = [cmd |-> c, reply |-> reply, left |-> Tail(left)]
        /\ Arrives(Msg(c), <<Head(left)>>)
        /\ UNCHANGED <<tracked, moving, active, serial>>
    BY <1>5, <2>1, <2>2 DEF Emit
  <2>4. Head(left) \in Events /\ Head(left) \in ToSet(left)
    BY <2>1 DEF ToSet
  <2>5. Head(left) \in ToSet(reply) /\ (Msg(c) \in moving => reply = <<"ACK">>)
    BY <1>1, <2>2, <2>3, <2>4 DEF TaskInv
  <2>6. reply # <<>>
    BY <2>5 DEF ToSet
  <2>7. Msg(c) \in Ids /\ ~Unused(Msg(c))
    <3>1. taken[c] \in Nat
      BY <1>1, <2>1 DEF CountTypes
    <3> QED
      BY <2>1, <2>2, <2>6, <3>1 DEF Ids, Unused, Msg
  <2>8. ASSUME Msg(c) \in moving PROVE "DONE" \notin ToSet(<<Head(left)>>)
    <3>1. ToSet(<<"ACK">>) = {"ACK"}
      BY DEF ToSet
    <3>2. Head(left) = "ACK"
      BY <2>5, <2>8, <3>1
    <3> QED
      BY <3>1, <3>2
  <2>9. SameHand
    BY <2>1, <2>2, <2>3, <2>6 DEF SameHand
  <2>10. <<Head(left)>> \in Seq(Events) /\ serial' \in Nat
    BY <1>1, <1>2, <2>3, <2>4 DEF EventTypes
  <2> QED
    BY <2>2, <2>3, <2>7, <2>8, <2>9, <2>10, ArrivesEvents
<1>6. ASSUME NEW m \in MsgIds, TrackerDone(m) PROVE EventInv' /\ NoEarlyStep
  <2>1. /\ m \in tracked /\ m \notin moving /\ Arrives(m, <<"DONE">>) /\ tracked' \subseteq tracked
        /\ UNCHANGED <<task, moving, active, serial>>
    BY <1>6 DEF TrackerDone
  <2>2. m \in Ids /\ ~Unused(m) /\ serial' \in Nat /\ <<"DONE">> \in Seq(Events)
    BY <1>1, <1>2, <2>1 DEF EventTypes, UsedInv, Events
  <2>3. SameHand
    BY <2>1 DEF SameHand
  <2> QED
    BY <2>1, <2>2, <2>3, ArrivesEvents
<1>7. ASSUME NEW m \in MsgIds, MotionEnds(m) PROVE EventInv' /\ NoEarlyStep
  <2>1. /\ UNCHANGED <<kind, serial, task, parked, tracked, active, taken, lost, stream>>
        /\ moving' \subseteq moving /\ answered' = answered
    BY <1>7 DEF MotionEnds
  <2>2. NoEarlyStep
    BY <2>1 DEF NoEarlyStep
  <2> QED
    BY <2>1, <2>2, UntouchedEvents
<1>8. CASE SerialCommand
  <2> DEFINE m == <<Serial, serial + 1>>
  <2>1. /\ Arrives(m, <<"DONE">>) /\ serial' = serial + 1
        /\ UNCHANGED <<task, tracked, moving, active>>
    BY <1>8 DEF SerialCommand
  <2>2. m \in Ids /\ serial' \in Nat
    BY <1>1, <2>1 DEF EventTypes, Ids
  <2>3. m \notin moving /\ ~Unused(m)
    BY <1>1, <2>2, ServerAssumption DEF EventTypes, Unused
  <2>4. SameHand /\ <<"DONE">> \in Seq(Events)
    BY <1>2, <2>1 DEF SameHand, Events
  <2> HIDE DEF m
  <2> QED
    BY <2>1, <2>2, <2>3, <2>4, ArrivesEvents
<1>9. ASSUME NEW connected \in BOOLEAN, NetSettles(connected) PROVE EventInv' /\ NoEarlyStep
  <2> DEFINE events == IF connected THEN <<"DONE">> ELSE <<"ERR", "DONE">>
  <2>1. PICK m \in active : Arrives(m, events)
    BY <1>9 DEF NetSettles
  <2>2. active' \subseteq active /\ UNCHANGED <<task, moving, tracked, serial>>
    BY <1>9 DEF NetSettles
  <2>3. m \in Ids /\ ~Unused(m) /\ m \notin moving /\ serial' \in Nat
    BY <1>1, <2>2 DEF EventTypes, UsedInv, NotDone
  <2>4. events \in Seq(Events)
    <3>1. "ERR" \in Events /\ "DONE" \in Events
      BY DEF Events
    <3>2. <<"DONE">> \in Seq(Events) /\ <<"ERR", "DONE">> \in Seq(Events)
      BY <3>1
    <3> QED
      BY <3>2
  <2>5. SameHand
    BY <2>2 DEF SameHand
  <2> HIDE DEF events
  <2> QED
    BY <2>1, <2>2, <2>3, <2>4, <2>5, ArrivesEvents
<1>10. CASE UNCHANGED serverVars
  <2>1. /\ UNCHANGED <<kind, serial, task, parked, tracked, active, taken, lost, stream>>
        /\ moving' = moving /\ answered' = answered
    BY <1>10 DEF serverVars
  <2>2. NoEarlyStep
    BY <2>1 DEF NoEarlyStep
  <2> QED
    BY <2>1, <2>2, UntouchedEvents
<1> QED
  BY <1>3, <1>4, <1>5, <1>6, <1>7, <1>8, <1>9, <1>10, DeliverEvents, ExecuteEvents, BindEvents, Zenon
  DEF ServerNext, TaskStep

(* The invariant of the events holds in every behaviour.                     *)
THEOREM EventsInOrder == ServerSpec => [](IInv /\ EventInv)
<1>1. IInv /\ EventInv /\ [ServerNext]_serverVars => (IInv /\ EventInv)'
  BY NextInv, EventStep
<1> QED
  BY <1>1, InitInv, EventInit, PTL DEF ServerSpec

(* A duplicate of a command that is still running finds an ACK to replay once *)
(* the callback has returned, unless the events that carried it were evicted   *)
(* (handleDuplicateCommand, bindStreamToMessageId), for any capacities.       *)
THEOREM NeverSilent == ServerSpec => []DuplicateAnswered
<1>1. EventInv => DuplicateAnswered
  BY DEF EventInv
<1> QED
  BY <1>1, EventsInOrder, PTL

(* No motion is completed while its motors move, but for a HOME whose events   *)
(* were evicted (processStreamEvent, executeDispatch, finalizeCompleted).     *)
THEOREM DoneAfterMotion == ServerSpec => NoEarlyDone
<1>1. IInv /\ EventInv /\ [ServerNext]_serverVars /\ IInv' =>
        [\A c \in Commands :
           answered'[c] # answered[c] /\ kind[c] \in Motions /\ Msg(c) \in moving =>
             kind[c] = "HOME" /\ c \in lost]_serverVars
  BY EventStep DEF NoEarlyStep, EarlyHome
<1> QED
  BY <1>1, EventsInOrder, PTL DEF ServerSpec, NoEarlyDone

=============================================================================

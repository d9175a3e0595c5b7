---------------------------- MODULE CommandServer ----------------------------
(***************************************************************************)
(* The MQTT command server (lib/mqtt_commands/src/MqttCommandServer.cpp,    *)
(* "MCS"): how a cmd_id is executed once, acknowledged and completed, while *)
(* QoS 1 redelivers it and the events it waits for come from elsewhere.     *)
(*                                                                         *)
(* Two tasks meet here without a lock.  The MQTT client's task runs         *)
(* handleIncoming; the loop task runs serial commands, the completion       *)
(* tracker, the network state and finalizeCompleted.  An event names the    *)
(* message id of the handler, which the server learns only from the         *)
(* handler's reply: until then events are parked (orphan_events_).          *)
(*                                                                         *)
(* Single container operations are atomic here; what a torn map does is not *)
(* modelled.  Payloads are reduced to type, execution and "has errors".     *)
(***************************************************************************)
EXTENDS SequencesExt, Naturals

CONSTANTS
  Commands,   \* cmd_ids clients use
  Kinds,      \* kinds of command in the instance, of AllKinds
  Serial,     \* stands for the serial console in message ids
  Nobody,     \* the MQTT task is idle
  CacheSize,  \* Config::duplicate_cache
  OrphanCap,  \* kMaxOrphanCommands
  MaxRuns,    \* bound: executions of one cmd_id
  MaxSerial   \* bound: serial commands

\* LOCAL: HELP or an invalid payload, answered without the processor.
\* INSTANT: WAKE, SLEEP, SET, GET, NET:STATUS.  LIST: GET LAST_OP_TIMING.
AllKinds == {"LOCAL", "INSTANT", "LIST", "MOVE", "HOME", "NET"}
Motions  == {"MOVE", "HOME"}
Events   == {"ACK", "ERR", "DONE"}   \* of EventType; others settle nothing

ASSUME ServerAssumption ==
  /\ Serial \notin Commands /\ Kinds \subseteq AllKinds
  /\ CacheSize \in Nat \ {0} /\ OrphanCap \in Nat \ {0}
  /\ MaxRuns \in Nat \ {0} /\ MaxSerial \in Nat

ASSUME NobodyAssumption ==
  Nobody \notin [cmd : Commands, reply : Seq(Events), left : Seq(Events)]

VARIABLES
  task,      \* the MQTT client's task: Nobody, or the command it handles
  kind,      \* kind of the latest execution of a cmd_id
  stream,    \* streams_
  parked,    \* orphan_order_ and orphan_events_, oldest first
  pending,   \* pending_
  recent,    \* recent_, oldest first
  tracked,   \* CompletionTracker::pending_
  moving,    \* message ids of motions in progress
  active,    \* message_id::ActiveId, as a set of at most one
  serial,    \* serial commands so far
  sent,      \* what the last step published, in order
  taken,     \* history: executions of a cmd_id
  answered,  \* history: fresh completions of a cmd_id
  since,     \* history: completions of others since its last, up to CacheSize
  lost       \* history: commands whose parked events were evicted

serverVars == <<task, kind, stream, parked, pending, recent, tracked, moving,
                active, serial, sent, taken, answered, since, lost>>

MsgIds   == (Commands \X (1..MaxRuns)) \cup ({Serial} \X (1..MaxSerial))
Msg(c)   == <<c, taken[c]>>
Closed   == [open |-> FALSE, bound |-> FALSE, acked |-> FALSE, errors |-> FALSE]
Opened   == [Closed EXCEPT !.open = TRUE]
Bound(h) == [open |-> TRUE, bound |-> TRUE, acked |-> h.acked, errors |-> h.errors]

ServerInit ==
  /\ task = Nobody /\ kind = [c \in Commands |-> "LOCAL"]
  /\ stream = [c \in Commands |-> Closed]
  /\ parked = <<>> /\ pending = {} /\ recent = <<>> /\ tracked = {}
  /\ moving = {} /\ active = {} /\ serial = 0 /\ sent = <<>> /\ lost = {}
  /\ taken = [c \in Commands |-> 0] /\ answered = taken /\ since = taken

-----------------------------------------------------------------------------
(* Publishing and remembering.                                              *)

Message(c, type, errors) == [cmd |-> c, run |-> taken'[c], type |-> type, errors |-> errors]
Ack(c) == Message(c, "ack", FALSE)

Remembered(entry) ==
  IF Len(recent) < CacheSize THEN Append(recent, entry) ELSE Append(Tail(recent), entry)

\* publishCompletion and recordCompleted: one more answer, entry.answer.
Record(entry) ==
  /\ recent' = Remembered(entry)
  /\ answered' = [answered EXCEPT ![entry.cmd] = @ + 1]
  /\ since' = [c \in Commands |-> IF c = entry.cmd THEN 0
                                  ELSE IF since[c] < CacheSize THEN since[c] + 1
                                  ELSE since[c]]
NoRecord == UNCHANGED <<recent, answered, since>>

-----------------------------------------------------------------------------
(* A stream hears events (processStreamEvent, one after the other).  h is   *)
(* what the stream knows, what it published, and its answer, at most one.   *)

NoAckTwice(h, c) == IF h.acked THEN <<>> ELSE <<Ack(c)>>

Heard(h, c, event) ==
  CASE event = "ACK" ->
         [h EXCEPT !.acked = TRUE, !.out = @ \o NoAckTwice(h, c)]
    [] event = "ERR" -> [h EXCEPT !.errors = TRUE]
    [] event = "DONE" ->
         IF h.answers # <<>> THEN h
         ELSE LET answer == Message(c, "done", h.errors)
              IN [h EXCEPT !.out = Append(@, answer),
                           !.answers = <<[ack |-> h.acked, answer |-> answer]>>]

Unheard(c) == [acked |-> stream[c].acked, errors |-> stream[c].errors,
               out |-> <<>>, answers |-> <<>>]

Hearing(c, events) ==
  LET after[n \in 0..Len(events)] ==
        IF n = 0 THEN Unheard(c) ELSE Heard(after[n - 1], c, events[n])
  IN after[Len(events)]

KeepStream(c)  == UNCHANGED stream   \* mutant: the stream is not erased
EraseStream(c) == stream' = [stream EXCEPT ![c] = Closed]

\* A stream that has published its completion is erased.
StreamAfter(c, h) ==
  IF h.answers # <<>>
  THEN /\ EraseStream(c)
       /\ Record([cmd |-> c, ack |-> h.answers[1].ack, answer |-> h.answers[1].answer])
  ELSE stream' = [stream EXCEPT ![c] = Bound(h)] /\ NoRecord

-----------------------------------------------------------------------------
(* handleDispatcherEvent.                                                   *)

ParkedAt(m) == {i \in DOMAIN parked : parked[i].msg = m}

\* An entry that is evicted matters if its command is still being handled.
Evicted(entry) ==
  IF task # Nobody /\ entry.msg = Msg(task.cmd) THEN lost \cup {task.cmd} ELSE lost

Park(m, events) ==
  LET queue == Append(parked, [msg |-> m, events |-> events])
  IN IF ParkedAt(m) # {}
     THEN /\ parked' = [i \in DOMAIN parked |->
                          IF i \in ParkedAt(m) THEN [parked[i] EXCEPT !.events = @ \o events]
                          ELSE parked[i]]
          /\ lost' = lost
     ELSE IF Len(queue) <= OrphanCap THEN parked' = queue /\ lost' = lost
     ELSE parked' = Tail(queue) /\ lost' = Evicted(Head(queue))

ListeningDirect(m) == {}   \* mutant: streams are looked up by cmd_id only
Listening(m) == {c \in Commands : stream[c].bound /\ Msg(c) = m}

Arrives(m, events) ==
  /\ UNCHANGED <<kind, pending, taken>>
  /\ \/ \E c \in Listening(m) :
          LET h == Hearing(c, events)
          IN StreamAfter(c, h) /\ sent' = h.out /\ UNCHANGED <<parked, lost>>
     \/ /\ Listening(m) = {}
        /\ Park(m, events) /\ sent' = <<>> /\ NoRecord /\ UNCHANGED stream

-----------------------------------------------------------------------------
(* The MQTT client's task: handleIncoming.                                  *)

Cached(c) == {i \in DOMAIN recent : recent[i].cmd = c}

IsDuplicateOfStream(c) == stream[c].open \/ Cached(c) # {}   \* mutant: forgets pending_
IsDuplicate(c) == stream[c].open \/ c \in pending \/ Cached(c) # {}

\* handleDuplicateCommand: replays what is there, changes nothing else.
Replay(c) ==
  IF stream[c].open THEN IF stream[c].acked THEN <<Ack(c)>> ELSE <<>>
  ELSE IF c \in pending THEN <<Ack(c)>>
  ELSE LET entry == recent[CHOOSE i \in Cached(c) : \A j \in Cached(c) : i <= j]
           ack   == [entry.answer EXCEPT !.type = "ack", !.errors = FALSE]
       IN (IF entry.ack THEN <<ack>> ELSE <<>>) \o <<entry.answer>>

Redeliver(c) ==
  /\ task = Nobody /\ IsDuplicate(c)
  /\ UNCHANGED taken /\ sent' = Replay(c)
  /\ UNCHANGED <<task, kind, stream, parked, pending, recent, tracked, moving,
                 active, serial, answered, since, lost>>

\* respondWithHelp, respondWithError.
AnswerLocally(c, type) ==
  /\ Record([cmd |-> c, ack |-> FALSE, answer |-> Message(c, type, type = "error")])
  /\ sent' = <<Message(c, type, type = "error")>>
  /\ UNCHANGED <<task, stream>>

\* ensureStream, up to the call of the processor.
Begin(c) ==
  /\ stream' = [stream EXCEPT ![c] = Opened]
  /\ task' = [cmd |-> c, reply |-> <<>>, left |-> <<>>]
  /\ sent' = <<>> /\ NoRecord

Deliver(c) ==
  /\ task = Nobody /\ ~IsDuplicate(c) /\ taken[c] < MaxRuns
  /\ taken' = [taken EXCEPT ![c] = @ + 1] /\ lost' = lost \ {c}
  /\ \E k \in Kinds :
       /\ kind' = [kind EXCEPT ![c] = k]
       /\ IF k = "LOCAL" THEN \E type \in {"done", "error"} : AnswerLocally(c, type)
          ELSE Begin(c)
  /\ UNCHANGED <<parked, pending, tracked, moving, active, serial>>

\* What the handlers reply, line by line.  LOCAL never gets here.
Replies(k) ==
  CASE k \in Motions -> {<<"ACK">>, <<"ERR">>}
    [] k = "INSTANT" -> {<<"DONE">>, <<"ERR">>}
    [] k = "LIST"    -> {<<"ACK", "DONE">>}
    [] k = "NET"     -> {<<"ACK">>, <<"DONE">>, <<"ERR">>}

\* A NET command that goes on makes its id the active one; one that fails to
\* save leaves it active; RESET in AP mode clears it.
ActiveAfter(k, reply, m) ==
  IF k # "NET" THEN {active}
  ELSE CASE reply = <<"ACK">>  -> {{m}}
         [] reply = <<"ERR">>  -> {active, {m}}
         [] reply = <<"DONE">> -> {active, {}}

\* The handler acts, then its lines are still to be emitted.
Execute ==
  /\ task # Nobody /\ task.reply = <<>>
  /\ LET c == task.cmd
     IN \E reply \in Replies(kind[c]) :
          /\ task' = [task EXCEPT !.reply = reply, !.left = reply]
          /\ active' \in ActiveAfter(kind[c], reply, Msg(c))
          /\ IF kind[c] \in Motions /\ reply = <<"ACK">>
             THEN tracked' = tracked \cup {Msg(c)} /\ moving' = moving \cup {Msg(c)}
             ELSE UNCHANGED <<tracked, moving>>
  /\ sent' = <<>>
  /\ UNCHANGED <<kind, stream, parked, pending, recent, serial, taken, answered, since, lost>>

Emit ==
  /\ task # Nobody /\ task.left # <<>>
  /\ task' = [task EXCEPT !.left = Tail(@)]
  /\ Arrives(Msg(task.cmd), <<Head(task.left)>>)
  /\ UNCHANGED <<tracked, moving, active, serial>>

-----------------------------------------------------------------------------
(* streamConsumesResponse and executeDispatch: the server learns the        *)
(* message id, hears what was parked for it, and settles the rest.          *)

Replied(line) == line \in ToSet(task.reply)

BindKeepsParked(c) ==   \* mutant: parked events are never looked up
  Hearing(c, <<>>)
BindHears(c) ==
  Hearing(c, IF ParkedAt(Msg(c)) = {} THEN <<>>
             ELSE parked[CHOOSE i \in ParkedAt(Msg(c)) : TRUE].events)

\* A reply that says DONE publishes the ACK it may hold, if nothing did.
BindStream(c, h) ==
  LET late == Replied("DONE") /\ Replied("ACK")
  IN /\ StreamAfter(c, IF late THEN [h EXCEPT !.acked = TRUE] ELSE h)
     /\ sent' = IF late THEN h.out \o NoAckTwice(h, c) ELSE h.out
     /\ UNCHANGED pending

Reject(c) ==
  LET answer == Message(c, "error", TRUE)
  IN /\ EraseStream(c) /\ sent' = <<answer>> /\ UNCHANGED pending
     /\ Record([cmd |-> c, ack |-> FALSE, answer |-> answer])

NeverAwaiting(c) == FALSE   \* mutant
Awaiting(c) == kind[c] = "MOVE" /\ Msg(c) \in moving

\* Accepted, but its events were evicted before they could be heard.
AcceptUnheard(c) ==
  LET answer == Message(c, "done", FALSE)
  IN /\ EraseStream(c)
     /\ IF Awaiting(c)
        THEN pending' = pending \cup {c} /\ sent' = <<Ack(c)>> /\ NoRecord
        ELSE /\ Record([cmd |-> c, ack |-> TRUE, answer |-> answer])
             /\ sent' = <<Ack(c), answer>> /\ UNCHANGED pending

Bind ==
  /\ task # Nobody /\ task.reply # <<>> /\ task.left = <<>>
  /\ UNCHANGED taken
  /\ LET c == task.cmd
         h == BindHears(c)
         handled == \/ h.answers # <<>> \/ Replied("DONE")
                    \/ ParkedAt(Msg(c)) # {} /\ ~Replied("ERR")
     IN /\ \/ handled /\ BindStream(c, h)
           \/ ~handled /\ Replied("ERR") /\ Reject(c)
           \/ ~handled /\ ~Replied("ERR") /\ AcceptUnheard(c)
        /\ parked' = IF ParkedAt(Msg(c)) = {} THEN parked
                     ELSE RemoveAt(parked, CHOOSE i \in ParkedAt(Msg(c)) : TRUE)
  /\ task' = Nobody
  /\ UNCHANGED <<kind, tracked, moving, active, serial, lost>>

-----------------------------------------------------------------------------
(* The loop task.                                                           *)

\* CompletionTracker::Tick.
TrackerDone(m) ==
  /\ m \in tracked \ moving /\ tracked' = tracked \ {m}
  /\ Arrives(m, <<"DONE">>)
  /\ UNCHANGED <<task, moving, active, serial>>

\* finalizeCompleted, for one entry.
FinishPending(c) ==
  /\ c \in pending /\ Msg(c) \notin moving /\ UNCHANGED taken
  /\ pending' = pending \ {c}
  /\ Record([cmd |-> c, ack |-> TRUE, answer |-> Message(c, "done", FALSE)])
  /\ sent' = <<Message(c, "done", FALSE)>>
  /\ UNCHANGED <<task, kind, stream, parked, tracked, moving, active, serial, lost>>

\* A command from the serial console: its events name an id of their own.
SerialCommand ==
  /\ serial < MaxSerial /\ serial' = serial + 1
  /\ Arrives(<<Serial, serial'>>, <<"DONE">>)
  /\ UNCHANGED <<task, tracked, moving, active>>

\* main.cpp: the network reaches a state, and ends the active NET command.
NetSettles(connected) ==
  /\ active' = {}
  /\ \E m \in active : Arrives(m, IF connected THEN <<"DONE">> ELSE <<"ERR", "DONE">>)
  /\ UNCHANGED <<task, tracked, moving, serial>>

\* External: the motors arrive.
MotionEnds(m) ==
  /\ m \in moving /\ moving' = moving \ {m} /\ sent' = <<>>
  /\ UNCHANGED <<task, kind, stream, parked, pending, recent, tracked, active,
                 serial, taken, answered, since, lost>>

TaskStep == Execute \/ Emit \/ Bind

ServerNext ==
  \/ \E c \in Commands : Deliver(c) \/ Redeliver(c) \/ FinishPending(c)
  \/ TaskStep
  \/ \E m \in MsgIds : TrackerDone(m) \/ MotionEnds(m)
  \/ SerialCommand
  \/ \E connected \in BOOLEAN : NetSettles(connected)

ServerSpec == ServerInit /\ [][ServerNext]_serverVars

ServerFairness ==
  /\ WF_serverVars(TaskStep)
  /\ \A m \in MsgIds : WF_serverVars(TrackerDone(m)) /\ WF_serverVars(MotionEnds(m))
  /\ \A c \in Commands : WF_serverVars(FinishPending(c))

FairServerSpec == ServerSpec /\ ServerFairness
-----------------------------------------------------------------------------
(* Properties.                                                              *)

Unanswered(c) == stream[c].open \/ c \in pending

\* Whatever way a command takes (stream, fallback list, local answer), each
\* execution gets exactly one completion of its own, and none is kept in two
\* places (handleIncoming, bindStreamToMessageId, finalizeCompleted).
OneAnswer ==
  \A c \in Commands :
    /\ taken[c] = answered[c] + (IF Unanswered(c) THEN 1 ELSE 0)
    /\ ~(stream[c].open /\ c \in pending)

\* A redelivered command is executed again only if its completion was
\* published and as many others as the cache holds came after it.
OncePerMemory ==
  [][\A c \in Commands : taken'[c] # taken[c] /\ taken[c] > 0 =>
       answered[c] = taken[c] /\ since[c] >= CacheSize]_serverVars

\* No motion is completed while its motors move: the completion waits for the
\* tracker's DONE or for finalizeCompleted.  A HOME whose events were evicted
\* is the exception, since the fallback waits for MOVE only.
NoEarlyDone ==
  [][\A c \in Commands :
       answered'[c] # answered[c] /\ kind[c] \in Motions /\ Msg(c) \in moving =>
         kind[c] = "HOME" /\ c \in lost]_serverVars

\* A duplicate of a command that is still running is never met with silence:
\* once the callback has returned, an open stream has an ACK to replay, unless
\* the events that carried it were evicted.
DuplicateAnswered ==
  \A c \in Commands :
    stream[c].open /\ (task # Nobody => task.cmd # c) => stream[c].acked \/ c \in lost

\* Every command is completed.  Exempt are NET commands, which end only if the
\* network reaches a state with their id still active, and streams whose DONE
\* may have been evicted before they were bound (not the fallback's entries).
EveryAnswered ==
  \A c \in Commands :
    Unanswered(c) ~> \/ ~Unanswered(c) \/ kind[c] = "NET"
                     \/ c \in lost /\ c \notin pending
=============================================================================

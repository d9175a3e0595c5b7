--------------------------- MODULE MotionCompletion ---------------------------
(***************************************************************************)
(* The motor controller composed with the completion tracker               *)
(* (lib/transport/src/CompletionTracker.cpp) as one pass of the main loop  *)
(* runs them (SerialConsole.cpp: ProcessSerialInput, then TickBackends):   *)
(* commands, controller tick, tracker tick, and the tracker tick of        *)
(* MqttCommandServer::loop.  The steppers run on between any two of them.  *)
(***************************************************************************)
EXTENDS MotorController

CONSTANT WaitForDone   \* TRUE: operators send a motor its next command only
                       \* after the DONE of the one before

ASSUME WaitAssumption == WaitForDone \in BOOLEAN

VARIABLES
  loopAt,    \* what the loop task does next
  pending,   \* pending_: operations waiting for their DONE
  timed,     \* command whose duration last_op_last_ms holds, per motor
  done       \* history: the DONE events emitted

trackVars == <<loopAt, pending, timed, done>>
allVars   == <<vars, trackVars>>

Operations ==
  [cmd : Cmds, kind : {"MOVE", "HOME"}, mask : Masks, target : MoveTargets \cup {0}]

CompletionTypeOK ==
  /\ TypeOK
  /\ loopAt \in {"commands", "tracker", "server"}
  /\ pending \subseteq Operations
  /\ timed \in [Motors -> Cmds \cup {NoCmd}]
  /\ \A d \in done : d.op \in Operations /\ d.reported \subseteq Cmds \cup {NoCmd}

CompletionInit ==
  /\ Init
  /\ loopAt = "commands" /\ pending = {} /\ done = {}
  /\ timed = [m \in Motors |-> NoCmd]

(* A tick that ends an operation stores its duration.                       *)
StoreDurations ==
  timed' = [m \in Motors |-> IF ongoing[m] /\ ~ongoing'[m] THEN op[m] ELSE timed[m]]

LoopTick(s) ==
  /\ loopAt = "commands" /\ Tick(s) /\ StoreDurations
  /\ loopAt' = "tracker"
  /\ UNCHANGED <<pending, done>>

(* A command answered E10, E11 or E12 has ticked the controller all the same. *)
RejectedCommand(s) ==
  /\ loopAt = "commands" /\ Tick(s) /\ StoreDurations
  /\ UNCHANGED <<loopAt, pending, done>>

ReceiveCommand(r, s) ==
  /\ loopAt = "commands"
  /\ WaitForDone => \A p \in pending : p.mask \cap r.mask = {}
  /\ Receive(r, s) /\ StoreDurations
  /\ UNCHANGED <<loopAt, pending, done>>

CarryOut ==
  /\ Refuse \/ BeginMove \/ BeginHome \/ Wake \/ Sleep
  /\ UNCHANGED trackVars

(* RegisterOperation follows in the handler that started the steppers.      *)
Operation == [cmd |-> req.cmd, kind |-> req.kind, mask |-> req.mask, target |-> req.target]

LaunchAndRegister ==
  /\ Launch
  /\ pending' = pending \cup {Operation}
  /\ UNCHANGED <<loopAt, timed, done>>

Stepper(m) == AdapterStep(m) /\ UNCHANGED trackVars

(* CompletionTracker::Tick emits every operation none of whose motors is in  *)
(* flight once one of them has ended it, with the longest duration of those. *)
Ended(p) == {m \in p.mask : ~ongoing[m]}
ReadyInFlight(p) == Ended(p) # {}   \* mutant: does not ask the adapter
ReadyAtRest(p) == \A m \in p.mask : ~fasMoving[m]   \* mutant: nor the operation
ReadyHomed(p) ==   \* mutant: a motor not homed holds the DONE back
  Ended(p) # {} /\ \A m \in p.mask : ~fasMoving[m] /\ homed[m]
Ready(p) == Ended(p) # {} /\ \A m \in p.mask : ~fasMoving[m]

TrackerTick ==
  LET ready == {p \in pending : Ready(p)} IN
  /\ loopAt \in {"tracker", "server"}
  /\ pending' = pending \ ready
  /\ done' = done \cup {[op |-> p, reported |-> {timed[m] : m \in Ended(p)}] : p \in ready}
  /\ loopAt' = IF loopAt = "tracker" THEN "server" ELSE "commands"
  /\ UNCHANGED <<vars, timed>>

LoopPass == TrackerTick \/ \E s \in 0..MaxTickSecs : LoopTick(s)

CompletionNext ==
  \/ LoopPass
  \/ CarryOut \/ LaunchAndRegister
  \/ \E s \in 0..MaxTickSecs : RejectedCommand(s)
  \/ \E r \in Requests, s \in 0..MaxTickSecs : ReceiveCommand(r, s)
  \/ \E m \in Motors : Stepper(m)

CompletionSpec == CompletionInit /\ [][CompletionNext]_allVars

(* Serial input ends (ProcessSerialInput reads what is there), so commands   *)
(* only delay the rest of the pass: strong fairness.  An admitted command is *)
(* carried out, and running steppers keep stepping.                          *)
CompletionFairness ==
  /\ SF_allVars(LoopPass)
  /\ WF_allVars(CarryOut \/ LaunchAndRegister)
  /\ \A m \in Motors : WF_allVars(Stepper(m))

FairCompletionSpec == CompletionSpec /\ CompletionFairness

-----------------------------------------------------------------------------
(* Properties.                                                              *)

(* Operators who wait for DONE get one for every accepted MOVE and HOME,     *)
(* whatever the interleaving of legs, ticks and other commands: the tracker  *)
(* never loses the moment at which an operation ended (Tick 37-76).          *)
EveryDone == \A c \in Cmds : c \in issued ~> \E d \in done : d.op.cmd = c

(* The duration in a DONE is that of its own command: for operators who wait *)
(* for DONE no later command overwrites last_op_last_ms in between           *)
(* (CompletionTracker 47-57, tick 396-403).                                  *)
ActualIsOwn == \A d \in done : d.reported = {d.op.cmd}

(* After the DONE of a MOVE its motors stand at the target, until the next   *)
(* command: no leg of an earlier homing moves them away (tick 404-435).      *)
MoveArrived ==
  \A d \in done : d.op.kind = "MOVE" =>
    \A m \in d.op.mask :
      op[m] = d.op.cmd => fasPos[m] = d.op.target /\ ~fasMoving[m]

(* "done: Command finished successfully" (docs/mqtt-command-schema.md:38):   *)
(* after the DONE of a HOME its motors are homed.                            *)
DoneHomeMeansHomed ==
  \A d \in done : d.op.kind = "HOME" =>
    \A m \in d.op.mask : op[m] = d.op.cmd => homed[m] /\ phase[m] = Idle

=============================================================================

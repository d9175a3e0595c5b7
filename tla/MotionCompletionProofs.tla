------------------------ MODULE MotionCompletionProofs ------------------------
(***************************************************************************)
(* Theorems about the controller composed with the completion tracker, for  *)
(* any constants that satisfy the assumptions of MotorController.           *)
(***************************************************************************)
EXTENDS MotionCompletion, MotorControllerProofs

-----------------------------------------------------------------------------
(* The composition implements the controller.                               *)

(* Every step of a loop pass is a step of the controller or leaves it alone. *)
LEMMA PassIsControllerStep == [CompletionNext]_allVars => [Next]_vars
<1> SUFFICES ASSUME [CompletionNext]_allVars PROVE [Next]_vars
  OBVIOUS
<1>1. CASE LoopPass
  <2>1. CASE TrackerTick
    BY <2>1 DEF TrackerTick
  <2>2. ASSUME NEW s \in 0..MaxTickSecs, LoopTick(s) PROVE Next
    BY <2>2, Zenon DEF LoopTick, Next
  <2> QED
    BY <1>1, <2>1, <2>2 DEF LoopPass
<1>2. CASE CarryOut
  BY <1>2, Zenon DEF CarryOut, Next, Handle
<1>3. CASE LaunchAndRegister
  BY <1>3, Zenon DEF LaunchAndRegister, Next, Handle
<1>4. ASSUME NEW s \in 0..MaxTickSecs, RejectedCommand(s) PROVE Next
  BY <1>4, Zenon DEF RejectedCommand, Next
<1>5. ASSUME NEW r \in Requests, NEW s \in 0..MaxTickSecs, ReceiveCommand(r, s)
      PROVE  Next
  BY <1>5, Zenon DEF ReceiveCommand, Next
<1>6. ASSUME NEW m \in Motors, Stepper(m) PROVE Next
  BY <1>6, Zenon DEF Stepper, Next
<1>7. CASE UNCHANGED allVars
  BY <1>7 DEF allVars
<1> QED
  BY <1>1, <1>2, <1>3, <1>4, <1>5, <1>6, <1>7, Zenon DEF CompletionNext

(* The tracker only watches: the controller composed with it behaves like    *)
(* the controller alone (CompletionTracker.cpp:22-81 calls nothing of the    *)
(* controller that changes it), so every theorem about the controller is     *)
(* one about the program of MotionCompletion.                                *)
THEOREM Implements == CompletionSpec => Spec
<1>1. CompletionInit => Init
  BY DEF CompletionInit
<1> QED
  BY <1>1, PassIsControllerStep, PTL DEF CompletionSpec, Spec

-----------------------------------------------------------------------------
(* Types.                                                                   *)

(* What RegisterOperation will be told is known from the time the command is  *)
(* admitted.                                                                *)
Admitted ==
  /\ stage # "idle" => req.mask \in Masks
  /\ stage = "starting" => req.kind \in {"MOVE", "HOME"}

TypeInv == CompletionTypeOK /\ Admitted

LEMMA InitTypes == CompletionInit => TypeInv
<1> SUFFICES ASSUME CompletionInit PROVE TypeInv
  OBVIOUS
<1>1. TypeOK /\ stage = "idle"
  BY InitType DEF CompletionInit, Init
<1> QED
  BY <1>1 DEF CompletionInit, TypeInv, CompletionTypeOK, Admitted

LEMMA StoredTypes ==
  ASSUME TypeOK, timed \in [Motors -> Cmds \cup {NoCmd}], StoreDurations
  PROVE  timed' \in [Motors -> Cmds \cup {NoCmd}]
BY DEF TypeOK, StoreDurations

LEMMA RequestMask == ASSUME NEW r \in Requests PROVE r.mask \in Masks
BY DEF Requests

LEMMA StepTypes == TypeInv /\ [CompletionNext]_allVars => TypeInv'
<1> SUFFICES ASSUME TypeInv, [CompletionNext]_allVars PROVE TypeInv'
  OBVIOUS
<1>1. TypeOK'
  BY NextType, PassIsControllerStep DEF TypeInv, CompletionTypeOK
<1> DEFINE Track == /\ loopAt \in {"commands", "tracker", "server"}
                    /\ pending \subseteq Operations
                    /\ timed \in [Motors -> Cmds \cup {NoCmd}]
                    /\ \A d \in done : /\ d.op \in Operations
                                       /\ d.reported \subseteq Cmds \cup {NoCmd}
<1>2. TypeOK /\ Track /\ Admitted
  BY DEF TypeInv, CompletionTypeOK
<1> SUFFICES Track' /\ Admitted'
  BY <1>1 DEF TypeInv, CompletionTypeOK
<1>3. CASE TrackerTick
  <2>1. Admitted'
    BY <1>2, <1>3 DEF TrackerTick, Admitted, vars
  <2>2. pending' \subseteq Operations /\ timed' = timed
    BY <1>2, <1>3 DEF TrackerTick
  <2>3. loopAt' \in {"commands", "tracker", "server"}
    BY <1>3 DEF TrackerTick
  <2>4. ASSUME NEW d \in done'
        PROVE  d.op \in Operations /\ d.reported \subseteq Cmds \cup {NoCmd}
    <3>1. CASE d \in done
      BY <1>2, <3>1
    <3>2. ASSUME NEW p \in pending, d = [op |-> p, reported |-> {timed[m] : m \in Ended(p)}]
          PROVE  d.op \in Operations /\ d.reported \subseteq Cmds \cup {NoCmd}
      <4>1. p \in Operations /\ Ended(p) \subseteq Motors
        BY <1>2 DEF Operations, Masks, Ended
      <4> QED
        BY <1>2, <3>2, <4>1
    <3> QED
      BY <1>3, <2>4, <3>1, <3>2 DEF TrackerTick
  <2> QED
    BY <2>1, <2>2, <2>3, <2>4, <1>2
<1>4. ASSUME NEW s \in 0..MaxTickSecs, LoopTick(s) PROVE Track' /\ Admitted'
  <2>1. Admitted'
    BY <1>2, <1>4 DEF LoopTick, Tick, Admitted, reqVars
  <2>2. timed' \in [Motors -> Cmds \cup {NoCmd}]
    BY <1>2, <1>4, StoredTypes DEF LoopTick
  <2> QED
    BY <1>2, <1>4, <2>1, <2>2 DEF LoopTick
<1>5. ASSUME NEW s \in 0..MaxTickSecs, RejectedCommand(s) PROVE Track' /\ Admitted'
  <2>1. Admitted'
    BY <1>2, <1>5 DEF RejectedCommand, Tick, Admitted, reqVars
  <2>2. timed' \in [Motors -> Cmds \cup {NoCmd}]
    BY <1>2, <1>5, StoredTypes DEF RejectedCommand
  <2> QED
    BY <1>2, <1>5, <2>1, <2>2 DEF RejectedCommand
<1>6. ASSUME NEW r \in Requests, NEW s \in 0..MaxTickSecs, ReceiveCommand(r, s)
      PROVE  Track' /\ Admitted'
  <2>1. stage' = "admitted" /\ req' = r
    BY <1>6 DEF ReceiveCommand, Receive
  <2>2. Admitted'
    BY <2>1, RequestMask DEF Admitted
  <2>3. timed' \in [Motors -> Cmds \cup {NoCmd}]
    BY <1>2, <1>6, StoredTypes DEF ReceiveCommand
  <2> QED
    BY <1>2, <1>6, <2>2, <2>3 DEF ReceiveCommand
<1>7. CASE CarryOut
  <2>1. Track'
    BY <1>2, <1>7 DEF CarryOut, trackVars
  <2>2. Admitted'
    BY <1>2, <1>7 DEF CarryOut, Refuse, BeginMove, BeginHome, BeginOperation, Wake,
                      Sleep, Admitted
  <2> QED
    BY <2>1, <2>2
<1>8. CASE LaunchAndRegister
  <2>1. Admitted'
    BY <1>8 DEF LaunchAndRegister, Launch, Admitted
  <2>2. Operation \in Operations
    <3>1. req.kind \in {"MOVE", "HOME"} /\ req.mask \in Masks
      BY <1>2, <1>8 DEF LaunchAndRegister, Launch, Admitted
    <3>2. req.cmd \in Cmds /\ req.target \in MoveTargets \cup {0}
      BY <1>2, <3>1 DEF TypeOK
    <3> QED
      BY <3>1, <3>2 DEF Operation, Operations
  <2> QED
    BY <1>2, <1>8, <2>1, <2>2 DEF LaunchAndRegister
<1>9. ASSUME NEW m \in Motors, Stepper(m) PROVE Track' /\ Admitted'
  BY <1>2, <1>9 DEF Stepper, AdapterStep, trackVars, reqVars, Admitted
<1>10. CASE UNCHANGED allVars
  BY <1>2, <1>10 DEF allVars, vars, trackVars, Admitted
<1> HIDE DEF Track
<1> QED
  BY <1>3, <1>4, <1>5, <1>6, <1>7, <1>8, <1>9, <1>10, Zenon
     DEF CompletionNext, LoopPass

(* The tracker keeps track of operations the handlers registered, and reports *)
(* durations of commands (CompletionTracker.cpp:22-81).                       *)
THEOREM CompletionTypeCorrect == CompletionSpec => []CompletionTypeOK
<1>1. TypeInv => CompletionTypeOK
  BY DEF TypeInv
<1> QED
  BY <1>1, InitTypes, StepTypes, PTL DEF CompletionSpec

-----------------------------------------------------------------------------
(* A DONE reports the duration of its own command.                          *)

(* A motor carries a command: it is still at it, or the duration stored last  *)
(* is the command's.                                                        *)
Carries(m, c) == op[m] = c /\ (ongoing[m] \/ timed[m] = c)

(* While operators wait for DONE, the motors of a registered command carry it, *)
(* and a command being handled touches none of them.                         *)
OwnInv ==
  /\ stage # "idle" => \A p \in pending : p.mask \cap req.mask = {}
  /\ stage = "starting" => \A m \in req.mask : Carries(m, req.cmd)
  /\ \A p \in pending : \A m \in p.mask : Carries(m, p.cmd)
  /\ ActualIsOwn

IInvOwn == TypeInv /\ OwnInv

(* A tick does not take a command from the motor that carries it: it ends an  *)
(* operation only by storing its duration (tick 396-403).                    *)
LEMMA TickCarries ==
  ASSUME NEW s, TickEffect(s), StoreDurations, NEW m \in Motors, NEW c, Carries(m, c)
  PROVE  Carries(m, c)'
<1>1. op' = op /\ ongoing'[m] = OngoingAfter(m, s)
  BY TickAtMotor
<1>2. timed'[m] = IF ongoing[m] /\ ~ongoing'[m] THEN op[m] ELSE timed[m]
  BY DEF StoreDurations
<1> QED
  BY <1>1, <1>2, Zenon DEF Carries

(* The motors of a pending operation are motors.                             *)
LEMMA PendingMotors ==
  ASSUME TypeInv, NEW p \in pending
  PROVE  p.mask \subseteq Motors
BY DEF TypeInv, CompletionTypeOK, Operations, Masks

LEMMA InitOwn == CompletionInit => OwnInv
BY DEF CompletionInit, Init, OwnInv, ActualIsOwn

LEMMA StepOwn ==
  ASSUME WaitForDone
  PROVE  IInvOwn /\ [CompletionNext]_allVars => OwnInv'
<1> SUFFICES ASSUME IInvOwn, [CompletionNext]_allVars PROVE OwnInv'
  OBVIOUS
<1>1. TypeInv /\ OwnInv
  BY DEF IInvOwn
<1>2. req.mask \subseteq Motors
  BY <1>1 DEF TypeInv, CompletionTypeOK, TypeOK
(* A step that only ticks.                                                   *)
<1>3. ASSUME NEW s, TickEffect(s), StoreDurations, pending' = pending, done' = done
      PROVE  /\ \A p \in pending' : \A m \in p.mask : Carries(m, p.cmd)'
             /\ \A m \in req.mask : Carries(m, req.cmd) => op'[m] = req.cmd
             /\ \A m \in req.mask : Carries(m, req.cmd) =>
                  (ongoing'[m] \/ timed'[m] = req.cmd)
             /\ ActualIsOwn'
  <2>1. ASSUME NEW p \in pending, NEW m \in p.mask PROVE Carries(m, p.cmd)'
    <3>1. Carries(m, p.cmd) /\ m \in Motors
      BY <1>1, PendingMotors DEF OwnInv
    <3> QED
      BY <1>3, <3>1, TickCarries
  <2>2. ASSUME NEW m \in req.mask, Carries(m, req.cmd)
        PROVE  op'[m] = req.cmd /\ (ongoing'[m] \/ timed'[m] = req.cmd)
    <3>1. PICK c : c = req.cmd
      OBVIOUS
    <3>2. Carries(m, c)'
      BY <1>2, <1>3, <2>2, <3>1, TickCarries
    <3> QED
      BY <3>1, <3>2 DEF Carries
  <2> QED
    BY <1>1, <1>3, <2>1, <2>2 DEF OwnInv, ActualIsOwn
<1>4. CASE TrackerTick
  <2>1. /\ pending' \subseteq pending
        /\ UNCHANGED <<stage, req, op, ongoing, timed>>
    BY <1>4 DEF TrackerTick, vars
  <2>2. ASSUME NEW d \in done' PROVE d.reported = {d.op.cmd}
    <3>1. CASE d \in done
      BY <1>1, <3>1 DEF OwnInv, ActualIsOwn
    <3>2. ASSUME NEW p \in pending, Ready(p),
                 d = [op |-> p, reported |-> {timed[m] : m \in Ended(p)}]
          PROVE  d.reported = {d.op.cmd}
      <4>1. Ended(p) # {}
        BY <3>2 DEF Ready
      <4>2. \A m \in Ended(p) : timed[m] = p.cmd
        BY <1>1 DEF Ended, OwnInv, Carries
      <4>3. {timed[m] : m \in Ended(p)} = {p.cmd}
        BY <4>1, <4>2
      <4> QED
        BY <3>2, <4>3
    <3> QED
      BY <1>4, <2>2, <3>1, <3>2 DEF TrackerTick
  <2> QED
    BY <1>1, <2>1, <2>2 DEF OwnInv, ActualIsOwn, Carries
<1>5. ASSUME NEW s \in 0..MaxTickSecs, LoopTick(s) \/ RejectedCommand(s) PROVE OwnInv'
  <2>1. /\ TickEffect(s) /\ StoreDurations /\ pending' = pending /\ done' = done
        /\ stage' = stage /\ req' = req
    BY <1>5 DEF LoopTick, RejectedCommand, Tick, reqVars
  <2> QED
    BY <1>1, <1>3, <2>1 DEF OwnInv, Carries
<1>6. ASSUME NEW r \in Requests, NEW s \in 0..MaxTickSecs, ReceiveCommand(r, s)
      PROVE  OwnInv'
  <2>1. /\ TickEffect(s) /\ StoreDurations /\ pending' = pending /\ done' = done
        /\ stage' = "admitted" /\ req' = r
    BY <1>6 DEF ReceiveCommand, Receive
  <2>2. \A p \in pending : p.mask \cap r.mask = {}
    BY <1>6 DEF ReceiveCommand
  <2> QED
    BY <1>3, <2>1, <2>2 DEF OwnInv
<1>7. CASE CarryOut
  <2>1. UNCHANGED trackVars
    BY <1>7 DEF CarryOut
  <2>2. CASE Refuse \/ Wake \/ Sleep
    BY <1>1, <2>1, <2>2 DEF Refuse, Wake, Sleep, ctlVars, trackVars, OwnInv, ActualIsOwn,
                            Carries
  <2>3. ASSUME NEW k, BeginOperation(k) PROVE OwnInv'
    <3>1. /\ stage = "admitted" /\ req' = req
          /\ ongoing' = [m \in Motors |-> ongoing[m] \/ m \in req.mask]
          /\ op' = [m \in Motors |-> IF m \in req.mask THEN req.cmd ELSE op[m]]
      BY <2>3 DEF BeginOperation
    <3>2. \A p \in pending : p.mask \cap req.mask = {}
      BY <1>1, <3>1 DEF OwnInv
    <3>3. ASSUME NEW p \in pending, NEW m \in p.mask PROVE Carries(m, p.cmd)'
      <4>1. m \in Motors /\ m \notin req.mask /\ Carries(m, p.cmd)
        BY <1>1, <3>2, PendingMotors DEF OwnInv
      <4>2. op'[m] = op[m] /\ (ongoing[m] => ongoing'[m]) /\ timed' = timed
        BY <2>1, <3>1, <4>1 DEF trackVars
      <4> QED
        BY <4>1, <4>2, Zenon DEF Carries
    <3>4. ASSUME NEW m \in req.mask PROVE op'[m] = req.cmd /\ ongoing'[m]
      BY <1>2, <3>1
    <3> QED
      BY <1>1, <2>1, <3>1, <3>2, <3>3, <3>4 DEF OwnInv, ActualIsOwn, Carries, trackVars
  <2> QED
    BY <1>7, <2>2, <2>3 DEF CarryOut, BeginMove, BeginHome
<1>8. CASE LaunchAndRegister
  <2>1. /\ stage = "starting" /\ stage' = "idle" /\ pending' = pending \cup {Operation}
        /\ UNCHANGED <<op, ongoing, timed, done>>
    BY <1>8 DEF LaunchAndRegister, Launch, ctlVars
  <2>2. Operation.mask = req.mask /\ Operation.cmd = req.cmd
    BY DEF Operation
  <2> QED
    BY <1>1, <2>1, <2>2 DEF OwnInv, ActualIsOwn, Carries
<1>9. ASSUME NEW i \in Motors, Stepper(i) PROVE OwnInv'
  BY <1>1, <1>9 DEF Stepper, AdapterStep, trackVars, reqVars, ctlVars, OwnInv,
                    ActualIsOwn, Carries
<1>10. CASE UNCHANGED allVars
  BY <1>1, <1>10 DEF allVars, vars, trackVars, OwnInv, ActualIsOwn, Carries
<1> QED
  BY <1>4, <1>5, <1>6, <1>7, <1>8, <1>9, <1>10, Zenon DEF CompletionNext, LoopPass

(* While operators wait for DONE, every DONE reports the duration of its own  *)
(* command and of no other, whether the handlers run on the loop task or not  *)
(* (CompletionTracker.cpp:47-57 reads last_op_last_ms of the motors).         *)
THEOREM DurationIsOwn ==
  ASSUME WaitForDone
  PROVE  CompletionSpec => []ActualIsOwn
<1>1. CompletionInit => IInvOwn
  BY InitTypes, InitOwn DEF IInvOwn
<1>2. IInvOwn /\ [CompletionNext]_allVars => IInvOwn'
  BY StepTypes, StepOwn DEF IInvOwn
<1>3. IInvOwn => ActualIsOwn
  BY DEF IInvOwn, OwnInv
<1> QED
  BY <1>1, <1>2, <1>3, PTL DEF CompletionSpec

-----------------------------------------------------------------------------
(* A finished MOVE leaves its motors at the target.                          *)

(* A motor no command is about to start or waits to report.                  *)
Free(m) == ~Launching(m) /\ \A p \in pending : m \notin p.mask

(* A stepper at rest has reached what it was sent to.                        *)
Rests == \A m \in Motors : ~fasMoving[m] => fasPos[m] = fasTarget[m]

(* A free motor is at rest, and the last thing a homing may still do to it is  *)
(* to set its zero: DONE can come between the end of the last leg and the tick *)
(* that sets the zero, but no earlier.                                       *)
FreeRests == \A m \in Motors : Free(m) => ~fasMoving[m] /\ phase[m] \in {Idle, 2}

(* The tick of the handler sets that zero before the command starts.          *)
NoLegLeft ==
  /\ stage = "admitted" => \A m \in req.mask : phase[m] = Idle
  /\ stage = "starting" =>
       \A m \in req.mask : phase[m] = IF req.kind = "MOVE" THEN Idle ELSE 0

(* A registered MOVE is the last thing its motors were sent on; the motors of   *)
(* a registered HOME pass the barriers together.                             *)
OnTheWay(p) ==
  p.kind = "MOVE" => \A m \in p.mask : phase[m] = Idle /\ fasTarget[m] = p.target
InStep(p) ==
  p.kind = "HOME" =>
    \A m, n \in p.mask : phase[m] = phase[n] \/ {phase[m], phase[n]} \subseteq {2, Idle}

Stands(d) ==
  d.op.kind = "MOVE" =>
    \A m \in d.op.mask : op[m] = d.op.cmd =>
      fasTarget[m] = d.op.target /\ ~fasMoving[m] /\ phase[m] = Idle

UsedOnce ==
  /\ \A p \in pending : p.cmd \in issued
  /\ \A d \in done : d.op.cmd \in issued
  /\ stage = "admitted" => req.cmd \notin issued
  /\ stage = "starting" => /\ \A d \in done : d.op.cmd # req.cmd
                           /\ \A p \in pending : p.cmd # req.cmd
                           /\ req.cmd \in issued

ArriveInv ==
  /\ Rests /\ FreeRests /\ NoLegLeft /\ UsedOnce
  /\ \A p \in pending : OnTheWay(p) /\ InStep(p)
  /\ \A d \in done : Stands(d)

(* All that is known of the controller and of what waits for its DONE.        *)
Known == IInv /\ Paid /\ IInvOwn

(* A tick without a cut-off: only the barriers start steppers, and a homing    *)
(* ends only by its zero.                                                    *)
LEMMA QuietTick ==
  ASSUME IInv, Paid, ArriveInv, stage = "idle",
         NEW s \in 0..MaxTickSecs, TickEffect(s), NEW m \in Motors
  PROVE  /\ ~CutOff(m, s) /\ ~Launching(m)
         /\ phase[m] = Idle => /\ phase'[m] = Idle /\ fasTarget'[m] = fasTarget[m]
                               /\ fasMoving'[m] = fasMoving[m] /\ fasPos'[m] = fasPos[m]
         /\ phase[m] = 2 /\ ~fasMoving[m] => phase'[m] = Idle /\ ~fasMoving'[m]
         /\ ~fasMoving'[m] => fasPos'[m] = fasTarget'[m]
<1>1. TypeOK /\ MotorPaid(m) /\ ~Launching(m)
  BY DEF IInv, Paid, Launching
<1>2. ~CutOff(m, s)
  BY <1>1, TickCharge DEF TickEffect
<1>3. /\ phase'[m] = PhaseAfter(m, s)
      /\ fasPos'[m] = (IF m \in Zeroed(s) THEN 0 ELSE fasPos[m])
      /\ fasTarget'[m] = (IF m \in LegStarts(s) THEN LegGoal(m, s)
                          ELSE IF m \in Zeroed(s) THEN 0 ELSE fasTarget[m])
      /\ fasMoving'[m] = (fasMoving[m] \/ m \in LegStarts(s))
  BY TickAtMotor
<1>4. /\ m \in BackingOff(s) => phase[m] = 0 /\ ~fasMoving[m]
      /\ m \in Centring(s) => phase[m] = 1 /\ ~fasMoving[m]
      /\ m \in Zeroed(s) <=> phase[m] = 2 /\ ~fasMoving[m]
      /\ m \in LegStarts(s) <=> m \in BackingOff(s) \/ m \in Centring(s)
  BY <1>2, TickSets
<1>m. fasMoving[m] \in BOOLEAN
  BY <1>1 DEF TypeOK
<1>5. phase[m] = Idle => /\ phase'[m] = Idle /\ fasTarget'[m] = fasTarget[m]
                         /\ fasMoving'[m] = fasMoving[m] /\ fasPos'[m] = fasPos[m]
  <2>1. ASSUME phase[m] = Idle
        PROVE  m \notin BackingOff(s) /\ m \notin Centring(s) /\ m \notin Zeroed(s)
    BY <1>4, <2>1 DEF Idle
  <2>2. ASSUME phase[m] = Idle PROVE phase'[m] = Idle
    BY <1>2, <1>3, <2>1, <2>2 DEF PhaseAfter
  <2> QED
    BY <1>m, <1>3, <1>4, <2>1, <2>2
<1>6. phase[m] = 2 /\ ~fasMoving[m] => phase'[m] = Idle /\ ~fasMoving'[m]
  <2>1. ASSUME phase[m] = 2, ~fasMoving[m]
        PROVE  m \in Zeroed(s) /\ m \notin LegStarts(s)
    BY <1>4, <2>1
  <2>2. m \in Zeroed(s) => phase'[m] = Idle
    <3>1. m \in Zeroed(s) => m \notin BackingOff(s) /\ m \notin Centring(s)
      BY <1>4
    <3> QED
      BY <1>3, <3>1 DEF PhaseAfter
  <2> QED
    BY <1>3, <2>1, <2>2, Zenon
<1>7. ~fasMoving'[m] => fasPos'[m] = fasTarget'[m]
  <2>1. ~fasMoving[m] => fasPos[m] = fasTarget[m]
    BY DEF ArriveInv, Rests
  <2> QED
    BY <1>3, <2>1
<1> QED
  BY <1>1, <1>2, <1>5, <1>6, <1>7

(* Without a cut-off a barrier takes all motors of a phase or none.            *)
LEMMA TogetherPastBarriers ==
  ASSUME IInv, Paid, ArriveInv, stage = "idle",
         NEW s \in 0..MaxTickSecs, TickEffect(s),
         NEW m \in Motors, NEW n \in Motors,
         phase[m] = phase[n] \/ {phase[m], phase[n]} \subseteq {2, Idle}
  PROVE  phase'[m] = phase'[n] \/ {phase'[m], phase'[n]} \subseteq {2, Idle}
<1>1. ~CutOff(m, s) /\ ~CutOff(n, s)
  BY QuietTick
<1>2. phase'[m] = PhaseAfter(m, s) /\ phase'[n] = PhaseAfter(n, s)
  BY TickAtMotor
<1>3. phase[m] \in {Idle, 0, 1, 2} /\ phase[n] \in {Idle, 0, 1, 2}
  BY DEF IInv, TypeOK, Phases
<1>4. phase[m] = phase[n] =>
        /\ m \in BackingOff(s) <=> n \in BackingOff(s)
        /\ m \in Centring(s) <=> n \in Centring(s)
  BY <1>1, SMT DEF BackingOff, Centring, InLeg, Homing
<1>5. /\ m \in BackingOff(s) => phase[m] = 0
      /\ n \in BackingOff(s) => phase[n] = 0
      /\ m \in Centring(s) => phase[m] = 1
      /\ n \in Centring(s) => phase[n] = 1
      /\ m \in Zeroed(s) => phase[m] = 2
      /\ n \in Zeroed(s) => phase[n] = 2
  BY TickSets
<1>6. CASE phase[m] = phase[n] /\ phase[m] \in {0, 1}
  <2>1. m \notin Zeroed(s) /\ n \notin Zeroed(s)
    BY <1>5, <1>6
  <2> QED
    BY <1>1, <1>2, <1>4, <1>6, <2>1, Zenon DEF PhaseAfter
<1>7. CASE phase[m] \in {2, Idle} /\ phase[n] \in {2, Idle}
  <2>1. /\ m \notin BackingOff(s) /\ n \notin BackingOff(s)
        /\ m \notin Centring(s) /\ n \notin Centring(s)
    BY <1>5, <1>7 DEF Idle
  <2>2. phase'[m] \in {2, Idle} /\ phase'[n] \in {2, Idle}
    BY <1>1, <1>2, <1>7, <2>1 DEF PhaseAfter
  <2> QED
    BY <2>2
<1> QED
  BY <1>3, <1>6, <1>7 DEF Idle

(* A tick keeps what is known of arrivals: whether it is the loop's or that of  *)
(* a command.                                                               *)
LEMMA TickArrives ==
  ASSUME Known, ArriveInv, stage = "idle", NEW s \in 0..MaxTickSecs, TickEffect(s),
         stage' # "starting", pending' = pending, done' = done, issued' = issued
  PROVE  /\ Rests' /\ FreeRests'
         /\ \A p \in pending' : OnTheWay(p)' /\ InStep(p)'
         /\ \A d \in done' : Stands(d)'
         /\ \A m \in Motors : Free(m) => phase'[m] = Idle
<1> USE DEF Known
<1>1. Rests'
  BY QuietTick DEF Rests
<1>2. ASSUME NEW m \in Motors, Free(m) PROVE phase'[m] = Idle /\ ~fasMoving'[m]
  BY <1>2, QuietTick DEF ArriveInv, FreeRests
<1>3. FreeRests'
  <2> SUFFICES ASSUME NEW m \in Motors, Free(m)' PROVE ~fasMoving'[m] /\ phase'[m] \in {Idle, 2}
    BY DEF FreeRests
  <2>1. Free(m)
    BY DEF Free, Launching
  <2> QED
    BY <1>2, <2>1
<1>4. ASSUME NEW p \in pending PROVE OnTheWay(p)' /\ InStep(p)'
  <2>1. OnTheWay(p) /\ InStep(p) /\ p.mask \subseteq Motors
    BY PendingMotors DEF ArriveInv, IInvOwn
  <2>2. OnTheWay(p)'
    BY <2>1, QuietTick DEF OnTheWay
  <2>3. ASSUME p.kind = "HOME", NEW m \in p.mask, NEW n \in p.mask
        PROVE  phase'[m] = phase'[n] \/ {phase'[m], phase'[n]} \subseteq {2, Idle}
    <3>1. phase[m] = phase[n] \/ {phase[m], phase[n]} \subseteq {2, Idle}
      BY <2>1, <2>3 DEF InStep
    <3> QED
      BY <2>1, <3>1, TogetherPastBarriers
  <2> QED
    BY <2>2, <2>3 DEF InStep
<1>5. ASSUME NEW d \in done PROVE Stands(d)'
  <2>1. Stands(d) /\ d.op.mask \subseteq Motors
    BY DEF ArriveInv, IInvOwn, TypeInv, CompletionTypeOK, Operations, Masks
  <2>2. op' = op
    BY DEF TickEffect
  <2> QED
    BY <2>1, <2>2, QuietTick DEF Stands
<1> QED
  BY <1>1, <1>2, <1>3, <1>4, <1>5

(* A DONE is emitted when its motors stand still; of a HOME at least one has   *)
(* set its zero, so that none of the others has a leg ahead.                  *)
LEMMA TrackerArrives ==
  ASSUME Known, ArriveInv, TrackerTick PROVE ArriveInv'
<1> USE DEF Known
<1>1. /\ pending' = pending \ {p \in pending : Ready(p)}
      /\ done' = done \cup {[op |-> p, reported |-> {timed[m] : m \in Ended(p)}]
                            : p \in {q \in pending : Ready(q)}}
      /\ UNCHANGED <<stage, req, issued, op, phase, fasMoving, fasPos, fasTarget, ongoing>>
  BY DEF TrackerTick, vars
<1>2. Rests' /\ NoLegLeft'
  BY <1>1 DEF ArriveInv, Rests, NoLegLeft
<1>3. FreeRests'
  <2> SUFFICES ASSUME NEW m \in Motors, Free(m)' PROVE ~fasMoving[m] /\ phase[m] \in {Idle, 2}
    BY <1>1 DEF FreeRests
  <2>1. ~Launching(m)
    BY <1>1 DEF Free, Launching
  <2>2. CASE Free(m)
    BY <2>2 DEF ArriveInv, FreeRests
  <2>3. CASE ~Free(m)
    <3>1. PICK p \in pending : m \in p.mask /\ Ready(p)
      BY <1>1, <2>1, <2>3 DEF Free
    <3>2. ~fasMoving[m] /\ OnTheWay(p) /\ InStep(p) /\ p.kind \in {"MOVE", "HOME"}
          /\ p.mask \subseteq Motors
      BY <3>1, PendingMotors DEF Ready, ArriveInv, IInvOwn, TypeInv, CompletionTypeOK, Operations
    <3>3. CASE p.kind = "MOVE"
      BY <3>1, <3>2, <3>3 DEF OnTheWay
    <3>4. CASE p.kind = "HOME"
      <4>1. PICK n \in p.mask : ~ongoing[n]
        BY <3>1 DEF Ready, Ended
      <4>2. phase[n] = Idle
        BY <3>2, <4>1 DEF IInv, MotorInv, MotionInv
      <4> QED
        BY <3>1, <3>2, <3>4, <4>2 DEF InStep
    <3> QED
      BY <3>2, <3>3, <3>4
  <2> QED
    BY <2>2, <2>3
<1>4. UsedOnce' /\ \A d \in done' : Stands(d)'
  <2>1. ASSUME NEW d \in done' PROVE d.op.cmd \in issued /\ Stands(d)
                                     /\ (stage = "starting" => d.op.cmd # req.cmd)
    <3>1. CASE d \in done
      BY <3>1 DEF ArriveInv, UsedOnce
    <3>2. ASSUME NEW p \in pending, Ready(p), d.op = p
          PROVE  d.op.cmd \in issued /\ Stands(d) /\ (stage = "starting" => d.op.cmd # req.cmd)
      <4>1. p.cmd \in issued /\ OnTheWay(p)
        BY DEF ArriveInv, UsedOnce
      <4>2. Stands(d)
        BY <3>2, <4>1 DEF Stands, OnTheWay, Ready
      <4>3. stage = "starting" => p.cmd # req.cmd
        BY DEF ArriveInv, UsedOnce
      <4> QED
        BY <3>2, <4>1, <4>2, <4>3
    <3> QED
      BY <1>1, <3>1, <3>2
  <2>2. \A p \in pending' : p.cmd \in issued
    BY <1>1 DEF ArriveInv, UsedOnce
  <2> QED
    BY <1>1, <2>1, <2>2 DEF UsedOnce, ArriveInv, Stands
<1>5. \A p \in pending' : OnTheWay(p)' /\ InStep(p)'
  BY <1>1 DEF ArriveInv, OnTheWay, InStep
<1> QED
  BY <1>2, <1>3, <1>4, <1>5 DEF ArriveInv

(* A step of a stepper: it stops exactly at its target.                       *)
LEMMA StepperArrives ==
  ASSUME Known, ArriveInv, NEW i \in Motors, Stepper(i) PROVE ArriveInv'
<1> USE DEF Known
<1>1. /\ UNCHANGED <<stage, req, issued, op, phase, fasTarget, pending, done>>
      /\ fasMoving[i]
      /\ fasMoving'[i] = (fasPos'[i] # fasTarget[i])
      /\ \A m \in Motors : m # i => fasMoving'[m] = fasMoving[m] /\ fasPos'[m] = fasPos[m]
  BY DEF Stepper, AdapterStep, trackVars, ctlVars, reqVars, IInv, TypeOK
<1>2. Rests'
  BY <1>1 DEF ArriveInv, Rests
<1>3. FreeRests'
  BY <1>1 DEF ArriveInv, FreeRests, Free, Launching
<1>4. ASSUME NEW d \in done PROVE Stands(d)'
  <2>1. d.op.mask \subseteq Motors /\ Stands(d)
    BY DEF ArriveInv, IInvOwn, TypeInv, CompletionTypeOK, Operations, Masks
  <2> QED
    BY <1>1, <2>1 DEF Stands
<1> QED
  BY <1>1, <1>2, <1>3, <1>4 DEF ArriveInv, NoLegLeft, UsedOnce, OnTheWay, InStep

(* Recording a command: nothing is known yet of where its motors will stand.   *)
LEMMA BeginArrives ==
  ASSUME Known, ArriveInv, UNCHANGED trackVars, BeginMove \/ BeginHome PROVE ArriveInv'
<1> USE DEF Known
<1>1. PICK kind \in {"MOVE", "HOME"} : BeginOperation(kind)
  BY DEF BeginMove, BeginHome
<1>2. /\ stage = "admitted" /\ stage' = "starting" /\ req' = req
      /\ req.kind = kind /\ issued' = issued \cup {req.cmd}
      /\ op' = [m \in Motors |-> IF m \in req.mask THEN req.cmd ELSE op[m]]
      /\ UNCHANGED <<fasMoving, fasPos, fasTarget, pending, done>>
      /\ req.mask \subseteq Motors
  BY <1>1 DEF BeginOperation, fasVars, trackVars, IInv, TypeOK
<1>3. \A m \in Motors : phase'[m] = (IF m \in req.mask /\ req.kind = "HOME" THEN 0 ELSE phase[m])
  BY <1>2 DEF BeginMove, BeginHome, BeginOperation
<1>4. Rests'
  BY <1>2 DEF ArriveInv, Rests
<1>5. FreeRests'
  <2> SUFFICES ASSUME NEW m \in Motors, Free(m)' PROVE ~fasMoving[m] /\ phase'[m] \in {Idle, 2}
    BY <1>2 DEF FreeRests
  <2>1. m \notin req.mask
    BY <1>2 DEF Free, Launching
  <2>2. Free(m)
    BY <1>2, <2>1 DEF Free, Launching
  <2> QED
    BY <1>3, <2>1, <2>2 DEF ArriveInv, FreeRests
<1>6. NoLegLeft'
  BY <1>2, <1>3 DEF ArriveInv, NoLegLeft
<1>7. UsedOnce'
  BY <1>2 DEF ArriveInv, UsedOnce
<1>8. ASSUME NEW p \in pending PROVE OnTheWay(p)' /\ InStep(p)'
  <2>1. p.mask \cap req.mask = {} /\ p.mask \subseteq Motors /\ OnTheWay(p) /\ InStep(p)
    BY <1>2, PendingMotors DEF ArriveInv, IInvOwn, OwnInv
  <2>2. \A m \in p.mask : phase'[m] = phase[m] /\ fasTarget'[m] = fasTarget[m]
    BY <1>2, <1>3, <2>1
  <2> QED
    BY <2>1, <2>2 DEF OnTheWay, InStep
<1>9. ASSUME NEW d \in done PROVE Stands(d)'
  <2>1. d.op.mask \subseteq Motors /\ Stands(d) /\ d.op.cmd # req.cmd
    BY <1>2 DEF ArriveInv, UsedOnce, IInvOwn, TypeInv, CompletionTypeOK, Operations, Masks
  <2>2. \A m \in d.op.mask : op'[m] = d.op.cmd => m \notin req.mask /\ op[m] = d.op.cmd
    BY <1>2, <2>1
  <2> QED
    BY <1>2, <1>3, <2>1, <2>2 DEF Stands
<1> QED
  BY <1>2, <1>4, <1>5, <1>6, <1>7, <1>8, <1>9 DEF ArriveInv

(* Launching a command sends its motors to the target that is registered.      *)
LEMMA LaunchArrives ==
  ASSUME Known, ArriveInv, LaunchAndRegister PROVE ArriveInv'
<1> USE DEF Known
<1>1. /\ stage = "starting" /\ stage' = "idle" /\ pending' = pending \cup {Operation}
      /\ UNCHANGED <<fasPos, op, phase, issued, done>>
      /\ req.kind \in {"MOVE", "HOME"} /\ req.mask \subseteq Motors
  BY DEF LaunchAndRegister, Launch, ctlVars, IInv, TypeOK
<1>2. \A m \in Motors :
        /\ fasTarget'[m] = (IF m \in req.mask THEN Goal(m) ELSE fasTarget[m])
        /\ m \in req.mask => (fasMoving'[m] <=> Goal(m) # fasPos[m])
        /\ m \notin req.mask => fasMoving'[m] = fasMoving[m]
  BY DEF LaunchAndRegister, Launch
<1>3. /\ Operation.mask = req.mask /\ Operation.cmd = req.cmd
      /\ Operation.kind = req.kind /\ Operation.target = req.target
  BY DEF Operation
<1>4. Rests'
  BY <1>1, <1>2 DEF ArriveInv, Rests
<1>5. FreeRests'
  <2> SUFFICES ASSUME NEW m \in Motors, Free(m)' PROVE ~fasMoving'[m] /\ phase[m] \in {Idle, 2}
    BY <1>1 DEF FreeRests
  <2>1. m \notin req.mask
    BY <1>1, <1>3 DEF Free
  <2>2. Free(m)
    BY <1>1, <2>1 DEF Free, Launching
  <2> QED
    BY <1>2, <2>1, <2>2 DEF ArriveInv, FreeRests
<1>6. NoLegLeft'
  BY <1>1 DEF NoLegLeft
<1>7. UsedOnce'
  BY <1>1, <1>3 DEF ArriveInv, UsedOnce
<1>8. ASSUME NEW p \in pending PROVE OnTheWay(p)' /\ InStep(p)'
  <2>1. p.mask \cap req.mask = {} /\ p.mask \subseteq Motors /\ OnTheWay(p) /\ InStep(p)
    BY <1>1, PendingMotors DEF ArriveInv, IInvOwn, OwnInv
  <2>2. \A m \in p.mask : phase'[m] = phase[m] /\ fasTarget'[m] = fasTarget[m]
    BY <1>1, <1>2, <2>1
  <2> QED
    BY <2>1, <2>2 DEF OnTheWay, InStep
<1>9. ASSUME NEW p, p = Operation PROVE OnTheWay(p)' /\ InStep(p)'
  <2>1. \A m \in req.mask : phase'[m] = IF req.kind = "MOVE" THEN Idle ELSE 0
    BY <1>1 DEF ArriveInv, NoLegLeft
  <2>2. req.kind = "MOVE" => \A m \in req.mask : fasTarget'[m] = req.target
    BY <1>1, <1>2 DEF Goal
  <2> QED
    BY <1>3, <1>9, <2>1, <2>2 DEF OnTheWay, InStep
<1>10. ASSUME NEW d \in done PROVE Stands(d)'
  <2>1. d.op.mask \subseteq Motors /\ Stands(d) /\ d.op.cmd # req.cmd
    BY <1>1 DEF ArriveInv, UsedOnce, IInvOwn, TypeInv, CompletionTypeOK, Operations, Masks
  <2>2. \A m \in req.mask : op[m] = req.cmd
    BY <1>1 DEF IInvOwn, OwnInv, Carries
  <2> QED
    BY <1>1, <1>2, <2>1, <2>2 DEF Stands
<1>11. \A p \in pending' : OnTheWay(p)' /\ InStep(p)'
  <2> HIDE DEF Known
  <2> SUFFICES ASSUME NEW p \in pending' PROVE OnTheWay(p)' /\ InStep(p)'
    OBVIOUS
  <2> QED
    BY <1>1, <1>8, <1>9
<1>12. \A d \in done' : Stands(d)'
  BY <1>1, <1>10
<1> QED
  BY <1>4, <1>5, <1>6, <1>7, <1>11, <1>12 DEF ArriveInv

(* Every step keeps what is known of arrivals.                               *)
LEMMA StepArrives ==
  ASSUME ~AsyncCommands, WaitForDone
  PROVE  Known /\ ArriveInv /\ [CompletionNext]_allVars => ArriveInv'
<1> SUFFICES ASSUME Known, ArriveInv, [CompletionNext]_allVars PROVE ArriveInv'
  OBVIOUS
<1>1. ASSUME NEW s \in 0..MaxTickSecs, LoopTick(s) \/ RejectedCommand(s) PROVE ArriveInv'
  <2>1. /\ stage = "idle" /\ stage' = "idle" /\ TickEffect(s)
        /\ pending' = pending /\ done' = done /\ issued' = issued
    BY <1>1 DEF LoopTick, RejectedCommand, Tick, reqVars
  <2>2. /\ Rests' /\ FreeRests'
        /\ \A p \in pending' : OnTheWay(p)' /\ InStep(p)'
        /\ \A d \in done' : Stands(d)'
    BY <2>1, TickArrives
  <2>3. NoLegLeft' /\ UsedOnce'
    BY <2>1 DEF ArriveInv, NoLegLeft, UsedOnce
  <2> QED
    BY <2>2, <2>3 DEF ArriveInv
<1>2. ASSUME NEW r \in Requests, NEW s \in 0..MaxTickSecs, ReceiveCommand(r, s)
      PROVE  ArriveInv'
  <2>1. /\ stage = "idle" /\ stage' = "admitted" /\ req' = r /\ TickEffect(s)
        /\ pending' = pending /\ done' = done /\ issued' = issued
        /\ \A p \in pending : p.mask \cap r.mask = {}
    BY <1>2 DEF ReceiveCommand, Receive
  <2>2. /\ Rests' /\ FreeRests'
        /\ \A p \in pending' : OnTheWay(p)' /\ InStep(p)'
        /\ \A d \in done' : Stands(d)'
        /\ \A m \in Motors : Free(m) => phase'[m] = Idle
    BY <2>1, TickArrives
  <2>3. NoLegLeft'
    <3>1. \A m \in r.mask : m \in Motors /\ Free(m)
      BY <2>1, RequestTypes DEF Free, Launching
    <3> QED
      BY <2>1, <2>2, <3>1 DEF NoLegLeft
  <2>4. r.cmd \notin issued
    <3>1. issued \subseteq Cmds
      BY DEF Known, IInv, TypeOK
    <3> QED
      BY <3>1, KindAssumption DEF Requests
  <2>5. UsedOnce'
    BY <2>1, <2>4 DEF ArriveInv, UsedOnce
  <2> QED
    BY <2>2, <2>3, <2>5 DEF ArriveInv
<1>3. CASE CarryOut
  <2>1. CASE Refuse \/ Wake \/ Sleep
    <3>1. stage = "admitted" /\ stage' = "idle" /\ req' = NoReq
          /\ UNCHANGED <<fasMoving, fasPos, fasTarget, phase, op, issued, pending, done>>
      BY <1>3, <2>1 DEF CarryOut, Refuse, Wake, Sleep, fasVars, ctlVars, trackVars
    <3>2. ASSUME NEW m PROVE Free(m)' <=> Free(m)
      BY <3>1 DEF Free, Launching
    <3> QED
      BY <3>1, <3>2 DEF ArriveInv, Rests, FreeRests, NoLegLeft, UsedOnce, OnTheWay, InStep, Stands
  <2>2. CASE BeginMove \/ BeginHome
    BY <1>3, <2>2, BeginArrives DEF CarryOut
  <2> QED
    BY <1>3, <2>1, <2>2 DEF CarryOut
<1>4. CASE UNCHANGED allVars
  BY <1>4 DEF allVars, vars, trackVars, ArriveInv, Rests, FreeRests, Free, Launching, NoLegLeft,
              UsedOnce, OnTheWay, InStep, Stands
<1> QED
  BY <1>1, <1>2, <1>3, <1>4, TrackerArrives, LaunchArrives, StepperArrives, Zenon
     DEF CompletionNext, LoopPass

(* When operators wait for DONE, and no WAKE or switched-off limit lets the     *)
(* thermal model cut a homing short, the motors of a MOVE stand at its target   *)
(* from its DONE to the next command, however many motors are homed beside      *)
(* them: no leg or zero of an earlier homing reaches them (tick 404-452,        *)
(* CompletionTracker.cpp:37-76).                                             *)
THEOREM MovesArrive ==
  ASSUME ~AsyncCommands, WaitForDone, "WAKE" \notin Kinds, "SET" \notin Kinds
  PROVE  CompletionSpec => []MoveArrived
<1>1. CompletionInit => ArriveInv
  <2> SUFFICES ASSUME CompletionInit PROVE ArriveInv
    OBVIOUS
  <2>1. stage = "idle" /\ pending = {} /\ done = {}
        /\ \A m \in Motors : ~fasMoving[m] /\ phase[m] = Idle /\ fasPos[m] = fasTarget[m]
    BY DEF CompletionInit, Init
  <2> QED
    BY <2>1 DEF ArriveInv, Rests, FreeRests, NoLegLeft, UsedOnce
<1>2. Known /\ ArriveInv => MoveArrived
  <2> SUFFICES ASSUME Known, ArriveInv, NEW d \in done, d.op.kind = "MOVE",
                      NEW m \in d.op.mask, op[m] = d.op.cmd
               PROVE  fasPos[m] = d.op.target /\ ~fasMoving[m]
    BY DEF MoveArrived
  <2>1. m \in Motors
    BY DEF Known, IInvOwn, TypeInv, CompletionTypeOK, Operations, Masks
  <2> QED
    BY <2>1 DEF ArriveInv, Stands, Rests
<1>3. CompletionInit => IInv /\ Paid /\ IInvOwn
  BY InitInv, InitPaid, InitTypes, InitOwn DEF CompletionInit, IInvOwn
<1>4. IInv /\ Paid /\ IInvOwn /\ [CompletionNext]_allVars => IInv' /\ Paid' /\ IInvOwn'
  BY PassIsControllerStep, NextInv, NextPaid, StepTypes, StepOwn DEF IInvOwn
<1>5. CompletionInit => Known
  BY <1>3 DEF Known
<1>6. Known /\ [CompletionNext]_allVars => Known'
  BY <1>4 DEF Known
<1> QED
  BY <1>1, <1>2, <1>5, <1>6, StepArrives, PTL DEF CompletionSpec

=============================================================================

--------------------------- MODULE MotorController ---------------------------
(***************************************************************************)
(* The hardware motor controller of the dedicated-step build               *)
(* (lib/MotorControl/src/HardwareMotorController.cpp), driven by the MOVE,  *)
(* HOME, WAKE, SLEEP and SET handlers of CommandHandlers.cpp and by the     *)
(* main loop's tick.                                                       *)
(*                                                                         *)
(* The stepper library behind IFasAdapter (FastAccelStepper) and the       *)
(* mechanics are external: a motor in flight advances one step at a time   *)
(* towards its target, its driver is energised by the library while it     *)
(* runs (auto-enable) or for as long as WAKE holds it, and its carriage is  *)
(* stopped by two hard stops.  Their model comes first, from how the       *)
(* controller uses them.                                                   *)
(*                                                                         *)
(* Lengths are in abstract steps and budgets in abstract units; the real   *)
(* values (2400, 800, 125 steps; 900 tenths, 10 and 15 per second) satisfy *)
(* the assumptions below.                                                  *)
(***************************************************************************)
EXTENDS Integers

CONSTANTS
  Motors,        \* motor ids
  Cmds, NoCmd,   \* ids of MOVE and HOME commands, each used once; no command
  Kinds,         \* the commands operators use in this instance
  HalfRange,     \* MAX_POS_STEPS: MOVE targets lie in -HalfRange..HalfRange
  MoveTargets,   \* the targets operators use
  Overshoot, Backoff,   \* HOME parameters (positive)
  Travel,        \* distance between the hard stops
  BudgetMax, Spend, Refill, CoolSecs, Grace,   \* thermal budget model
  MoveSecs, HomeSecs,   \* estimated seconds of a MOVE and of a HOME
  MaxTickSecs,   \* bound: whole seconds that pass between two ticks
  AsyncCommands  \* TRUE: handlers run on the MQTT task, beside the loop task

FullRange   == 2 * HalfRange
BudgetFloor == BudgetMax - Refill * CoolSecs

(* HOME's first leg reaches the lower stop from anywhere on the travel, and *)
(* the soft range fits above the back-off.                                  *)
ASSUME LengthAssumption ==
  /\ HalfRange \in Nat \ {0} /\ Overshoot \in Nat \ {0}
  /\ Backoff \in Nat \ {0} /\ Travel \in Nat
  /\ Travel <= FullRange + Overshoot
  /\ Backoff + FullRange <= Travel
  /\ MoveTargets \subseteq -HalfRange .. HalfRange

ASSUME BudgetAssumption ==
  /\ BudgetMax \in Nat /\ Spend \in Nat \ {0} /\ Refill \in Nat \ {0}
  /\ Grace \in Nat /\ CoolSecs \in Nat /\ BudgetFloor < -Grace
  /\ MoveSecs \in Nat /\ HomeSecs \in Nat /\ MaxTickSecs \in Nat

ASSUME KindAssumption ==
  /\ Kinds \subseteq {"MOVE", "HOME", "WAKE", "SLEEP", "SET"}
  /\ NoCmd \notin Cmds
  /\ AsyncCommands \in BOOLEAN

VARIABLES
  \* the stepper library and the mechanics
  fasMoving,   \* IFasAdapter::isMoving
  fasPos,      \* IFasAdapter::currentPosition
  fasTarget,   \* target of the last startMoveAbs
  energised,   \* SLEEP pin high: the driver holds the motor
  carriage,    \* distance of the carriage from the lower stop
  due,         \* seconds of estimated motion still ahead of the motor
  \* MotorState, HomingPlan and forced_awake_mask_
  moving, awake, homed, ongoing, budget, op,
  phase,       \* homing_[i].phase, or Idle when homing_[i] is not active
  forced,
  thermal,     \* thermal_limits_enabled_
  \* the command being handled
  stage, req,
  issued,      \* ids already used by accepted commands
  \* history
  cutoff,      \* thermal cut-off hit the motor in flight, which still runs
  spoiled      \* a MOVE or a cut-off disturbed the motor's homing or its zero

fasVars  == <<fasMoving, fasPos, fasTarget, energised, carriage, due>>
ctlVars  == <<moving, awake, homed, ongoing, budget, op, phase, forced>>
reqVars  == <<stage, req>>
histVars == <<cutoff, spoiled>>
vars == <<fasMoving, fasPos, fasTarget, energised, carriage, due,
          moving, awake, homed, ongoing, budget, op, phase, forced,
          thermal, stage, req, issued, cutoff, spoiled>>

Idle   == -1
Phases == {Idle, 0, 1, 2}
NoReq  == [kind |-> "NONE", mask |-> {}, target |-> 0, cmd |-> NoCmd]

TypeOK ==
  /\ fasMoving \in [Motors -> BOOLEAN] /\ energised \in [Motors -> BOOLEAN]
  /\ fasPos \in [Motors -> Int] /\ fasTarget \in [Motors -> Int]
  /\ carriage \in [Motors -> 0..Travel] /\ due \in [Motors -> Nat]
  /\ moving \in [Motors -> BOOLEAN] /\ awake \in [Motors -> BOOLEAN]
  /\ homed \in [Motors -> BOOLEAN] /\ ongoing \in [Motors -> BOOLEAN]
  /\ budget \in [Motors -> BudgetFloor..BudgetMax]
  /\ op \in [Motors -> Cmds \cup {NoCmd}]
  /\ phase \in [Motors -> Phases] /\ forced \in [Motors -> BOOLEAN]
  /\ thermal \in BOOLEAN /\ stage \in {"idle", "admitted", "starting"}
  /\ req.kind \in {"NONE", "MOVE", "HOME", "WAKE", "SLEEP"}
  /\ req.mask \subseteq Motors /\ req.target \in MoveTargets \cup {0}
  /\ req.cmd \in Cmds \cup {NoCmd}
  /\ req.kind \in {"MOVE", "HOME"} => req.cmd \in Cmds
  /\ req.kind = "MOVE" => req.target \in MoveTargets
  /\ issued \subseteq Cmds
  /\ cutoff \in [Motors -> BOOLEAN] /\ spoiled \in [Motors -> BOOLEAN]

(* Power-up: everything asleep, position 0 wherever the carriage stands.    *)
Init ==
  /\ fasMoving = [m \in Motors |-> FALSE]
  /\ fasPos = [m \in Motors |-> 0] /\ fasTarget = [m \in Motors |-> 0]
  /\ energised = [m \in Motors |-> FALSE]
  /\ carriage \in [Motors -> 0..Travel]
  /\ due = [m \in Motors |-> 0]
  /\ moving = [m \in Motors |-> FALSE] /\ awake = [m \in Motors |-> FALSE]
  /\ homed = [m \in Motors |-> FALSE] /\ ongoing = [m \in Motors |-> FALSE]
  /\ budget = [m \in Motors |-> BudgetMax]
  /\ op = [m \in Motors |-> NoCmd]
  /\ phase = [m \in Motors |-> Idle] /\ forced = [m \in Motors |-> FALSE]
  /\ thermal = TRUE
  /\ stage = "idle" /\ req = NoReq /\ issued = {}
  /\ cutoff = [m \in Motors |-> FALSE] /\ spoiled = [m \in Motors |-> FALSE]

-----------------------------------------------------------------------------
(* The stepper library and the mechanics.                                   *)

Towards(from, to) == IF from < to THEN from + 1 ELSE from - 1

(* One step of a running motor.  Without power, or against a hard stop, the *)
(* step is counted but the carriage stays.  At the target the library drops *)
(* the driver unless WAKE switched auto-enable off.                         *)
AdapterStep(m) ==
  LET pos == Towards(fasPos[m], fasTarget[m])
      car == carriage[m] + (pos - fasPos[m])
  IN
  /\ fasMoving[m]
  /\ fasPos' = [fasPos EXCEPT ![m] = pos]
  /\ carriage' = [carriage EXCEPT ![m] =
                    IF energised[m] /\ car \in 0..Travel THEN car ELSE @]
  /\ fasMoving' = [fasMoving EXCEPT ![m] = pos # fasTarget[m]]
  /\ energised' = [energised EXCEPT ![m] =
                     IF pos = fasTarget[m] THEN forced[m] ELSE @]
  /\ cutoff' = [cutoff EXCEPT ![m] = @ /\ pos # fasTarget[m]]
  /\ UNCHANGED <<fasTarget, due, ctlVars, thermal, reqVars, issued, spoiled>>

(* Whole seconds pass only while every motor that runs, or was running at   *)
(* the last tick, has estimated time left: MotionKinematics' estimates are  *)
(* upper bounds, and ticks follow the end of a leg within far less than a   *)
(* second.                                                                  *)
Running(m) == fasMoving[m] \/ moving[m]
SecondsMayPass(s) == \A m \in Motors : Running(m) => s <= due[m]

-----------------------------------------------------------------------------
(* HardwareMotorController::tick, s whole seconds after the one before.     *)

AtLeast(lo, v) == IF v < lo THEN lo ELSE v
AtMost(hi, v)  == IF v > hi THEN hi ELSE v

ChargedWithoutCap(m, s) ==   \* mutant: refills past the maximum
  IF awake[m] THEN AtLeast(BudgetFloor, budget[m] - Spend * s)
              ELSE budget[m] + Refill * s

Charged(m, s) ==
  IF awake[m] THEN AtLeast(BudgetFloor, budget[m] - Spend * s)
              ELSE AtMost(BudgetMax, budget[m] + Refill * s)

CutOff(m, s) == thermal /\ Charged(m, s) < -Grace

Homing(s)   == {m \in Motors : phase[m] # Idle /\ ~CutOff(m, s)}
InLeg(p, s) == {m \in Homing(s) : phase[m] = p}

LegDoneByOne(p, s) == \E m \in InLeg(p, s) : ~fasMoving[m]   \* mutant
LegDoneOnlyLeg(p, s) ==   \* mutant: one barrier for the whole sequence
  /\ InLeg(p, s) # {} /\ InLeg(p, s) = Homing(s)
  /\ \A m \in InLeg(p, s) : ~fasMoving[m]

LegDone(p, s) == InLeg(p, s) # {} /\ \A m \in InLeg(p, s) : ~fasMoving[m]

(* The group barriers, phase 0 before phase 1: motors sent off by the first *)
(* one are moving again when the second is evaluated.                       *)
BackingOff(s) == IF LegDone(0, s) THEN InLeg(0, s) ELSE {}
Centring(s)   == IF LegDone(1, s) /\ ~LegDone(0, s) THEN InLeg(1, s) ELSE {}
LegStarts(s)  == BackingOff(s) \cup Centring(s)
ZeroedInFlight(s) == InLeg(2, s)   \* mutant: does not wait for the last leg
Zeroed(s)     == {m \in InLeg(2, s) : ~fasMoving[m]}

LegGoal(m, s) == fasPos[m] + (IF m \in BackingOff(s) THEN Backoff ELSE HalfRange)

PhaseAfter(m, s) ==
  CASE CutOff(m, s) \/ m \in Zeroed(s) -> Idle
    [] m \in BackingOff(s) -> 1
    [] m \in Centring(s) -> 2
    [] OTHER -> phase[m]

AwakeOnlyRunning(m, s) ==   \* mutant: forgets the WAKE override
  m \in LegStarts(s) \/ (~CutOff(m, s) /\ fasMoving[m])
AwakeAfter(m, s) ==
  m \in LegStarts(s) \/ (~CutOff(m, s) /\ (fasMoving[m] \/ forced[m]))

OngoingWhileMoving(m, s) ==   \* mutant: ends between two legs
  ongoing[m] /\ ~CutOff(m, s) /\ fasMoving[m]
OngoingAfter(m, s) ==
  /\ ongoing[m] /\ ~CutOff(m, s) /\ m \notin Zeroed(s)
  /\ fasMoving[m] \/ phase[m] # Idle

(* The cut-off calls disableOutputs but never stops the stepper library: a  *)
(* motor in flight runs on, powered or not (kept), as the library decides.  *)
TickEffect(s) ==
  /\ SecondsMayPass(s)
  /\ budget' = [m \in Motors |-> Charged(m, s)]
  /\ forced' = [m \in Motors |-> forced[m] /\ ~CutOff(m, s)]
  /\ moving' = [m \in Motors |->
                  m \in LegStarts(s) \/ (fasMoving[m] /\ ~CutOff(m, s))]
  /\ awake' = [m \in Motors |-> AwakeAfter(m, s)]
  /\ ongoing' = [m \in Motors |-> OngoingAfter(m, s)]
  /\ phase' = [m \in Motors |-> PhaseAfter(m, s)]
  /\ homed' = [m \in Motors |-> homed[m] \/ m \in Zeroed(s)]
  /\ fasPos' = [m \in Motors |-> IF m \in Zeroed(s) THEN 0 ELSE fasPos[m]]
  /\ fasTarget' = [m \in Motors |->
                     IF m \in LegStarts(s) THEN LegGoal(m, s)
                     ELSE IF m \in Zeroed(s) THEN 0 ELSE fasTarget[m]]
  /\ fasMoving' = [m \in Motors |-> fasMoving[m] \/ m \in LegStarts(s)]
  /\ \E kept \in SUBSET {m \in Motors : CutOff(m, s) /\ fasMoving[m]} :
       energised' = [m \in Motors |->
                       \/ m \in LegStarts(s)
                       \/ energised[m] /\ (CutOff(m, s) => m \in kept)]
  /\ due' = [m \in Motors |-> IF Running(m) THEN due[m] - s ELSE due[m]]
  /\ cutoff' = [m \in Motors |-> cutoff[m] \/ (CutOff(m, s) /\ fasMoving[m])]
  /\ spoiled' = [m \in Motors |->
                   \/ spoiled[m]
                   \/ CutOff(m, s) /\ phase[m] # Idle
                   \/ CutOff(m, s) /\ fasMoving[m] /\ ~energised'[m]]
  /\ UNCHANGED <<op, carriage>>

(* The loop task's tick.  Handlers of serial commands run on the same task; *)
(* those of MQTT commands (AsyncCommands) may be interrupted by it.         *)
Tick(s) ==
  /\ stage = "idle" \/ AsyncCommands
  /\ TickEffect(s)
  /\ UNCHANGED <<thermal, reqVars, issued>>

-----------------------------------------------------------------------------
(* Command handlers.  Each ticks the controller, checks the budgets, then   *)
(* calls the controller; the steppers run on meanwhile.                     *)

Masks == {{m} : m \in Motors} \cup {Motors}   \* ParseIdMask: an id or ALL

Requests ==
  {r \in [kind : {"MOVE"}, mask : Masks, target : MoveTargets, cmd : Cmds \ issued]
      \cup [kind : {"HOME"}, mask : Masks, target : {0}, cmd : Cmds \ issued]
      \cup [kind : {"WAKE", "SLEEP"}, mask : Masks, target : {0}, cmd : {NoCmd}]
   : r.kind \in Kinds}

(* Whole seconds of budget a request needs: E11 below MOVE's and HOME's     *)
(* estimate, E12 below one second for WAKE.                                 *)
SecsNeeded(kind) ==
  CASE kind = "MOVE" -> MoveSecs [] kind = "HOME" -> HomeSecs
    [] kind = "WAKE" -> 1 [] OTHER -> 0

AffordableByOne(r) ==   \* mutant: one motor of the mask with enough budget will do
  \E m \in r.mask : Spend * SecsNeeded(r.kind) <= AtLeast(0, budget'[m])
Affordable(r) ==
  \A m \in r.mask : Spend * SecsNeeded(r.kind) <= AtLeast(0, budget'[m])

(* A handler up to the controller call.  One that answers E10, E11 or E12   *)
(* has only ticked: that is a Tick step.                                    *)
Receive(r, s) ==
  /\ stage = "idle"
  /\ TickEffect(s)
  /\ thermal => Affordable(r)
  /\ stage' = "admitted" /\ req' = r
  /\ UNCHANGED <<thermal, issued>>

Busy == \E m \in req.mask : fasMoving[m]   \* isAnyMovingForMask

(* E04 BUSY. *)
Refuse ==
  /\ stage = "admitted" /\ req.kind # "WAKE" /\ Busy
  /\ stage' = "idle" /\ req' = NoReq
  /\ UNCHANGED <<fasVars, ctlVars, thermal, issued, histVars>>

(* moveAbsMask and homeMask record the operation of every motor, then start *)
(* the steppers (Launch).                                                   *)
BeginOperation(kind) ==
  /\ stage = "admitted" /\ req.kind = kind /\ ~Busy
  /\ moving' = [m \in Motors |-> moving[m] \/ m \in req.mask]
  /\ awake' = [m \in Motors |-> awake[m] \/ m \in req.mask]
  /\ ongoing' = [m \in Motors |-> ongoing[m] \/ m \in req.mask]
  /\ op' = [m \in Motors |-> IF m \in req.mask THEN req.cmd ELSE op[m]]
  /\ issued' = issued \cup {req.cmd}
  /\ stage' = "starting"
  /\ UNCHANGED <<fasVars, homed, budget, forced, thermal, req, cutoff>>

BeginMove ==
  /\ BeginOperation("MOVE")
  /\ spoiled' = [m \in Motors |->
                   spoiled[m] \/ (m \in req.mask /\ phase[m] # Idle)]
  /\ UNCHANGED phase

BeginHomeKeepPhase ==   \* mutant: a homing still active keeps its phase
  /\ BeginOperation("HOME")
  /\ phase' = [m \in Motors |-> IF m \in req.mask /\ phase[m] = Idle THEN 0 ELSE phase[m]]
  /\ spoiled' = [m \in Motors |-> spoiled[m] /\ m \notin req.mask]

BeginHome ==
  /\ BeginOperation("HOME")
  /\ phase' = [m \in Motors |-> IF m \in req.mask THEN 0 ELSE phase[m]]
  /\ spoiled' = [m \in Motors |-> spoiled[m] /\ m \notin req.mask]

Goal(m) == IF req.kind = "MOVE" THEN req.target
                                ELSE fasPos[m] - (FullRange + Overshoot)

Launch ==
  LET away == {m \in req.mask : Goal(m) # fasPos[m]} IN
  /\ stage = "starting"
  /\ fasTarget' = [m \in Motors |-> IF m \in req.mask THEN Goal(m) ELSE fasTarget[m]]
  /\ fasMoving' = [m \in Motors |-> IF m \in req.mask THEN m \in away ELSE fasMoving[m]]
  /\ energised' = [m \in Motors |-> energised[m] \/ m \in away]
  /\ due' = [m \in Motors |-> IF m \in req.mask THEN SecsNeeded(req.kind) ELSE due[m]]
  /\ stage' = "idle" /\ req' = NoReq
  /\ UNCHANGED <<fasPos, carriage, ctlVars, thermal, issued, histVars>>

Wake ==
  /\ stage = "admitted" /\ req.kind = "WAKE"
  /\ awake' = [m \in Motors |-> awake[m] \/ m \in req.mask]
  /\ forced' = [m \in Motors |-> forced[m] \/ m \in req.mask]
  /\ energised' = [m \in Motors |-> energised[m] \/ m \in req.mask]
  /\ stage' = "idle" /\ req' = NoReq
  /\ UNCHANGED <<fasMoving, fasPos, fasTarget, carriage, due, moving, homed, ongoing,
                 budget, op, phase, thermal, issued, histVars>>

SleepKeepOverride ==   \* mutant: the WAKE override survives SLEEP
  /\ stage = "admitted" /\ req.kind = "SLEEP" /\ ~Busy
  /\ awake' = [m \in Motors |-> awake[m] /\ m \notin req.mask]
  /\ energised' = [m \in Motors |-> energised[m] /\ m \notin req.mask]
  /\ stage' = "idle" /\ req' = NoReq
  /\ UNCHANGED <<fasMoving, fasPos, fasTarget, carriage, due, moving, homed, ongoing,
                 budget, op, phase, forced, thermal, issued, histVars>>

Sleep ==
  /\ stage = "admitted" /\ req.kind = "SLEEP" /\ ~Busy
  /\ awake' = [m \in Motors |-> awake[m] /\ m \notin req.mask]
  /\ forced' = [m \in Motors |-> forced[m] /\ m \notin req.mask]
  /\ energised' = [m \in Motors |-> energised[m] /\ m \notin req.mask]
  /\ stage' = "idle" /\ req' = NoReq
  /\ UNCHANGED <<fasMoving, fasPos, fasTarget, carriage, due, moving, homed, ongoing,
                 budget, op, phase, thermal, issued, histVars>>

(* SET THERMAL_LIMITING=ON|OFF *)
SetThermal ==
  /\ stage = "idle" /\ "SET" \in Kinds
  /\ thermal' = ~thermal
  /\ UNCHANGED <<fasVars, ctlVars, reqVars, issued, histVars>>

Handle == Refuse \/ BeginMove \/ BeginHome \/ Launch \/ Wake \/ Sleep

Next ==
  \/ \E s \in 0..MaxTickSecs : Tick(s)
  \/ \E m \in Motors : AdapterStep(m)
  \/ \E r \in Requests, s \in 0..MaxTickSecs : Receive(r, s)
  \/ Handle
  \/ SetThermal

Spec == Init /\ [][Next]_vars

(* The loop keeps ticking, an admitted command is carried out, and a motor  *)
(* the library runs keeps stepping.  Nobody is obliged to send commands.    *)
Fairness ==
  /\ WF_vars(\E s \in 0..MaxTickSecs : Tick(s))
  /\ WF_vars(Handle)
  /\ \A m \in Motors : WF_vars(AdapterStep(m))

FairSpec == Spec /\ Fairness

-----------------------------------------------------------------------------
(* Properties.                                                              *)

ZeroOffset == Backoff + HalfRange   \* where HOME puts the zero

(* A motor reported homed has its zero where HOME put it: at the back-off    *)
(* plus half the range above the lower stop, through any number of later     *)
(* moves, power changes and homings (tick 404-452, homeMask 264-309), unless *)
(* a MOVE or a thermal cut-off disturbed it since.                           *)
HomedZero ==
  \A m \in Motors :
    homed[m] /\ phase[m] = Idle /\ ~spoiled[m]
      => carriage[m] = fasPos[m] + ZeroOffset

(* The driver of a motor at rest is on exactly when WAKE holds it: no finished *)
(* leg, SLEEP or cut-off leaves it on, none switches a woken motor off         *)
(* (wakeMask, sleepMask, tick 349-375).                                        *)
DriverPower == \A m \in Motors : ~fasMoving[m] => (energised[m] <=> forced[m])

(* Every energised driver is charged to its budget: the controller's cached    *)
(* awake flag, which tick bills, covers all that WAKE, moves and homing legs   *)
(* switch on, but for a motor that runs on after a cut-off (tick 316-335).     *)
PowerAccounted == \A m \in Motors : energised[m] => awake[m] \/ cutoff[m]

(* A stepper in flight belongs to an operation that is still reported as       *)
(* ongoing, so neither DONE nor the next command can overtake it, but for a    *)
(* motor that runs on after a cut-off (tick 380-401).                          *)
NoPhantomMotion == \A m \in Motors : fasMoving[m] => ongoing[m] \/ cutoff[m]

(* No step gives a motor in flight a new target: commands and homing legs      *)
(* only start steppers at rest (moveAbsMask 190, homeMask 252, tick 404-435).  *)
NeverRetargetInFlight ==
  [][\A m \in Motors : fasMoving[m] /\ fasMoving'[m] => fasTarget'[m] = fasTarget[m]]_vars

(* Every operation ends, and with it every homing: the group barriers hold no  *)
(* motor forever, whatever other motors are homed, cut off, woken or put to    *)
(* sleep meanwhile.                                                            *)
OperationsEnd == \A m \in Motors : ongoing[m] ~> (~ongoing[m] /\ phase[m] = Idle)

(* With limits always on and no WAKE, a motion the handlers admit is never cut  *)
(* off: the pre-flight check covers what tick charges for it.                  *)
NeverCutOff == \A m \in Motors : ~cutoff[m]

-----------------------------------------------------------------------------
(* The inductive invariant behind the safety properties, motor by motor, for  *)
(* the handlers that run on the loop task (MotorControllerProofs).            *)

Launching(m) == stage = "starting" /\ m \in req.mask

SoftRange == -HalfRange .. HalfRange

(* A request between recording and launching holds its motors at rest.        *)
LaunchInv(m) ==
  Launching(m) =>
    /\ ~fasMoving[m] /\ awake[m] /\ ongoing[m]
    /\ req.kind = "HOME" => phase[m] = 0
    /\ req.kind = "MOVE" /\ ~spoiled[m] => phase[m] = Idle

(* Power follows motion and WAKE, and the controller's view follows power.    *)
PowerInv(m) ==
  /\ ~fasMoving[m] /\ energised[m] => forced[m]
  /\ forced[m] => energised[m] /\ awake[m]
  /\ fasMoving[m] /\ ~spoiled[m] => energised[m]
  /\ energised[m] => awake[m] \/ cutoff[m]

MotionInv(m) ==
  /\ fasMoving[m] => fasPos[m] # fasTarget[m]
  /\ fasMoving[m] => ongoing[m] \/ cutoff[m]
  /\ phase[m] # Idle => ongoing[m]

(* Where the carriage is on each leg of an undisturbed homing: below what is   *)
(* left of the first leg, then at known distances from the end of the others.  *)
LegInv(m) ==
  phase[m] # Idle /\ ~spoiled[m] /\ ~Launching(m) =>
    /\ ~fasMoving[m] => fasPos[m] = fasTarget[m]
    /\ phase[m] = 0 => /\ fasTarget[m] <= fasPos[m]
                       /\ carriage[m] <= fasPos[m] - fasTarget[m]
    /\ phase[m] = 1 => /\ fasPos[m] <= fasTarget[m]
                       /\ carriage[m] = Backoff - (fasTarget[m] - fasPos[m])
    /\ phase[m] = 2 => /\ fasPos[m] <= fasTarget[m]
                       /\ carriage[m] = ZeroOffset - (fasTarget[m] - fasPos[m])

(* A homed motor keeps its zero because it stays within the soft range, away   *)
(* from both hard stops.                                                       *)
ZeroInv(m) ==
  homed[m] /\ phase[m] = Idle /\ ~spoiled[m] =>
    /\ carriage[m] = fasPos[m] + ZeroOffset
    /\ fasPos[m] \in SoftRange
    /\ fasMoving[m] => fasTarget[m] \in SoftRange

MotorInv(m) ==
  LaunchInv(m) /\ PowerInv(m) /\ MotionInv(m) /\ LegInv(m) /\ ZeroInv(m)

IInv ==
  /\ TypeOK
  /\ stage = "starting" => req.kind \in {"MOVE", "HOME"}
  /\ \A m \in Motors : MotorInv(m)

=============================================================================

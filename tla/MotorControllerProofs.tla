------------------------ MODULE MotorControllerProofs ------------------------
(***************************************************************************)
(* Theorems about MotorController, for any motors, commands, lengths and    *)
(* budgets that satisfy its assumptions.                                   *)
(***************************************************************************)
EXTENDS MotorController, TLAPS

-----------------------------------------------------------------------------
(* Arithmetic of the constants.                                             *)

(* What the lengths promise: HOME's first leg covers the whole travel, and    *)
(* the soft range around the zero fits on it.                                *)
LEMMA Lengths ==
  /\ HalfRange \in Nat /\ HalfRange > 0 /\ Backoff \in Nat /\ Backoff > 0
  /\ Travel \in Nat /\ FullRange \in Nat /\ FullRange = HalfRange + HalfRange
  /\ Overshoot \in Nat /\ ZeroOffset \in Nat /\ ZeroOffset = Backoff + HalfRange
  /\ Travel <= FullRange + Overshoot
  /\ ZeroOffset + HalfRange <= Travel
  /\ MoveTargets \subseteq SoftRange /\ MoveTargets \subseteq Int
BY LengthAssumption DEF FullRange, ZeroOffset, SoftRange

(* The range of the budgets.                                                *)
LEMMA Budgets ==
  /\ BudgetFloor \in Int /\ BudgetMax \in Nat /\ BudgetFloor <= BudgetMax
  /\ MoveSecs \in Nat /\ HomeSecs \in Nat
<1>1. Refill * CoolSecs \in Nat
  BY BudgetAssumption
<1> QED
  BY <1>1, BudgetAssumption DEF BudgetFloor

(* The charge of a tick stays between the floor and the maximum.            *)
LEMMA ChargedInRange ==
  ASSUME TypeOK, NEW m \in Motors, NEW s \in 0..MaxTickSecs
  PROVE  Charged(m, s) \in BudgetFloor..BudgetMax
<1>1. s \in Nat /\ Spend * s \in Nat /\ Refill * s \in Nat
  BY BudgetAssumption
<1>2. budget[m] \in BudgetFloor..BudgetMax
  BY DEF TypeOK
<1>3. PICK spent \in Nat, cooled \in Nat : spent = Spend * s /\ cooled = Refill * s
  BY <1>1
<1>4. Charged(m, s) = IF awake[m] THEN AtLeast(BudgetFloor, budget[m] - spent)
                                  ELSE AtMost(BudgetMax, budget[m] + cooled)
  BY <1>3, Zenon DEF Charged
<1> HIDE DEF Charged
<1> QED
  BY <1>2, <1>4, Budgets DEF AtLeast, AtMost

-----------------------------------------------------------------------------
(* What a tick does to one motor.                                           *)

(* The motors a tick starts or zeroes stand still in the leg concerned.     *)
LEMMA TickSets ==
  ASSUME NEW s, NEW m \in Motors
  PROVE  /\ m \in BackingOff(s) => phase[m] = 0 /\ ~CutOff(m, s) /\ ~fasMoving[m]
         /\ m \in Centring(s)   => phase[m] = 1 /\ ~CutOff(m, s) /\ ~fasMoving[m]
         /\ m \in Zeroed(s) <=> phase[m] = 2 /\ ~CutOff(m, s) /\ ~fasMoving[m]
         /\ m \in LegStarts(s) <=> m \in BackingOff(s) \/ m \in Centring(s)
BY SMT DEF BackingOff, Centring, Zeroed, LegStarts, LegDone, InLeg, Homing, Idle

(* The new values of every component of one motor.                          *)
LEMMA TickAtMotor ==
  ASSUME NEW s, TickEffect(s), NEW m \in Motors
  PROVE  /\ forced'[m] = (forced[m] /\ ~CutOff(m, s))
         /\ awake'[m] = AwakeAfter(m, s)
         /\ ongoing'[m] = OngoingAfter(m, s)
         /\ phase'[m] = PhaseAfter(m, s)
         /\ homed'[m] = (homed[m] \/ m \in Zeroed(s))
         /\ fasPos'[m] = IF m \in Zeroed(s) THEN 0 ELSE fasPos[m]
         /\ fasTarget'[m] = IF m \in LegStarts(s) THEN LegGoal(m, s)
                            ELSE IF m \in Zeroed(s) THEN 0 ELSE fasTarget[m]
         /\ fasMoving'[m] = (fasMoving[m] \/ m \in LegStarts(s))
         /\ cutoff'[m] = (cutoff[m] \/ (CutOff(m, s) /\ fasMoving[m]))
         /\ carriage' = carriage /\ op' = op
BY Zenon DEF TickEffect

(* The power of one motor after a tick: a leg starts with it, a cut-off takes *)
(* it from a motor at rest.                                                  *)
LEMMA TickPower ==
  ASSUME NEW s, TickEffect(s), NEW m \in Motors
  PROVE  /\ energised'[m] => m \in LegStarts(s) \/ energised[m]
         /\ m \in LegStarts(s) => energised'[m]
         /\ energised[m] /\ ~CutOff(m, s) => energised'[m]
         /\ energised'[m] /\ CutOff(m, s) => m \in LegStarts(s) \/ fasMoving[m]
         /\ spoiled'[m] = (\/ spoiled[m]
                           \/ CutOff(m, s) /\ phase[m] # Idle
                           \/ CutOff(m, s) /\ fasMoving[m] /\ ~energised'[m])
<1>1. PICK kept \in SUBSET {i \in Motors : CutOff(i, s) /\ fasMoving[i]} :
        energised' = [i \in Motors |->
                        \/ i \in LegStarts(s)
                        \/ energised[i] /\ (CutOff(i, s) => i \in kept)]
  BY DEF TickEffect
<1>2. m \in kept => CutOff(m, s) /\ fasMoving[m]
  OBVIOUS
<1>3. spoiled' = [i \in Motors |->
                   \/ spoiled[i]
                   \/ CutOff(i, s) /\ phase[i] # Idle
                   \/ CutOff(i, s) /\ fasMoving[i] /\ ~energised'[i]]
  BY DEF TickEffect
<1> HIDE DEF LegStarts, CutOff
<1> QED
  BY <1>1, <1>2, <1>3, Zenon

(* A tick keeps every variable in its range.                                *)
LEMMA TickTypes ==
  ASSUME TypeOK, NEW s \in 0..MaxTickSecs, TickEffect(s)
  PROVE  /\ fasMoving' \in [Motors -> BOOLEAN] /\ energised' \in [Motors -> BOOLEAN]
         /\ fasPos' \in [Motors -> Int] /\ fasTarget' \in [Motors -> Int]
         /\ carriage' \in [Motors -> 0..Travel] /\ due' \in [Motors -> Nat]
         /\ moving' \in [Motors -> BOOLEAN] /\ awake' \in [Motors -> BOOLEAN]
         /\ homed' \in [Motors -> BOOLEAN] /\ ongoing' \in [Motors -> BOOLEAN]
         /\ budget' \in [Motors -> BudgetFloor..BudgetMax]
         /\ op' \in [Motors -> Cmds \cup {NoCmd}]
         /\ phase' \in [Motors -> Phases] /\ forced' \in [Motors -> BOOLEAN]
         /\ cutoff' \in [Motors -> BOOLEAN] /\ spoiled' \in [Motors -> BOOLEAN]
<1>1. budget' \in [Motors -> BudgetFloor..BudgetMax]
  <2>1. \A m \in Motors : Charged(m, s) \in BudgetFloor..BudgetMax
    BY ChargedInRange
  <2> QED
    BY <2>1, Zenon DEF TickEffect
<1>2. due' \in [Motors -> Nat]
  <2>1. \A m \in Motors : (IF Running(m) THEN due[m] - s ELSE due[m]) \in Nat
    BY BudgetAssumption DEF TypeOK, TickEffect, SecondsMayPass
  <2> QED
    BY <2>1, Zenon DEF TickEffect
<1>3. fasTarget' \in [Motors -> Int]
  <2>1. \A m \in Motors : LegGoal(m, s) \in Int
    BY Lengths DEF TypeOK, LegGoal
  <2> QED
    BY <2>1, SMT DEF TickEffect, TypeOK
<1>4. fasPos' \in [Motors -> Int]
  BY SMT DEF TickEffect, TypeOK
<1>5. phase' \in [Motors -> Phases]
  <2>1. \A m \in Motors : PhaseAfter(m, s) \in Phases
    BY SMT DEF PhaseAfter, Phases, TypeOK, Idle
  <2> QED
    BY <2>1, Zenon DEF TickEffect
<1>6. carriage' \in [Motors -> 0..Travel] /\ op' \in [Motors -> Cmds \cup {NoCmd}]
  BY DEF TickEffect, TypeOK
<1>7. /\ moving' \in [Motors -> BOOLEAN] /\ awake' \in [Motors -> BOOLEAN]
      /\ ongoing' \in [Motors -> BOOLEAN] /\ homed' \in [Motors -> BOOLEAN]
      /\ forced' \in [Motors -> BOOLEAN] /\ fasMoving' \in [Motors -> BOOLEAN]
      /\ cutoff' \in [Motors -> BOOLEAN] /\ spoiled' \in [Motors -> BOOLEAN]
  <2>1. \A m \in Motors : AwakeAfter(m, s) \in BOOLEAN /\ OngoingAfter(m, s) \in BOOLEAN
    BY Zenon DEF AwakeAfter, OngoingAfter
  <2> QED
    BY <2>1, SMT DEF TickEffect, TypeOK
<1>8. energised' \in [Motors -> BOOLEAN]
  BY SMT DEF TickEffect
<1> QED
  BY <1>1, <1>2, <1>3, <1>4, <1>5, <1>6, <1>7, <1>8

-----------------------------------------------------------------------------
(* Type correctness.                                                        *)

(* Power-up states have the right types.                                    *)
LEMMA InitType == Init => TypeOK
<1> SUFFICES ASSUME Init PROVE TypeOK
  OBVIOUS
<1>1. budget \in [Motors -> BudgetFloor..BudgetMax]
  BY Budgets DEF Init
<1>2. phase \in [Motors -> Phases]
  BY DEF Init, Phases, Idle
<1>3. carriage \in [Motors -> 0..Travel] /\ due \in [Motors -> Nat]
  BY DEF Init
<1> QED
  BY <1>1, <1>2, <1>3 DEF Init, TypeOK, NoReq

(* The parts of a request.                                                  *)
LEMMA RequestTypes ==
  ASSUME NEW r \in Requests
  PROVE  /\ r.kind \in {"MOVE", "HOME", "WAKE", "SLEEP"}
         /\ r.mask \subseteq Motors /\ r.target \in MoveTargets \cup {0}
         /\ r.cmd \in Cmds \cup {NoCmd}
         /\ r.kind \in {"MOVE", "HOME"} => r.cmd \in Cmds
         /\ r.kind = "MOVE" => r.target \in MoveTargets
<1>1. r.mask \in Masks => r.mask \subseteq Motors
  BY DEF Masks
<1> QED
  BY <1>1 DEF Requests

(* Every step keeps the types.                                              *)
LEMMA NextType == TypeOK /\ [Next]_vars => TypeOK'
<1> SUFFICES ASSUME TypeOK, [Next]_vars PROVE TypeOK'
  OBVIOUS
<1>1. ASSUME NEW s \in 0..MaxTickSecs, Tick(s) PROVE TypeOK'
  <2>1. TickEffect(s) /\ UNCHANGED <<thermal, reqVars, issued>>
    BY <1>1 DEF Tick
  <2> QED
    BY <2>1, TickTypes DEF TypeOK, reqVars
<1>2. ASSUME NEW m \in Motors, AdapterStep(m) PROVE TypeOK'
  <2>1. Towards(fasPos[m], fasTarget[m]) \in Int
    BY DEF TypeOK, Towards
  <2>2. /\ fasPos' \in [Motors -> Int] /\ carriage' \in [Motors -> 0..Travel]
        /\ fasMoving' \in [Motors -> BOOLEAN] /\ cutoff' \in [Motors -> BOOLEAN]
        /\ energised' \in [Motors -> BOOLEAN]
    BY <1>2, <2>1, SMT DEF AdapterStep, TypeOK
  <2> QED
    BY <1>2, <2>2 DEF AdapterStep, TypeOK, ctlVars, reqVars
<1>3. ASSUME NEW r \in Requests, NEW s \in 0..MaxTickSecs, Receive(r, s) PROVE TypeOK'
  <2>1. TickEffect(s) /\ stage' = "admitted" /\ req' = r /\ UNCHANGED <<thermal, issued>>
    BY <1>3 DEF Receive
  <2> QED
    BY <2>1, TickTypes, RequestTypes DEF TypeOK
<1>4. CASE Refuse
  BY <1>4 DEF Refuse, TypeOK, NoReq, fasVars, ctlVars, histVars
<1>5. ASSUME NEW kind \in {"MOVE", "HOME"}, BeginOperation(kind),
             phase' \in [Motors -> Phases], spoiled' \in [Motors -> BOOLEAN]
      PROVE  TypeOK'
  <2>1. /\ moving' \in [Motors -> BOOLEAN] /\ awake' \in [Motors -> BOOLEAN]
        /\ ongoing' \in [Motors -> BOOLEAN] /\ op' \in [Motors -> Cmds \cup {NoCmd}]
        /\ issued' \subseteq Cmds
    BY <1>5, SMT DEF BeginOperation, TypeOK
  <2> QED
    BY <1>5, <2>1 DEF BeginOperation, TypeOK, fasVars
<1>6. CASE BeginMove
  <2>1. phase' \in [Motors -> Phases] /\ spoiled' \in [Motors -> BOOLEAN]
    BY <1>6, SMT DEF BeginMove, TypeOK
  <2> QED
    BY <1>5, <1>6, <2>1 DEF BeginMove
<1>7. CASE BeginHome
  <2>1. phase' \in [Motors -> Phases] /\ spoiled' \in [Motors -> BOOLEAN]
    BY <1>7, SMT DEF BeginHome, TypeOK, Phases
  <2> QED
    BY <1>5, <1>7, <2>1 DEF BeginHome
<1>8. CASE Launch
  <2> DEFINE away == {m \in req.mask : Goal(m) # fasPos[m]}
  <2>1. \A m \in Motors : Goal(m) \in Int
    <3>1. req.target \in Int /\ FullRange + Overshoot \in Int
      <4>1. req.target \in MoveTargets \cup {0}
        BY DEF TypeOK
      <4>2. QED
        <5>1. \A t \in MoveTargets : t \in Int
          BY Lengths
        <5>2. FullRange + Overshoot \in Int
          BY Lengths
        <5>3. 0 \in Int
          OBVIOUS
        <5> QED
          BY <4>1, <5>1, <5>2, <5>3, Zenon
    <3>2. \A m \in Motors : fasPos[m] - (FullRange + Overshoot) \in Int
      BY <3>1 DEF TypeOK
    <3> QED
      BY <3>1, <3>2, Zenon DEF Goal
  <2>2. SecsNeeded(req.kind) \in Nat
    BY Budgets DEF SecsNeeded
  <2>3. /\ fasTarget' \in [Motors -> Int] /\ due' \in [Motors -> Nat]
        /\ fasMoving' \in [Motors -> BOOLEAN] /\ energised' \in [Motors -> BOOLEAN]
    <3>1. \A m \in Motors : (IF m \in req.mask THEN Goal(m) ELSE fasTarget[m]) \in Int
      BY <2>1, Zenon DEF TypeOK
    <3>2. \A m \in Motors : (IF m \in req.mask THEN SecsNeeded(req.kind) ELSE due[m]) \in Nat
      BY <2>2, Zenon DEF TypeOK
    <3>3. \A m \in Motors : (IF m \in req.mask THEN m \in away ELSE fasMoving[m]) \in BOOLEAN
      <4>1. \A m \in Motors : fasMoving[m] \in BOOLEAN
        BY DEF TypeOK
      <4> HIDE DEF away
      <4>2. \A m \in Motors : (m \in away) \in BOOLEAN
        OBVIOUS
      <4> SUFFICES ASSUME NEW m \in Motors
                   PROVE  (IF m \in req.mask THEN m \in away ELSE fasMoving[m]) \in BOOLEAN
        OBVIOUS
      <4>3. CASE m \in req.mask
        BY <4>2, <4>3, Zenon
      <4>4. CASE m \notin req.mask
        BY <4>1, <4>4, Zenon
      <4> QED
        BY <4>3, <4>4
    <3>4. \A m \in Motors : (energised[m] \/ m \in away) \in BOOLEAN
      BY Zenon
    <3>5. /\ fasTarget' = [m \in Motors |-> IF m \in req.mask THEN Goal(m) ELSE fasTarget[m]]
          /\ fasMoving' = [m \in Motors |-> IF m \in req.mask THEN m \in away ELSE fasMoving[m]]
          /\ energised' = [m \in Motors |-> energised[m] \/ m \in away]
          /\ due' = [m \in Motors |->
                       IF m \in req.mask THEN SecsNeeded(req.kind) ELSE due[m]]
      BY <1>8, Zenon DEF Launch
    <3> HIDE DEF away
    <3> QED
      BY <3>1, <3>2, <3>3, <3>4, <3>5, Zenon
  <2> QED
    BY <1>8, <2>3 DEF Launch, TypeOK, NoReq, ctlVars, histVars
<1>9. CASE Wake
  BY <1>9, SMT DEF Wake, TypeOK, NoReq, histVars
<1>10. CASE Sleep
  BY <1>10, SMT DEF Sleep, TypeOK, NoReq, histVars
<1>11. CASE SetThermal
  BY <1>11 DEF SetThermal, TypeOK, fasVars, ctlVars, reqVars, histVars
<1>12. CASE UNCHANGED vars
  BY <1>12 DEF vars, TypeOK
<1> QED
  BY <1>1, <1>2, <1>3, <1>4, <1>6, <1>7, <1>8, <1>9, <1>10, <1>11, <1>12
  DEF Next, Handle

(* Every variable keeps its range in every behaviour: budgets stay between   *)
(* the cool-down floor and the maximum, carriages between the hard stops.    *)
THEOREM TypeCorrect == Spec => []TypeOK
<1> QED
  BY InitType, NextType, PTL DEF Spec

-----------------------------------------------------------------------------
(* The inductive invariant.                                                 *)

(* Power-up: nothing moves, nothing is homed.                               *)
LEMMA InitInv == Init => IInv
<1> SUFFICES ASSUME Init PROVE IInv
  OBVIOUS
<1>1. TypeOK /\ stage = "idle"
  BY InitType DEF Init
<1>2. ASSUME NEW m \in Motors PROVE MotorInv(m)
  <2>1. ~fasMoving[m] /\ ~energised[m] /\ ~forced[m] /\ phase[m] = Idle /\ ~homed[m]
    BY Zenon DEF Init
  <2>2. ~Launching(m)
    BY <1>1 DEF Launching
  <2> QED
    BY <2>1, <2>2, Zenon
    DEF MotorInv, LaunchInv, PowerInv, MotionInv, LegInv, ZeroInv
<1> QED
  BY <1>1, <1>2 DEF IInv

(* A tick, whether the loop's or a handler's, with no command in between.   *)
LEMMA TickInv ==
  ASSUME IInv, NEW s \in 0..MaxTickSecs, TickEffect(s), stage = "idle",
         stage' # "starting", NEW m \in Motors
  PROVE  MotorInv(m)'
<1> DEFINE cut   == CutOff(m, s)
           back  == m \in BackingOff(s)
           mid   == m \in Centring(s)
           zero  == m \in Zeroed(s)
           leg   == m \in LegStarts(s)
<1>1. MotorInv(m) /\ TypeOK
  BY DEF IInv
<1>2. ~Launching(m) /\ ~Launching(m)'
  BY DEF Launching
<1>3. /\ fasPos[m] \in Int /\ fasTarget[m] \in Int /\ carriage[m] \in 0..Travel
      /\ phase[m] \in {Idle, 0, 1, 2}
  BY <1>1 DEF TypeOK, Phases
<1>4. /\ back => phase[m] = 0 /\ ~cut /\ ~fasMoving[m]
      /\ mid  => phase[m] = 1 /\ ~cut /\ ~fasMoving[m]
      /\ zero <=> phase[m] = 2 /\ ~cut /\ ~fasMoving[m]
      /\ leg <=> back \/ mid
  BY TickSets
<1>5. /\ forced'[m] <=> forced[m] /\ ~cut
      /\ awake'[m] <=> leg \/ (~cut /\ (fasMoving[m] \/ forced[m]))
      /\ ongoing'[m] <=> ongoing[m] /\ ~cut /\ ~zero /\ (fasMoving[m] \/ phase[m] # Idle)
      /\ homed'[m] <=> homed[m] \/ zero
      /\ fasMoving'[m] <=> fasMoving[m] \/ leg
      /\ cutoff'[m] <=> cutoff[m] \/ (cut /\ fasMoving[m])
  BY TickAtMotor, Zenon DEF AwakeAfter, OngoingAfter
<1>6. /\ fasPos'[m] = IF zero THEN 0 ELSE fasPos[m]
      /\ fasTarget'[m] = IF leg THEN LegGoal(m, s) ELSE IF zero THEN 0 ELSE fasTarget[m]
      /\ phase'[m] = PhaseAfter(m, s)
      /\ carriage'[m] = carriage[m]
  BY TickAtMotor, Zenon
<1>7. /\ cut \/ zero => phase'[m] = Idle
      /\ back => phase'[m] = 1
      /\ mid => phase'[m] = 2
      /\ ~cut /\ ~zero /\ ~back /\ ~mid => phase'[m] = phase[m]
  <2>1. Idle # 0 /\ Idle # 1 /\ Idle # 2 /\ 1 # 0 /\ 1 # 2 /\ 0 # 2
    BY DEF Idle
  <2>2. mid => ~back
    BY <1>4, <2>1
  <2> HIDE DEF zero, back, mid, cut
  <2>3. phase'[m] = CASE cut \/ zero -> Idle [] back -> 1 [] mid -> 2 [] OTHER -> phase[m]
    BY <1>6, Zenon DEF PhaseAfter, zero, back, mid, cut
  <2> QED
    BY <1>4, <2>1, <2>2, <2>3, Zenon
<1>8. /\ energised'[m] => leg \/ energised[m]
      /\ leg => energised'[m]
      /\ energised[m] /\ ~cut => energised'[m]
      /\ energised'[m] /\ cut => leg \/ fasMoving[m]
      /\ spoiled'[m] <=> \/ spoiled[m]
                         \/ cut /\ phase[m] # Idle
                         \/ cut /\ fasMoving[m] /\ ~energised'[m]
  BY TickPower, Zenon
<1>9. /\ back => LegGoal(m, s) = fasPos[m] + Backoff
      /\ mid => LegGoal(m, s) = fasPos[m] + HalfRange
  <2>1. phase[m] = 1 => phase[m] # 0
    BY <1>3 DEF Idle
  <2>2. mid => ~back
    BY <1>4, <2>1
  <2> QED
    BY <2>2, Zenon DEF LegGoal
<1> HIDE DEF cut, back, mid, zero, leg
<1>10. PowerInv(m)'
  <2>1. PowerInv(m)
    BY <1>1 DEF MotorInv
  <2>2. leg => ~cut
    BY <1>4
  <2> QED
    BY <1>4, <1>5, <1>8, <2>1, <2>2, Zenon DEF PowerInv
<1>11. MotionInv(m)'
  <2>1. MotionInv(m)
    BY <1>1 DEF MotorInv
  <2>2. fasMoving'[m] => fasPos'[m] # fasTarget'[m]
    BY <2>1, <1>3, <1>4, <1>5, <1>6, <1>9, Lengths DEF MotionInv
  <2>3. fasMoving'[m] => ongoing'[m] \/ cutoff'[m]
    <3>1. leg => phase[m] # Idle
      BY <1>4 DEF Idle
    <3>2. zero => ~fasMoving[m] /\ ~leg
      BY <1>4, <1>3
    <3> QED
      BY <2>1, <3>1, <3>2, <1>4, <1>5, Zenon DEF MotionInv
  <2>4. phase'[m] # Idle => ongoing'[m]
    BY <2>1, <1>3, <1>4, <1>5, <1>7 DEF MotionInv, Idle
  <2> QED
    BY <2>2, <2>3, <2>4, Zenon DEF MotionInv
<1>12. LegInv(m)'
  <2>1. LegInv(m)
    BY <1>1 DEF MotorInv
  <2>2. SUFFICES ASSUME phase'[m] # Idle, ~spoiled'[m]
                 PROVE  /\ ~fasMoving'[m] => fasPos'[m] = fasTarget'[m]
                        /\ phase'[m] = 0 => /\ fasTarget'[m] <= fasPos'[m]
                                            /\ carriage'[m] <= fasPos'[m] - fasTarget'[m]
                        /\ phase'[m] = 1 =>
                             /\ fasPos'[m] <= fasTarget'[m]
                             /\ carriage'[m] = Backoff - (fasTarget'[m] - fasPos'[m])
                        /\ phase'[m] = 2 =>
                             /\ fasPos'[m] <= fasTarget'[m]
                             /\ carriage'[m] = ZeroOffset - (fasTarget'[m] - fasPos'[m])
    BY Zenon DEF LegInv
  <2>3. ~cut /\ ~zero /\ ~spoiled[m]
    BY <1>7, <1>8, <2>2
  <2>4. CASE back
    BY <2>1, <2>3, <2>4, <1>2, <1>3, <1>4, <1>5, <1>6, <1>7, <1>9, Lengths DEF LegInv, Idle
  <2>5. CASE mid
    BY <2>1, <2>3, <2>5, <1>2, <1>3, <1>4, <1>5, <1>6, <1>7, <1>9, Lengths DEF LegInv, Idle
  <2>6. CASE ~back /\ ~mid
    BY <2>1, <2>2, <2>3, <2>6, <1>2, <1>3, <1>4, <1>5, <1>6, <1>7 DEF LegInv
  <2> QED
    BY <2>4, <2>5, <2>6
<1>13. ZeroInv(m)'
  <2>1. ZeroInv(m) /\ LegInv(m)
    BY <1>1 DEF MotorInv
  <2>2. SUFFICES ASSUME homed'[m], phase'[m] = Idle, ~spoiled'[m]
                 PROVE  /\ carriage'[m] = fasPos'[m] + ZeroOffset
                        /\ fasPos'[m] \in SoftRange
                        /\ fasMoving'[m] => fasTarget'[m] \in SoftRange
    BY Zenon DEF ZeroInv, SoftRange
  <2>3. ~spoiled[m] /\ ~leg
    BY <2>2, <1>4, <1>7, <1>8 DEF Idle
  <2>4. CASE zero
    BY <2>1, <2>3, <2>4, <1>2, <1>3, <1>4, <1>5, <1>6, Lengths DEF LegInv, Idle, SoftRange
  <2>5. CASE ~zero
    <3>1. phase[m] = Idle /\ homed[m]
      BY <2>2, <2>3, <2>5, <1>4, <1>5, <1>7, <1>8
    <3> QED
      BY <3>1, <2>1, <2>3, <2>5, <1>5, <1>6, Zenon DEF ZeroInv
  <2> QED
    BY <2>4, <2>5
<1>14. LaunchInv(m)'
  BY <1>2, Zenon DEF LaunchInv
<1> QED
  BY <1>10, <1>11, <1>12, <1>13, <1>14, Zenon DEF MotorInv

(* A motor a step leaves alone keeps its invariant.                         *)
LEMMA UntouchedInv ==
  ASSUME NEW m \in Motors, MotorInv(m),
         fasMoving'[m] = fasMoving[m], fasPos'[m] = fasPos[m],
         fasTarget'[m] = fasTarget[m], energised'[m] = energised[m],
         carriage'[m] = carriage[m], awake'[m] = awake[m], homed'[m] = homed[m],
         ongoing'[m] = ongoing[m], phase'[m] = phase[m], forced'[m] = forced[m],
         cutoff'[m] = cutoff[m], spoiled'[m] = spoiled[m],
         Launching(m)' <=> Launching(m), Launching(m)' => req' = req
  PROVE  MotorInv(m)'
<1>1. LaunchInv(m)' /\ PowerInv(m)'
  BY Zenon DEF MotorInv, LaunchInv, PowerInv
<1>2. MotionInv(m)' /\ LegInv(m)' /\ ZeroInv(m)'
  BY Zenon DEF MotorInv, MotionInv, LegInv, ZeroInv
<1> QED
  BY <1>1, <1>2, Zenon DEF MotorInv

(* A step of a running stepper, at a hard stop or free, last or not.         *)
LEMMA StepInv ==
  ASSUME IInv, NEW i \in Motors, AdapterStep(i), NEW m \in Motors
  PROVE  MotorInv(m)'
<1> DEFINE pos == Towards(fasPos[m], fasTarget[m])
           car == carriage[m] + (pos - fasPos[m])
<1>1. MotorInv(m) /\ TypeOK
  BY DEF IInv
<1>2. /\ Launching(m)' <=> Launching(m)
      /\ req' = req /\ awake'[m] = awake[m] /\ forced'[m] = forced[m]
      /\ homed'[m] = homed[m] /\ ongoing'[m] = ongoing[m] /\ phase'[m] = phase[m]
      /\ fasTarget'[m] = fasTarget[m] /\ spoiled'[m] = spoiled[m]
  BY Zenon DEF AdapterStep, Launching, reqVars, ctlVars
<1>3. CASE m # i
  <2>1. /\ fasMoving'[m] = fasMoving[m] /\ fasPos'[m] = fasPos[m]
        /\ energised'[m] = energised[m] /\ carriage'[m] = carriage[m]
        /\ cutoff'[m] = cutoff[m]
    BY <1>1, <1>3, SMT DEF AdapterStep, TypeOK
  <2> QED
    BY <1>1, <1>2, <2>1, UntouchedInv
<1>4. CASE m = i
  <2>1. /\ fasPos[m] \in Int /\ fasTarget[m] \in Int /\ carriage[m] \in 0..Travel
        /\ phase[m] \in {Idle, 0, 1, 2}
    BY <1>1 DEF TypeOK, Phases
  <2>2. fasMoving[m] /\ fasPos'[m] = pos
    BY <1>1, <1>4, SMT DEF AdapterStep, TypeOK
  <2>3. carriage'[m] = IF energised[m] /\ car \in 0..Travel THEN car ELSE carriage[m]
    BY <1>1, <1>4, SMT DEF AdapterStep, TypeOK
  <2>4. fasMoving'[m] <=> pos # fasTarget[m]
    <3>1. fasMoving' = [fasMoving EXCEPT ![m] = pos # fasTarget[m]]
      BY <1>4, Zenon DEF AdapterStep
    <3>2. fasMoving \in [Motors -> BOOLEAN]
      BY <1>1 DEF TypeOK
    <3> QED
      BY <3>1, <3>2, Zenon
  <2>5. energised'[m] <=> IF pos = fasTarget[m] THEN forced[m] ELSE energised[m]
    BY <1>1, <1>4, SMT DEF AdapterStep, TypeOK
  <2>6. cutoff'[m] <=> cutoff[m] /\ pos # fasTarget[m]
    <3>1. cutoff' = [cutoff EXCEPT ![m] = cutoff[m] /\ pos # fasTarget[m]]
      BY <1>4, Zenon DEF AdapterStep
    <3>2. cutoff \in [Motors -> BOOLEAN]
      BY <1>1 DEF TypeOK
    <3> QED
      BY <3>1, <3>2, Zenon
  <2>7. /\ fasPos[m] < fasTarget[m] => pos = fasPos[m] + 1
        /\ fasPos[m] > fasTarget[m] => pos = fasPos[m] - 1
        /\ fasPos[m] # fasTarget[m]
    BY <1>1, <2>1, <2>2 DEF MotorInv, MotionInv, Towards
  <2> HIDE DEF pos
  <2>8. ~Launching(m)
    BY <1>1, <2>2, Zenon DEF MotorInv, LaunchInv
  <2>9. LaunchInv(m)'
    BY <1>2, <2>8, Zenon DEF LaunchInv
  <2>10. PowerInv(m)'
    BY <1>1, <1>2, <2>2, <2>4, <2>5, <2>6, Zenon DEF MotorInv, PowerInv
  <2>11. MotionInv(m)'
    BY <1>1, <1>2, <2>2, <2>4, <2>6, Zenon DEF MotorInv, MotionInv
  <2>12. ~spoiled[m] => energised[m]
    BY <1>1, <2>2, Zenon DEF MotorInv, PowerInv
  <2>13. LegInv(m)'
    <3>1. SUFFICES ASSUME phase[m] # Idle, ~spoiled[m]
                   PROVE  /\ pos = fasTarget[m] \/ fasMoving'[m]
                          /\ phase[m] = 0 => /\ fasTarget[m] <= pos
                                             /\ carriage'[m] <= pos - fasTarget[m]
                          /\ phase[m] = 1 =>
                               /\ pos <= fasTarget[m]
                               /\ carriage'[m] = Backoff - (fasTarget[m] - pos)
                          /\ phase[m] = 2 =>
                               /\ pos <= fasTarget[m]
                               /\ carriage'[m] = ZeroOffset - (fasTarget[m] - pos)
      BY <1>2, <2>2, Zenon DEF LegInv
    <3>2. LegInv(m)
      BY <1>1 DEF MotorInv
    <3>3. CASE phase[m] = 0
      BY <3>1, <3>2, <3>3, <2>1, <2>3, <2>4, <2>7, <2>8, <2>12, Lengths DEF LegInv
    <3>4. CASE phase[m] = 1
      BY <3>1, <3>2, <3>4, <2>1, <2>3, <2>4, <2>7, <2>8, <2>12, Lengths DEF LegInv
    <3>5. CASE phase[m] = 2
      BY <3>1, <3>2, <3>5, <2>1, <2>3, <2>4, <2>7, <2>8, <2>12, Lengths DEF LegInv
    <3> QED
      BY <3>1, <3>3, <3>4, <3>5, <2>1
  <2>14. ZeroInv(m)'
    <3>1. SUFFICES ASSUME homed[m], phase[m] = Idle, ~spoiled[m]
                   PROVE  /\ carriage'[m] = pos + ZeroOffset
                          /\ pos \in SoftRange
                          /\ fasTarget[m] \in SoftRange
      BY <1>2, <2>2, Zenon DEF ZeroInv, SoftRange
    <3>2. ZeroInv(m)
      BY <1>1 DEF MotorInv
    <3> QED
      BY <3>1, <3>2, <2>1, <2>2, <2>3, <2>7, <2>12, Lengths DEF ZeroInv, SoftRange
  <2> QED
    BY <2>9, <2>10, <2>11, <2>13, <2>14, Zenon DEF MotorInv
<1> QED
  BY <1>3, <1>4

(* Refuse ends the handler and changes nothing else.                        *)
LEMMA RefuseInv ==
  ASSUME IInv, Refuse, NEW m \in Motors PROVE MotorInv(m)'
<1>1. /\ MotorInv(m) /\ ~Launching(m) /\ ~Launching(m)'
      /\ UNCHANGED fasVars /\ UNCHANGED ctlVars /\ UNCHANGED histVars
  BY DEF IInv, Refuse, Launching
<1> QED
  BY <1>1, UntouchedInv, Zenon DEF fasVars, ctlVars, histVars

(* WAKE and SLEEP switch the power of the motors of their mask.             *)
LEMMA WakeInv ==
  ASSUME IInv, Wake, NEW m \in Motors PROVE MotorInv(m)'
<1>1. MotorInv(m) /\ ~Launching(m) /\ ~Launching(m)'
  BY DEF IInv, Wake, Launching
<1>2. /\ awake'[m] <=> awake[m] \/ m \in req.mask
      /\ forced'[m] <=> forced[m] \/ m \in req.mask
      /\ energised'[m] <=> energised[m] \/ m \in req.mask
      /\ fasMoving' = fasMoving /\ fasPos' = fasPos /\ fasTarget' = fasTarget
      /\ carriage' = carriage /\ homed' = homed /\ ongoing' = ongoing
      /\ phase' = phase /\ cutoff' = cutoff /\ spoiled' = spoiled
  BY Zenon DEF Wake, histVars
<1>3. LaunchInv(m)' /\ PowerInv(m)'
  BY <1>1, <1>2, Zenon DEF MotorInv, LaunchInv, PowerInv
<1>4. MotionInv(m)' /\ LegInv(m)' /\ ZeroInv(m)'
  BY <1>1, <1>2, Zenon DEF MotorInv, MotionInv, LegInv, ZeroInv
<1> QED
  BY <1>3, <1>4, Zenon DEF MotorInv

(* SLEEP releases the override and the driver of motors at rest.             *)
LEMMA SleepInv ==
  ASSUME IInv, Sleep, NEW m \in Motors PROVE MotorInv(m)'
<1>1. MotorInv(m) /\ ~Launching(m) /\ ~Launching(m)'
  BY DEF IInv, Sleep, Launching
<1>2. /\ awake'[m] <=> awake[m] /\ m \notin req.mask
      /\ forced'[m] <=> forced[m] /\ m \notin req.mask
      /\ energised'[m] <=> energised[m] /\ m \notin req.mask
      /\ fasMoving' = fasMoving /\ fasPos' = fasPos /\ fasTarget' = fasTarget
      /\ carriage' = carriage /\ homed' = homed /\ ongoing' = ongoing
      /\ phase' = phase /\ cutoff' = cutoff /\ spoiled' = spoiled
      /\ m \in req.mask => ~fasMoving[m]
  BY Zenon DEF Sleep, Busy, histVars
<1>3. LaunchInv(m)' /\ PowerInv(m)'
  BY <1>1, <1>2, Zenon DEF MotorInv, LaunchInv, PowerInv
<1>4. MotionInv(m)' /\ LegInv(m)' /\ ZeroInv(m)'
  BY <1>1, <1>2, Zenon DEF MotorInv, MotionInv, LegInv, ZeroInv
<1> QED
  BY <1>3, <1>4, Zenon DEF MotorInv

(* Recording an operation: its motors are at rest, a MOVE during a homing    *)
(* spoils it, a HOME starts over.                                           *)
LEMMA BeginFacts ==
  ASSUME IInv, NEW kind \in {"MOVE", "HOME"}, BeginOperation(kind), NEW m \in Motors
  PROVE  /\ MotorInv(m) /\ TypeOK /\ ~Launching(m)
         /\ Launching(m)' <=> m \in req.mask
         /\ req' = req /\ req.kind = kind
         /\ m \in req.mask => ~fasMoving[m]
         /\ awake'[m] <=> awake[m] \/ m \in req.mask
         /\ ongoing'[m] <=> ongoing[m] \/ m \in req.mask
         /\ fasMoving' = fasMoving /\ fasPos' = fasPos /\ fasTarget' = fasTarget
         /\ energised' = energised /\ carriage' = carriage
         /\ homed' = homed /\ forced' = forced /\ cutoff' = cutoff
<1>1. MotorInv(m) /\ TypeOK
  BY DEF IInv
<1>2. ~Launching(m) /\ (Launching(m)' <=> m \in req.mask) /\ req' = req /\ req.kind = kind
  BY DEF BeginOperation, Launching
<1>3. /\ m \in req.mask => ~fasMoving[m]
      /\ awake'[m] <=> awake[m] \/ m \in req.mask
      /\ ongoing'[m] <=> ongoing[m] \/ m \in req.mask
  BY Zenon DEF BeginOperation, Busy
<1> QED
  BY <1>1, <1>2, <1>3, Zenon DEF BeginOperation, fasVars

(* A recorded MOVE holds its motors at rest until it is launched.           *)
LEMMA BeginMoveInv ==
  ASSUME IInv, BeginMove, NEW m \in Motors PROVE MotorInv(m)'
<1>1. BeginOperation("MOVE") /\ phase' = phase
  BY DEF BeginMove
<1>2. spoiled'[m] <=> spoiled[m] \/ (m \in req.mask /\ phase[m] # Idle)
  BY Zenon DEF BeginMove
<1>3. LaunchInv(m)'
  <2>1. req.kind # "HOME"
    BY <1>1, BeginFacts
  <2>2. m \in req.mask => ~fasMoving'[m] /\ awake'[m] /\ ongoing'[m]
    BY <1>1, BeginFacts
  <2>3. (Launching(m)' <=> m \in req.mask) /\ req' = req
    BY <1>1, BeginFacts
  <2> QED
    BY <1>1, <1>2, <2>1, <2>2, <2>3, Zenon DEF LaunchInv
<1>4. PowerInv(m)' /\ MotionInv(m)'
  BY <1>1, <1>2, BeginFacts, Zenon DEF MotorInv, PowerInv, MotionInv
<1>5. LegInv(m)' /\ ZeroInv(m)'
  BY <1>1, <1>2, BeginFacts, Zenon DEF MotorInv, LegInv, ZeroInv
<1> QED
  BY <1>3, <1>4, <1>5, Zenon DEF MotorInv

(* A recorded HOME starts from phase 0 and clears what spoiled the last one. *)
LEMMA BeginHomeInv ==
  ASSUME IInv, BeginHome, NEW m \in Motors PROVE MotorInv(m)'
<1>1. BeginOperation("HOME")
  BY DEF BeginHome
<1>2. /\ phase'[m] = IF m \in req.mask THEN 0 ELSE phase[m]
      /\ spoiled'[m] <=> spoiled[m] /\ m \notin req.mask
  BY Zenon DEF BeginHome
<1>3. /\ Launching(m)' <=> m \in req.mask
      /\ ~Launching(m) /\ req' = req /\ req.kind = "HOME"
      /\ m \in req.mask => ~fasMoving[m]
      /\ awake'[m] <=> awake[m] \/ m \in req.mask
      /\ ongoing'[m] <=> ongoing[m] \/ m \in req.mask
  BY <1>1, BeginFacts
<1>4. CASE m \in req.mask
  <2>1. LaunchInv(m)'
    <3>1. req'.kind # "MOVE"
      BY <1>3
    <3> QED
      BY <1>1, <1>2, <1>3, <1>4, <3>1, BeginFacts, Zenon DEF LaunchInv
  <2>2. PowerInv(m)'
    BY <1>1, <1>2, <1>3, <1>4, BeginFacts, Zenon DEF MotorInv, PowerInv
  <2>3. MotionInv(m)'
    BY <1>1, <1>2, <1>3, <1>4, BeginFacts, Zenon DEF MotorInv, MotionInv
  <2>4. LegInv(m)' /\ ZeroInv(m)'
    <3>1. phase'[m] # Idle
      BY <1>2, <1>4 DEF Idle
    <3> QED
      BY <3>1, <1>3, <1>4, Zenon DEF LegInv, ZeroInv
  <2> QED
    BY <2>1, <2>2, <2>3, <2>4, Zenon DEF MotorInv
<1>5. CASE m \notin req.mask
  <2>1. /\ phase'[m] = phase[m] /\ ~Launching(m)' /\ MotorInv(m)
        /\ spoiled'[m] <=> spoiled[m]
        /\ awake'[m] <=> awake[m]
        /\ ongoing'[m] <=> ongoing[m]
    BY <1>1, <1>2, <1>3, <1>5, BeginFacts, Zenon
  <2>2. LaunchInv(m)' /\ PowerInv(m)'
    BY <1>1, <1>3, <2>1, BeginFacts, Zenon DEF MotorInv, LaunchInv, PowerInv
  <2>3. MotionInv(m)' /\ LegInv(m)' /\ ZeroInv(m)'
    BY <1>1, <1>3, <2>1, BeginFacts, Zenon DEF MotorInv, MotionInv, LegInv, ZeroInv
  <2> QED
    BY <2>2, <2>3, Zenon DEF MotorInv
<1> QED
  BY <1>4, <1>5

(* Starting the steppers of a recorded operation.                           *)
LEMMA LaunchKeepsInv ==
  ASSUME IInv, Launch, NEW m \in Motors PROVE MotorInv(m)'
<1>1. MotorInv(m) /\ TypeOK /\ req.kind \in {"MOVE", "HOME"}
  BY DEF IInv, Launch
<1>2. (Launching(m) <=> m \in req.mask) /\ ~Launching(m)'
  BY DEF Launch, Launching
<1>3. /\ fasTarget'[m] = IF m \in req.mask THEN Goal(m) ELSE fasTarget[m]
      /\ m \in req.mask => (fasMoving'[m] <=> Goal(m) # fasPos[m])
      /\ m \notin req.mask => fasMoving'[m] = fasMoving[m]
      /\ energised'[m] <=> energised[m] \/ (m \in req.mask /\ Goal(m) # fasPos[m])
      /\ fasPos' = fasPos /\ carriage' = carriage /\ awake' = awake /\ homed' = homed
      /\ ongoing' = ongoing /\ phase' = phase /\ forced' = forced
      /\ cutoff' = cutoff /\ spoiled' = spoiled
  BY Zenon DEF Launch, ctlVars, histVars
<1>4. CASE m \notin req.mask
  <2>1. energised'[m] = energised[m] /\ fasMoving'[m] = fasMoving[m]
    <3>1. energised[m] \in BOOLEAN
      BY <1>1 DEF TypeOK
    <3>2. energised'[m] \in BOOLEAN
      BY NextType, <1>1 DEF TypeOK, Next, Handle
    <3> QED
      BY <1>3, <1>4, <3>1, <3>2
  <2> QED
    BY <1>1, <1>2, <1>3, <1>4, <2>1, UntouchedInv, Zenon
<1>5. CASE m \in req.mask
  <2>1. /\ ~fasMoving[m] /\ awake[m] /\ ongoing[m]
        /\ req.kind = "HOME" => phase[m] = 0
        /\ req.kind = "MOVE" /\ ~spoiled[m] => phase[m] = Idle
    BY <1>1, <1>2, <1>5, Zenon DEF MotorInv, LaunchInv
  <2>2. /\ fasPos[m] \in Int /\ carriage[m] \in 0..Travel
        /\ req.kind = "MOVE" => req.target \in MoveTargets
    BY <1>1 DEF TypeOK
  <2>3. /\ req.kind = "MOVE" => Goal(m) = req.target
        /\ req.kind = "HOME" => Goal(m) = fasPos[m] - (FullRange + Overshoot)
    BY DEF Goal
  <2>4. LaunchInv(m)'
    BY <1>2, Zenon DEF LaunchInv
  <2>5. PowerInv(m)'
    BY <1>1, <1>3, <1>5, <2>1, Zenon DEF MotorInv, PowerInv
  <2>6. MotionInv(m)'
    BY <1>1, <1>3, <1>5, <2>1, Zenon DEF MotorInv, MotionInv
  <2>7. LegInv(m)'
    <3>1. SUFFICES ASSUME phase[m] # Idle, ~spoiled[m]
                   PROVE  /\ fasMoving'[m] /\ phase[m] = 0
                          /\ fasTarget'[m] <= fasPos[m]
                          /\ carriage[m] <= fasPos[m] - fasTarget'[m]
      <4>1. 0 # 1 /\ 0 # 2
        OBVIOUS
      <4> QED
        BY <1>3, <4>1, Zenon DEF LegInv
    <3>2. req.kind = "HOME" /\ phase[m] = 0
      BY <3>1, <2>1, <1>1
    <3>3. fasTarget'[m] = fasPos[m] - (FullRange + Overshoot)
      BY <1>3, <1>5, <2>3, <3>2
    <3>4. Goal(m) # fasPos[m]
      BY <2>2, <2>3, <3>2, Lengths
    <3> QED
      BY <1>3, <1>5, <2>2, <3>2, <3>3, <3>4, Lengths
  <2>8. ZeroInv(m)'
    <3>1. SUFFICES ASSUME homed[m], phase[m] = Idle, ~spoiled[m]
                   PROVE  /\ carriage[m] = fasPos[m] + ZeroOffset
                          /\ fasPos[m] \in SoftRange
                          /\ fasTarget'[m] \in SoftRange
      BY <1>3, Zenon DEF ZeroInv, SoftRange
    <3>2. req.kind = "MOVE"
      BY <1>1, <2>1, <3>1 DEF Idle
    <3>3. fasTarget'[m] \in SoftRange
      BY <1>3, <1>5, <2>2, <2>3, <3>2, Lengths
    <3> QED
      BY <1>1, <3>1, <3>3, Zenon DEF MotorInv, ZeroInv
  <2> QED
    BY <2>4, <2>5, <2>6, <2>7, <2>8, Zenon DEF MotorInv
<1> QED
  BY <1>4, <1>5

(* Handlers that run on the loop task exclude its tick: between recording an  *)
(* operation and launching it no barrier is evaluated.                        *)
LEMMA NextInv ==
  ASSUME ~AsyncCommands PROVE IInv /\ [Next]_vars => IInv'
<1> SUFFICES ASSUME IInv, [Next]_vars PROVE IInv'
  OBVIOUS
<1>1. TypeOK'
  BY NextType DEF IInv
<1>2. (stage = "starting" => req.kind \in {"MOVE", "HOME"})'
  <2>1. stage = "starting" => req.kind \in {"MOVE", "HOME"}
    BY DEF IInv
  <2>2. ASSUME NEW s \in 0..MaxTickSecs, Tick(s) PROVE stage' = stage /\ req' = req
    BY <2>2 DEF Tick, reqVars
  <2>3. ASSUME NEW m \in Motors, AdapterStep(m) PROVE stage' = stage /\ req' = req
    BY <2>3 DEF AdapterStep, reqVars
  <2>4. ASSUME NEW r \in Requests, NEW s \in 0..MaxTickSecs, Receive(r, s)
        PROVE  stage' # "starting"
    BY <2>4 DEF Receive
  <2>5. CASE BeginMove \/ BeginHome
    BY <2>5 DEF BeginMove, BeginHome, BeginOperation
  <2>6. CASE Refuse \/ Launch \/ Wake \/ Sleep
    BY <2>6 DEF Refuse, Launch, Wake, Sleep
  <2>7. CASE SetThermal
    BY <2>1, <2>7 DEF SetThermal, reqVars
  <2>8. CASE UNCHANGED vars
    BY <2>1, <2>8 DEF vars
  <2> QED
    BY <2>1, <2>2, <2>3, <2>4, <2>5, <2>6, <2>7, <2>8 DEF Next, Handle
<1>3. ASSUME NEW m \in Motors PROVE MotorInv(m)'
  <2>1. ASSUME NEW s \in 0..MaxTickSecs, Tick(s) PROVE MotorInv(m)'
    <3>1. TickEffect(s) /\ stage = "idle" /\ stage' = stage
      BY <2>1 DEF Tick, reqVars
    <3> QED
      BY <3>1, TickInv
  <2>2. ASSUME NEW i \in Motors, AdapterStep(i) PROVE MotorInv(m)'
    BY <2>2, StepInv
  <2>3. ASSUME NEW r \in Requests, NEW s \in 0..MaxTickSecs, Receive(r, s)
        PROVE  MotorInv(m)'
    <3>1. TickEffect(s) /\ stage = "idle" /\ stage' = "admitted"
      BY <2>3 DEF Receive
    <3> QED
      BY <3>1, TickInv
  <2>4. CASE Handle
    BY <2>4, RefuseInv, BeginMoveInv, BeginHomeInv, LaunchKeepsInv, WakeInv, SleepInv
    DEF Handle
  <2>5. CASE SetThermal \/ UNCHANGED vars
    <3>1. /\ MotorInv(m) /\ UNCHANGED fasVars /\ UNCHANGED ctlVars
          /\ UNCHANGED histVars /\ UNCHANGED reqVars
      BY <2>5 DEF IInv, SetThermal, vars, fasVars, ctlVars, histVars, reqVars
    <3>2. (Launching(m)' <=> Launching(m)) /\ req' = req
      BY <3>1, Zenon DEF Launching, reqVars
    <3> QED
      BY <3>1, <3>2, UntouchedInv, Zenon DEF fasVars, ctlVars, histVars
  <2> QED
    BY <2>1, <2>2, <2>3, <2>4, <2>5 DEF Next
<1> QED
  BY <1>1, <1>2, <1>3 DEF IInv

(* The inductive invariant holds in every behaviour.                         *)
THEOREM Inductive == ASSUME ~AsyncCommands PROVE Spec => []IInv
<1> QED
  BY InitInv, NextInv, PTL DEF Spec

-----------------------------------------------------------------------------
(* The safety properties.                                                   *)

(* Every zero a HOME sets is at the same place of the travel, and stays      *)
(* there, for any lengths that satisfy the assumption.                       *)
THEOREM ZeroStays == ASSUME ~AsyncCommands PROVE Spec => []HomedZero
<1>1. IInv => HomedZero
  BY Zenon DEF IInv, MotorInv, ZeroInv, HomedZero
<1> QED
  BY <1>1, Inductive, PTL

(* At rest a driver is on exactly when WAKE holds it.                        *)
THEOREM PowerAtRest == ASSUME ~AsyncCommands PROVE Spec => []DriverPower
<1>1. IInv => DriverPower
  BY Zenon DEF IInv, MotorInv, PowerInv, DriverPower
<1> QED
  BY <1>1, Inductive, PTL

(* No driver is on behind the back of the thermal budget.                    *)
THEOREM PowerIsCharged == ASSUME ~AsyncCommands PROVE Spec => []PowerAccounted
<1>1. IInv => PowerAccounted
  BY Zenon DEF IInv, MotorInv, PowerInv, PowerAccounted
<1> QED
  BY <1>1, Inductive, PTL

(* No stepper runs without an ongoing operation, except after a cut-off.     *)
THEOREM MotionIsReported == ASSUME ~AsyncCommands PROVE Spec => []NoPhantomMotion
<1>1. IInv => NoPhantomMotion
  BY Zenon DEF IInv, MotorInv, MotionInv, NoPhantomMotion
<1> QED
  BY <1>1, Inductive, PTL

(* No step gives a stepper in flight a new target.                           *)
THEOREM TargetsHold == ASSUME ~AsyncCommands PROVE Spec => NeverRetargetInFlight
<1> DEFINE Holds == \A m \in Motors :
                      fasMoving[m] /\ fasMoving'[m] => fasTarget'[m] = fasTarget[m]
<1>1. IInv /\ [Next]_vars => Holds
  <2> SUFFICES ASSUME IInv, [Next]_vars, NEW m \in Motors, fasMoving[m]
               PROVE  fasTarget'[m] = fasTarget[m]
    OBVIOUS
  <2>1. ASSUME NEW s, TickEffect(s) PROVE fasTarget'[m] = fasTarget[m]
    <3>1. m \notin LegStarts(s) /\ m \notin Zeroed(s)
      BY TickSets
    <3> QED
      BY <2>1, <3>1, TickAtMotor
  <2>2. CASE Launch
    <3>1. m \notin req.mask
      BY <2>2, Zenon DEF IInv, MotorInv, LaunchInv, Launching, Launch
    <3> QED
      BY <2>2, <3>1, Zenon DEF Launch
  <2>3. CASE BeginMove \/ BeginHome \/ Refuse \/ Wake \/ Sleep \/ SetThermal
    BY <2>3 DEF BeginMove, BeginHome, BeginOperation, Refuse, Wake, Sleep, SetThermal, fasVars
  <2>4. ASSUME NEW i \in Motors, AdapterStep(i) PROVE fasTarget' = fasTarget
    BY <2>4 DEF AdapterStep
  <2>5. CASE UNCHANGED vars
    BY <2>5 DEF vars
  <2> QED
    BY <2>1, <2>2, <2>3, <2>4, <2>5 DEF Next, Handle, Tick, Receive
<1>2. Holds => [Holds]_vars
  OBVIOUS
<1> QED
  BY <1>1, <1>2, Inductive, PTL DEF Spec, NeverRetargetInFlight

-----------------------------------------------------------------------------
(* The thermal budget, for operators who never wake a motor and leave the     *)
(* limits on.                                                              *)

(* A motor's budget covers the time its motion still needs.  It is charged    *)
(* only while it was moving at the last tick, so a motor that waits for the   *)
(* others of its homing keeps its time and cools.  Between the recording of   *)
(* a command and its launch the time is that of an older motion.             *)
MotorPaid(m) ==
  /\ ~forced[m] /\ ~cutoff[m] /\ 0 <= budget[m]
  /\ awake[m] => moving[m]
  /\ (Running(m) \/ phase[m] # Idle) /\ ~Launching(m) => Spend * due[m] <= budget[m]

(* An admitted command is one its motors can pay for.                        *)
RequestPaid ==
  /\ req.kind # "WAKE"
  /\ req.kind \in {"MOVE", "HOME"} =>
       \A m \in req.mask : Spend * SecsNeeded(req.kind) <= budget[m]

Paid ==
  /\ thermal
  /\ stage # "idle" => RequestPaid
  /\ \A m \in Motors : MotorPaid(m)

(* What is charged for some of the time is taken off what is due.            *)
LEMMA Charge ==
  ASSUME NEW rate \in Nat, NEW time \in Nat, NEW s \in Nat, s <= time
  PROVE  /\ rate * (time - s) = rate * time - rate * s
         /\ rate * s \in Nat /\ rate * time \in Nat /\ rate * s <= rate * time
<1>1. PICK rest \in Nat : time = s + rest
  BY SMT
<1>2. rate * (s + rest) = rate * s + rate * rest /\ rate * rest \in Nat
  BY SMT
<1>3. time - s = rest
  BY <1>1
<1> QED
  BY <1>1, <1>2, <1>3

(* The charge of a tick that finds the motor paid for: no cut-off, and the     *)
(* rest of the motion is still paid for (tick 316-347).                       *)
LEMMA TickCharge ==
  ASSUME TypeOK, NEW m \in Motors, MotorPaid(m), ~Launching(m),
         NEW s \in 0..MaxTickSecs, SecondsMayPass(s)
  PROVE  /\ 0 <= Charged(m, s) /\ ~CutOff(m, s)
         /\ Running(m) => Spend * (due[m] - s) <= Charged(m, s)
         /\ ~Running(m) => budget[m] <= Charged(m, s)
<1>1. /\ s \in Nat /\ Spend \in Nat /\ due[m] \in Nat /\ Grace \in Nat /\ BudgetFloor \in Int
      /\ BudgetFloor < 0 /\ budget[m] \in Int /\ budget[m] <= BudgetMax /\ BudgetMax \in Nat
  BY Budgets, BudgetAssumption DEF TypeOK
<1>2. PICK spent \in Nat, cooled \in Nat : spent = Spend * s /\ cooled = Refill * s
  BY <1>1, BudgetAssumption
<1>3. Charged(m, s) = IF awake[m] THEN AtLeast(BudgetFloor, budget[m] - spent)
                                  ELSE AtMost(BudgetMax, budget[m] + cooled)
  BY <1>2, Zenon DEF Charged
<1>4. CASE Running(m)
  <2>1. PICK left \in Nat, whole \in Nat :
          left = Spend * (due[m] - s) /\ whole = Spend * due[m] /\ left = whole - spent
    <3>1. s <= due[m]
      BY <1>4 DEF SecondsMayPass
    <3>2. due[m] - s \in Nat
      BY <1>1, <3>1
    <3>3. Spend * (due[m] - s) \in Nat
      BY <1>1, <3>2
    <3> QED
      BY <1>1, <1>2, <3>1, <3>3, Charge
  <2>2. whole <= budget[m]
    BY <1>4, <2>1 DEF MotorPaid
  <2>3. left <= Charged(m, s)
    <3>1. CASE awake[m]
      BY <1>1, <1>3, <2>1, <2>2, <3>1 DEF AtLeast
    <3>2. CASE ~awake[m]
      BY <1>1, <1>3, <2>1, <2>2, <3>2 DEF AtMost
    <3> QED
      BY <3>1, <3>2
  <2>4. Charged(m, s) \in Int
    BY <1>1, <1>3 DEF AtLeast, AtMost
  <2> HIDE DEF Charged
  <2>5. 0 <= Charged(m, s) /\ ~(Charged(m, s) < -Grace)
    BY <1>1, <2>1, <2>3, <2>4
  <2> QED
    BY <1>4, <2>1, <2>3, <2>5 DEF CutOff
<1>5. CASE ~Running(m)
  <2>1. ~awake[m] /\ 0 <= budget[m]
    BY <1>5 DEF MotorPaid, Running
  <2>2. budget[m] <= Charged(m, s) /\ Charged(m, s) \in Int
    BY <1>1, <1>3, <2>1 DEF AtMost
  <2> HIDE DEF Charged
  <2>3. 0 <= Charged(m, s) /\ ~(Charged(m, s) < -Grace)
    BY <1>1, <2>1, <2>2
  <2> QED
    BY <1>5, <2>2, <2>3 DEF CutOff
<1> QED
  BY <1>4, <1>5

(* A tick charges a motor no more than it was admitted for.                  *)
LEMMA TickPaid ==
  ASSUME IInv, Paid, stage = "idle", stage' # "starting",
         NEW s \in 0..MaxTickSecs, TickEffect(s), NEW m \in Motors
  PROVE  MotorPaid(m)'
<1>1. TypeOK /\ MotorPaid(m) /\ ~Launching(m) /\ ~Launching(m)'
  BY DEF IInv, Paid, Launching
<1>2. SecondsMayPass(s)
  BY DEF TickEffect
<1>3. /\ 0 <= Charged(m, s) /\ ~CutOff(m, s)
      /\ Running(m) => Spend * (due[m] - s) <= Charged(m, s)
      /\ ~Running(m) => budget[m] <= Charged(m, s)
  BY <1>1, <1>2, TickCharge
<1>4. /\ budget'[m] = Charged(m, s)
      /\ moving'[m] = (m \in LegStarts(s) \/ (fasMoving[m] /\ ~CutOff(m, s)))
      /\ due'[m] = IF Running(m) THEN due[m] - s ELSE due[m]
  BY Zenon DEF TickEffect
<1>5. /\ forced'[m] = (forced[m] /\ ~CutOff(m, s)) /\ awake'[m] = AwakeAfter(m, s)
      /\ phase'[m] = PhaseAfter(m, s)
      /\ fasMoving'[m] = (fasMoving[m] \/ m \in LegStarts(s))
      /\ cutoff'[m] = (cutoff[m] \/ (CutOff(m, s) /\ fasMoving[m]))
  BY TickAtMotor
<1>6. ~forced'[m] /\ ~cutoff'[m] /\ 0 <= budget'[m]
  BY <1>1, <1>3, <1>4, <1>5, Zenon DEF MotorPaid
<1>7. awake'[m] => moving'[m]
  BY <1>1, <1>4, <1>5, Zenon DEF MotorPaid, AwakeAfter
<1>8. ASSUME Running(m)' \/ phase'[m] # Idle PROVE Spend * due'[m] <= budget'[m]
  <2>1. CASE Running(m)
    BY <1>3, <1>4, <2>1, Zenon
  <2>2. CASE ~Running(m)
    <3>1. m \in LegStarts(s) \/ phase[m] # Idle
      <4>1. ~fasMoving[m]
        BY <2>2 DEF Running
      <4>2. m \notin LegStarts(s) => m \notin BackingOff(s) /\ m \notin Centring(s)
        BY TickSets
      <4>3. m \notin LegStarts(s) => phase'[m] # Idle
        BY <1>4, <1>5, <1>8, <4>1, Zenon DEF Running
      <4>4. m \notin LegStarts(s) => phase'[m] = phase[m] \/ phase'[m] = Idle
        BY <1>5, <4>2 DEF PhaseAfter
      <4> QED
        BY <4>3, <4>4
    <3>2. phase[m] # Idle
      BY <3>1, TickSets DEF Idle
    <3>3. Spend * due[m] <= budget[m]
      BY <1>1, <3>2 DEF MotorPaid
    <3>4. PICK cost : cost = Spend * due[m]
      OBVIOUS
    <3>5. cost \in Int /\ budget[m] \in Int /\ Charged(m, s) \in Int
      BY <1>1, <3>4, ChargedInRange, Budgets, BudgetAssumption DEF TypeOK
    <3>6. cost <= Charged(m, s)
      BY <1>3, <2>2, <3>3, <3>4, <3>5
    <3> QED
      BY <1>4, <2>2, <3>4, <3>6, Zenon
  <2> QED
    BY <2>1, <2>2
<1> QED
  BY <1>6, <1>7, <1>8, Zenon DEF MotorPaid

(* Handlers start only what is admitted, and put the motors they do not start  *)
(* to sleep or leave them alone.                                             *)
LEMMA HandlePaid ==
  ASSUME IInv, Paid, Handle, NEW m \in Motors PROVE MotorPaid(m)'
<1>1. MotorPaid(m) /\ TypeOK /\ RequestPaid
  BY DEF Paid, IInv, Handle, Refuse, BeginMove, BeginHome, BeginOperation, Launch, Wake, Sleep
<1>2. CASE Refuse
  <2>1. ~Launching(m) /\ ~Launching(m)'
    BY <1>2 DEF Refuse, Launching
  <2> QED
    BY <1>1, <1>2, <2>1 DEF Refuse, MotorPaid, Running, fasVars, ctlVars, histVars
<1>3. ASSUME NEW kind \in {"MOVE", "HOME"}, BeginOperation(kind),
             m \notin req.mask => phase'[m] = phase[m]
      PROVE  MotorPaid(m)'
  <2>1. /\ ~Launching(m) /\ (Launching(m)' <=> m \in req.mask)
        /\ moving'[m] = (moving[m] \/ m \in req.mask)
        /\ awake'[m] = (awake[m] \/ m \in req.mask)
        /\ fasMoving' = fasMoving /\ forced' = forced /\ cutoff' = cutoff
        /\ budget' = budget /\ due' = due
    BY <1>3 DEF BeginOperation, Launching, fasVars
  <2> QED
    BY <1>1, <1>3, <2>1, Zenon DEF MotorPaid, Running
<1>4. CASE BeginMove
  BY <1>3, <1>4 DEF BeginMove
<1>5. CASE BeginHome
  <2>1. m \notin req.mask => phase'[m] = phase[m]
    BY <1>5 DEF BeginHome
  <2> QED
    BY <1>3, <1>5, <2>1 DEF BeginHome
<1>6. CASE Launch
  <2>1. /\ (Launching(m) <=> m \in req.mask) /\ ~Launching(m)'
        /\ req.kind \in {"MOVE", "HOME"}
        /\ m \in req.mask => due'[m] = SecsNeeded(req.kind)
        /\ m \notin req.mask => due'[m] = due[m] /\ fasMoving'[m] = fasMoving[m]
        /\ UNCHANGED <<moving, awake, budget, phase, forced, cutoff>>
    BY <1>6 DEF Launch, Launching, IInv, ctlVars, histVars
  <2>2. CASE m \in req.mask
    <3>1. Spend * SecsNeeded(req.kind) <= budget[m]
      BY <1>1, <2>1, <2>2 DEF RequestPaid
    <3> QED
      BY <1>1, <2>1, <2>2, <3>1, Zenon DEF MotorPaid
  <2>3. CASE m \notin req.mask
    BY <1>1, <2>1, <2>3, Zenon DEF MotorPaid, Running
  <2> QED
    BY <2>2, <2>3
<1>7. CASE Wake
  BY <1>1, <1>7 DEF Wake, RequestPaid
<1>8. CASE Sleep
  <2>1. /\ ~Launching(m) /\ ~Launching(m)'
        /\ awake'[m] = (awake[m] /\ m \notin req.mask)
        /\ forced'[m] = (forced[m] /\ m \notin req.mask)
        /\ UNCHANGED <<fasMoving, due, moving, budget, phase, cutoff>>
    BY <1>8 DEF Sleep, Launching, histVars
  <2> QED
    BY <1>1, <2>1, Zenon DEF MotorPaid, Running
<1> QED
  BY <1>2, <1>4, <1>5, <1>6, <1>7, <1>8 DEF Handle

(* Without WAKE and SET every step leaves what is due paid for.              *)
LEMMA NextPaid ==
  ASSUME ~AsyncCommands, "WAKE" \notin Kinds, "SET" \notin Kinds
  PROVE  IInv /\ Paid /\ [Next]_vars => Paid'
<1> SUFFICES ASSUME IInv, Paid, [Next]_vars PROVE Paid'
  OBVIOUS
<1>0. thermal /\ (stage # "idle" => RequestPaid) /\ \A m \in Motors : MotorPaid(m)
  BY DEF Paid
<1>1. ASSUME NEW s \in 0..MaxTickSecs, Tick(s) PROVE Paid'
  <2>1. stage = "idle" /\ stage' = "idle" /\ TickEffect(s) /\ thermal' = thermal
    BY <1>1 DEF Tick, reqVars
  <2> QED
    BY <1>0, <2>1, TickPaid DEF Paid
<1>2. ASSUME NEW r \in Requests, NEW s \in 0..MaxTickSecs, Receive(r, s) PROVE Paid'
  <2>1. /\ stage = "idle" /\ stage' = "admitted" /\ TickEffect(s) /\ thermal' = thermal
        /\ req' = r /\ Affordable(r)
    BY <1>0, <1>2 DEF Receive
  <2>2. ASSUME NEW m \in Motors PROVE MotorPaid(m)'
    BY <2>1, TickPaid
  <2>3. ASSUME NEW m \in r.mask PROVE Spend * SecsNeeded(r.kind) <= budget'[m]
    <3>1. m \in Motors
      BY RequestTypes
    <3>2. TypeOK'
      BY NextType, <1>2 DEF IInv, Next
    <3>3. 0 <= budget'[m] /\ budget'[m] \in Int
      BY <2>2, <3>1, <3>2, Budgets DEF MotorPaid, TypeOK
    <3>4. AtLeast(0, budget'[m]) = budget'[m]
      BY <3>3 DEF AtLeast
    <3> QED
      BY <2>1, <3>4, Zenon DEF Affordable
  <2>4. r.kind # "WAKE"
    BY DEF Requests
  <2>5. RequestPaid'
    BY <2>1, <2>3, <2>4 DEF RequestPaid
  <2> QED
    BY <1>0, <2>1, <2>2, <2>5 DEF Paid
<1>3. CASE Handle
  <2>1. thermal' = thermal
    BY <1>3 DEF Handle, Refuse, BeginMove, BeginHome, BeginOperation, Launch, Wake, Sleep
  <2>2. stage' # "idle" => stage # "idle" /\ req' = req /\ budget' = budget
    BY <1>3 DEF Handle, Refuse, BeginMove, BeginHome, BeginOperation, Launch, Wake, Sleep
  <2>3. stage' # "idle" => RequestPaid'
    BY <1>0, <2>2 DEF RequestPaid
  <2> QED
    BY <1>0, <1>3, <2>1, <2>3, HandlePaid DEF Paid
<1>4. ASSUME NEW i \in Motors, AdapterStep(i) PROVE Paid'
  <2>1. ASSUME NEW m \in Motors PROVE MotorPaid(m)'
    <3>1. /\ fasMoving'[m] => fasMoving[m]
          /\ cutoff'[m] => cutoff[m]
          /\ UNCHANGED <<due, moving, awake, budget, phase, forced, stage, req>>
      BY <1>4 DEF AdapterStep, ctlVars, reqVars, IInv, TypeOK
    <3>2. Launching(m)' <=> Launching(m)
      BY <3>1 DEF Launching
    <3> QED
      BY <1>0, <3>1, <3>2, Zenon DEF MotorPaid, Running
  <2>2. UNCHANGED <<thermal, stage, req, budget>>
    BY <1>4 DEF AdapterStep, ctlVars, reqVars
  <2> QED
    BY <1>0, <2>1, <2>2 DEF Paid, RequestPaid
<1>5. CASE SetThermal
  BY <1>5 DEF SetThermal
<1>6. CASE UNCHANGED vars
  BY <1>6 DEF vars, Paid, RequestPaid, MotorPaid, Running, Launching
<1> QED
  BY <1>1, <1>2, <1>3, <1>4, <1>5, <1>6 DEF Next

(* Power-up: every budget is full and nothing is due.                         *)
LEMMA InitPaid == Init => Paid
<1> SUFFICES ASSUME Init PROVE Paid
  OBVIOUS
<1>1. ASSUME NEW m \in Motors PROVE MotorPaid(m)
  <2>1. /\ ~forced[m] /\ ~cutoff[m] /\ ~awake[m] /\ ~moving[m] /\ ~fasMoving[m]
        /\ phase[m] = Idle /\ budget[m] = BudgetMax
    BY DEF Init
  <2> QED
    BY <2>1, Budgets DEF MotorPaid, Running
<1> QED
  BY <1>1 DEF Init, Paid

(* As long as operators neither wake a motor nor touch the limits, no motion   *)
(* the handlers admit is cut off by the thermal model: the estimate E11        *)
(* compares with the budget covers all that tick charges, through the pauses   *)
(* of a homing (CommandHandlers.cpp:439-461, HardwareMotorController.cpp:316-347). *)
THEOREM AdmittedRunsOut ==
  ASSUME ~AsyncCommands, "WAKE" \notin Kinds, "SET" \notin Kinds
  PROVE  Spec => []NeverCutOff
<1>1. Paid => NeverCutOff
  BY DEF Paid, MotorPaid, NeverCutOff
<1> QED
  BY <1>1, InitPaid, NextPaid, Inductive, PTL DEF Spec

=============================================================================

------------------------------ MODULE SharedStep ------------------------------
(***************************************************************************)
(* The shared-STEP adapter (src/drivers/Esp32/SharedStepAdapterEsp32.cpp):  *)
(* one STEP line runs to every driver, so a motor is held back by its       *)
(* SLEEP bit alone and turned by its DIR bit, both on a shift register.     *)
(* The adapter has no task: a poll of the controller (isMoving,             *)
(* currentPosition) carries a pending change of direction on, counts the    *)
(* steps since the last poll, and ends a motion.                           *)
(*                                                                         *)
(* External: the STEP edges, which move every motor whose SLEEP bit is      *)
(* high; the passing of the times a flip waits for; the callers, which      *)
(* start and put to sleep only motors at rest (moveAbsMask, sleepMask) but  *)
(* WAKE and cut off any.  Speed is one step per edge: the ramp changes how  *)
(* fast edges come and never what an edge does.                            *)
(***************************************************************************)
EXTENDS StepTiming

CONSTANTS
  Motors,
  Wakable,     \* the motors operators WAKE
  HalfRange,   \* targets lie in -HalfRange..HalfRange
  Speeds,      \* speeds of the STEP line, in steps per second
  Pre, Post,   \* DIR_GUARD_US_PRE, DIR_GUARD_US_POST
  MaxBehind    \* bound: STEP edges between two polls of a moving motor

ASSUME SharedStepAssumption ==
  /\ Wakable \subseteq Motors /\ HalfRange \in Nat \ {0}
  /\ Speeds \subseteq Nat /\ Pre \in Nat /\ Post \in Nat
  /\ MaxBehind \in Nat \ {0}

VARIABLES
  \* slots_
  moving, awake, forced,
  heading,   \* dir_sign, which is also new_dir_sign of the pending flip
  target, pos,
  \* flips_: what a pending flip does next, or "none"
  flip,
  passed,    \* how many of its three times (low, flip, high) have passed
  \* the latch and the generator
  dirBit, sleepBit, running,
  \* history
  since,     \* STEP edges since last_us of a moving motor
  lead,      \* steps the shaft is ahead of pos since the last start, 0 if Wakable
  woken,     \* WAKE came in the middle of the flip
  cut        \* a cut-off hit the motor in flight

slotVars == <<moving, awake, forced, heading, target, pos>>
flipVars == <<flip, passed>>
lineVars == <<dirBit, sleepBit, running>>
histVars == <<since, lead, woken, cut>>
vars == <<moving, awake, forced, heading, target, pos, flip, passed,
          dirBit, sleepBit, running, since, lead, woken, cut>>

Signs     == {-1, 1}
Positions == -HalfRange .. HalfRange
Stages    == {"none", "low", "turn", "high"}
LeadMax   == MaxBehind + 1   \* bound: lead saturates here

(* Followed only for the motors BooksBalance is about.                       *)
Lead(m, n) ==
  IF m \in Wakable THEN 0
  ELSE IF n > LeadMax THEN LeadMax ELSE IF n < -LeadMax THEN -LeadMax ELSE n

TypeOK ==
  /\ moving \in [Motors -> BOOLEAN] /\ awake \in [Motors -> BOOLEAN]
  /\ forced \in [Motors -> BOOLEAN] /\ heading \in [Motors -> Signs]
  /\ target \in [Motors -> Positions] /\ pos \in [Motors -> Positions]
  /\ flip \in [Motors -> Stages] /\ passed \in [Motors -> 0..3]
  /\ dirBit \in [Motors -> Signs] /\ sleepBit \in [Motors -> BOOLEAN]
  /\ running \in BOOLEAN
  /\ since \in [Motors -> 0..MaxBehind] /\ lead \in [Motors -> -LeadMax..LeadMax]
  /\ woken \in [Motors -> BOOLEAN] /\ cut \in [Motors -> BOOLEAN]

(* begin: latch all low.                                                    *)
Init ==
  /\ moving = [m \in Motors |-> FALSE] /\ awake = [m \in Motors |-> FALSE]
  /\ forced = [m \in Motors |-> FALSE] /\ heading = [m \in Motors |-> 1]
  /\ target = [m \in Motors |-> 0] /\ pos = [m \in Motors |-> 0]
  /\ flip = [m \in Motors |-> "none"] /\ passed = [m \in Motors |-> 0]
  /\ dirBit = [m \in Motors |-> -1] /\ sleepBit = [m \in Motors |-> FALSE]
  /\ running = FALSE
  /\ since = [m \in Motors |-> 0] /\ lead = [m \in Motors |-> 0]
  /\ woken = [m \in Motors |-> FALSE] /\ cut = [m \in Motors |-> FALSE]

-----------------------------------------------------------------------------
(* startMoveAbs for a motor at rest.  A change of direction lowers SLEEP;   *)
(* beside other motors it then waits for its window, when the guards fit    *)
(* between two edges, and otherwise happens at once.                        *)
Heading(m, t) == IF t > pos[m] THEN 1 ELSE -1

Guarded(m, t, period) ==
  running /\ dirBit[m] # Heading(m, t) /\ GuardFits(period, Pre, Post)

StartAtTarget(m) ==
  /\ moving' = [moving EXCEPT ![m] = FALSE]
  /\ UNCHANGED <<awake, forced, heading, target, pos, flipVars, lineVars, histVars>>

SleepAtStart(m, t, guarded) == ~guarded

Depart(m, t, guarded) ==
  /\ target'  = [target EXCEPT ![m] = t]
  /\ heading' = [heading EXCEPT ![m] = Heading(m, t)]
  /\ moving'  = [moving EXCEPT ![m] = TRUE]
  /\ awake'   = [awake EXCEPT ![m] = ~guarded]
  /\ flip'    = [flip EXCEPT ![m] = IF guarded THEN "low" ELSE "none"]
  /\ passed'  = [passed EXCEPT ![m] = 0]
  /\ dirBit'  = IF guarded THEN dirBit ELSE [dirBit EXCEPT ![m] = Heading(m, t)]
  /\ sleepBit' = [sleepBit EXCEPT ![m] = SleepAtStart(m, t, guarded)]
  /\ running' = TRUE
  /\ since' = [since EXCEPT ![m] = 0] /\ lead' = [lead EXCEPT ![m] = 0]
  /\ woken' = [woken EXCEPT ![m] = FALSE] /\ cut' = [cut EXCEPT ![m] = FALSE]
  /\ UNCHANGED <<forced, pos>>

Start(m, t) ==
  /\ ~moving[m]
  /\ IF t = pos[m] THEN StartAtTarget(m)
     ELSE \E speed \in Speeds : Depart(m, t, Guarded(m, t, StepPeriod(speed)))

-----------------------------------------------------------------------------
(* runFlipScheduler_, at a poll that finds passed[m] times behind it.       *)
Flipping(m) == flip[m] # "none" /\ running
RaisedInOrder(m) ==   \* mutant: a poll that comes late misses the window's end
  Flipping(m) /\ flip[m] = "high" /\ passed[m] = 3
Raised(m) == Flipping(m) /\ passed[m] = 3

FlipAfter(m) ==
  IF ~Flipping(m) \/ passed[m] = 3 THEN "none"
  ELSE CASE passed[m] = 2 -> "high"
         [] passed[m] = 1 -> "turn"
         [] passed[m] = 0 -> flip[m]

DirFlipped(m) == IF Flipping(m) /\ passed[m] >= 2 THEN heading[m] ELSE dirBit[m]

SleepFlippedEarly(m) ==   \* mutant: SLEEP rises with the flip, not after it
  IF Flipping(m) /\ passed[m] >= 1 THEN TRUE ELSE sleepBit[m]
SleepFlipped(m) ==
  IF Raised(m) THEN TRUE
  ELSE sleepBit[m] /\ ~(Flipping(m) /\ flip[m] = "low" /\ passed[m] >= 1)

(* updateProgress_: a motor awake by now is taken to have made every step    *)
(* since the last poll, up to its target.                                   *)
CountingAsleep(m) == running   \* mutant: counts the edges a sleeping motor misses
Counting(m) == running /\ (awake[m] \/ Raised(m))

Reached(m) ==
  Counting(m) /\ since[m] > 0 /\ heading[m] * (target[m] - pos[m]) <= since[m]

PosAfter(m) ==
  IF Reached(m) THEN target[m]
  ELSE IF Counting(m) THEN pos[m] + heading[m] * since[m] ELSE pos[m]

(* updateRamp_ and maybeStopGen_.                                           *)
RunsWithoutMany(m) == running /\ ~Reached(m)   \* mutant: the first to finish stops it
RunsWithout(m) == running /\ (~Reached(m) \/ \E n \in Motors \ {m} : moving[n])

(* The end of a motion puts the driver to sleep unless WAKE holds it.        *)
StaysUpAlways(m) == TRUE   \* mutant: no auto-sleep
StaysUp(m) == ~Reached(m) \/ forced[m]

Poll(m) ==
  /\ moving[m]
  /\ moving'   = [moving EXCEPT ![m] = ~Reached(m)]
  /\ awake'    = [awake EXCEPT ![m] = (@ \/ Raised(m)) /\ StaysUp(m)]
  /\ pos'      = [pos EXCEPT ![m] = PosAfter(m)]
  /\ flip'     = [flip EXCEPT ![m] = FlipAfter(m)]
  /\ dirBit'   = [dirBit EXCEPT ![m] = DirFlipped(m)]
  /\ sleepBit' = [sleepBit EXCEPT ![m] = SleepFlipped(m) /\ StaysUp(m)]
  /\ running'  = RunsWithout(m)
  /\ since'    = [since EXCEPT ![m] = 0]
  /\ lead'     = [lead EXCEPT ![m] = Lead(m, @ - (PosAfter(m) - pos[m]))]
  /\ passed'   = [passed EXCEPT ![m] = IF FlipAfter(m) = "none" THEN 0 ELSE @]
  /\ woken'    = [woken EXCEPT ![m] = @ /\ ~Reached(m)]
  /\ cut'      = [cut EXCEPT ![m] = @ /\ ~Reached(m)]
  /\ UNCHANGED <<forced, heading, target>>

-----------------------------------------------------------------------------
(* enableOutputs, for a WAKE: no look at a pending flip.                     *)
Wake(m) ==
  /\ m \in Wakable
  /\ awake' = [awake EXCEPT ![m] = TRUE] /\ forced' = [forced EXCEPT ![m] = TRUE]
  /\ sleepBit' = [sleepBit EXCEPT ![m] = TRUE]
  /\ woken' = [woken EXCEPT ![m] = @ \/ flip[m] # "none"]
  /\ cut' = [cut EXCEPT ![m] = FALSE]
  /\ UNCHANGED <<moving, heading, target, pos, flipVars, dirBit, running, since, lead>>

(* disableOutputs: the slot keeps moving and a pending flip stays.           *)
Disable(m) ==
  /\ awake' = [awake EXCEPT ![m] = FALSE] /\ forced' = [forced EXCEPT ![m] = FALSE]
  /\ sleepBit' = [sleepBit EXCEPT ![m] = FALSE]
  /\ UNCHANGED <<moving, heading, target, pos, flipVars, dirBit, running,
                 since, lead, woken>>

Sleep(m) == ~moving[m] /\ Disable(m) /\ UNCHANGED cut

(* The thermal cut-off follows the poll of the same tick.                    *)
CutOff(m) ==
  /\ moving[m] /\ since[m] = 0
  /\ Disable(m)
  /\ cut' = [cut EXCEPT ![m] = TRUE]

(* setCurrentPosition(m, 0), at the end of a homing.                         *)
Zero(m) ==
  /\ ~moving[m]
  /\ pos' = [pos EXCEPT ![m] = 0]
  /\ UNCHANGED <<moving, awake, forced, heading, target, flipVars, lineVars, histVars>>

-----------------------------------------------------------------------------
(* The world.                                                               *)
Edge ==
  /\ running
  /\ \A m \in Motors : moving[m] => since[m] < MaxBehind
  /\ since' = [m \in Motors |-> IF moving[m] THEN since[m] + 1 ELSE since[m]]
  /\ lead' = [m \in Motors |-> IF sleepBit[m] THEN Lead(m, lead[m] + dirBit[m]) ELSE lead[m]]
  /\ UNCHANGED <<slotVars, flipVars, lineVars, woken, cut>>

TimePasses(m) ==
  /\ flip[m] # "none" /\ passed[m] < 3
  /\ passed' = [passed EXCEPT ![m] = @ + 1]
  /\ UNCHANGED <<slotVars, flip, lineVars, histVars>>

Next ==
  \/ Edge
  \/ \E m \in Motors :
       \/ \E t \in Positions : Start(m, t)
       \/ Poll(m) \/ Wake(m) \/ Sleep(m) \/ CutOff(m) \/ Zero(m) \/ TimePasses(m)

Spec == Init /\ [][Next]_vars

(* The loop task ticks the controller for ever and every tick polls every     *)
(* motor; STEP edges and time go on by themselves.                           *)
Fairness ==
  /\ WF_vars(Edge)
  /\ \A m \in Motors : WF_vars(Poll(m)) /\ WF_vars(TimePasses(m))

FairSpec == Spec /\ Fairness

-----------------------------------------------------------------------------
(* Properties.                                                              *)

(* A powered motor in flight is turned the way it was sent, through every    *)
(* join, flip and re-start, unless WAKE powered it in the middle of the flip  *)
(* (startMoveAbs 143-206, runFlipScheduler_ 325-372).                        *)
NoWrongWay ==
  \A m \in Motors :
    moving[m] /\ sleepBit[m] => dirBit[m] = heading[m] \/ woken[m]

(* The generator runs exactly while some motor is moving: the last one to     *)
(* finish stops it, the first one to start starts it, in whatever order they  *)
(* are polled (updateRamp_ 255-266, maybeStopGen_ 68-78).                    *)
GeneratorRuns == running <=> \E m \in Motors : moving[m]

(* The shared line only drives motors that are in flight or held by WAKE: no   *)
(* flip left behind by a motion, a SLEEP or a cut-off powers a motor later.    *)
PoweredForAReason == \A m \in Motors : sleepBit[m] => moving[m] \/ forced[m]

(* For motors no WAKE touches, the position counted by polling is at most the  *)
(* steps of one poll interval off in a motion, ahead for the flip's window or  *)
(* behind for the overrun at the target (updateProgress_ 218-240).             *)
BooksBalance ==
  \A m \in Motors \ Wakable : lead[m] \in -MaxBehind..MaxBehind

(* Every motion ends, whatever joins and flips do to it, unless the cut-off    *)
(* stops it for good (isMoving keeps saying so, and BUSY with it).             *)
MotionEnds == \A m \in Motors : moving[m] ~> (~moving[m] \/ cut[m])

(* "Control each motor independently via 74HC595-driven DIR and SLEEP; use     *)
(* SLEEP as the per-motor gate" (16-plus-motors spec.md): a motor at rest does *)
(* not step.                                                                  *)
OnlyMovingStep ==
  [][Edge => \A m \in Motors : sleepBit[m] => moving[m]]_vars
===============================================================================

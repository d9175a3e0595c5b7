------------------------------ MODULE StepTiming ------------------------------
(***************************************************************************)
(* The integer timing of the shared STEP line                              *)
(* (include/MotorControl/SharedStepTiming.h, SharedStepGuards.h): STEP      *)
(* edges at every multiple of the period, and the window in which a         *)
(* direction may change, in microseconds.                                  *)
(***************************************************************************)
EXTENDS Integers

(* Nearest whole period of a speed in steps per second; 0 stops.            *)
StepPeriod(speed) ==
  IF speed = 0 THEN 0
  ELSE LET rounded == (1000000 + speed \div 2) \div speed
       IN  IF rounded > 0 THEN rounded ELSE 1

NextEdge(now, period) ==
  IF period = 0 \/ now % period = 0 THEN now ELSE now + (period - (now % period))

(* Both guards and a margin fit between two edges.                          *)
GuardFits(period, pre, post) == period > 0 /\ pre + post + 2 < period

(* SLEEP low, DIR, SLEEP high, in the middle of the gap after the next edge. *)
FlipWindow(now, period, pre, post) ==
  LET mid == NextEdge(now, period) + period \div 2
  IN  [low |-> mid - pre, flip |-> mid, high |-> mid + post]
===============================================================================

--------------------------- MODULE SharedStepProofs ---------------------------
(***************************************************************************)
(* Proofs about the shared STEP line for any motors, any speeds and any     *)
(* number of edges between two polls.                                       *)
(***************************************************************************)
EXTENDS SharedStep, TLAPS

-----------------------------------------------------------------------------
(* The timing of a flip.                                                    *)

(* The next edge is no earlier than now and less than a period later.          *)
LEMMA NextEdgeSoon ==
  ASSUME NEW now \in Nat, NEW period \in Nat \ {0}
  PROVE  /\ NextEdge(now, period) \in Nat
         /\ now <= NextEdge(now, period) /\ NextEdge(now, period) < now + period
<1>1. now % period \in 0..(period - 1)
  OBVIOUS
<1> QED BY <1>1 DEF NextEdge

(* With equal guards that fit, the whole window, from SLEEP low to SLEEP high,  *)
(* lies strictly between the next edge and the one after it                    *)
(* (compute_flip_window).  Unequal guards of the same sum may not.             *)
THEOREM WindowBetweenEdges ==
  ASSUME NEW now \in Nat, NEW period \in Nat, NEW guard \in Nat,
         GuardFits(period, guard, guard)
  PROVE  LET w == FlipWindow(now, period, guard, guard)
         IN  /\ now <= w.low /\ w.low <= w.flip /\ w.flip <= w.high
             /\ NextEdge(now, period) < w.low
             /\ w.high < NextEdge(now, period) + period
<1>1. period \in Nat \ {0} /\ guard + guard + 2 < period
  BY DEF GuardFits
<1>2. period \div 2 \in Nat /\ 2 * (period \div 2) <= period
      /\ period <= 2 * (period \div 2) + 1
  OBVIOUS
<1>3. NextEdge(now, period) \in Nat /\ now <= NextEdge(now, period)
  BY <1>1, NextEdgeSoon
<1> HIDE DEF NextEdge
<1> QED BY <1>1, <1>2, <1>3 DEF FlipWindow

-----------------------------------------------------------------------------
(* A motor in flight has its target ahead; without a pending flip it is       *)
(* turned that way, and with one it is powered only by a WAKE in its middle.   *)
AheadOf(m) ==
  \/ heading[m] = 1 /\ pos[m] < target[m]
  \/ heading[m] = -1 /\ target[m] < pos[m]

Aim    == \A m \in Motors : moving[m] => AheadOf(m)
Turned == \A m \in Motors : moving[m] /\ flip[m] = "none" => dirBit[m] = heading[m]
Dark   == \A m \in Motors : moving[m] /\ flip[m] # "none" /\ sleepBit[m] => woken[m]

IInv ==
  TypeOK /\ GeneratorRuns /\ PoweredForAReason /\ Aim /\ Turned /\ Dark

(* The inductive invariant holds when the adapter begins.                     *)
LEMMA InitIInv == Init => IInv
<1> SUFFICES ASSUME Init PROVE IInv
  OBVIOUS
<1>1. 0 \in Positions /\ 0 \in -LeadMax..LeadMax /\ 0 \in 0..MaxBehind /\ 0 \in 0..3
  BY SharedStepAssumption DEF Positions, LeadMax
<1>2. 1 \in Signs /\ -1 \in Signs /\ "none" \in Stages
  BY DEF Signs, Stages
<1>3. TypeOK
  BY <1>1, <1>2 DEF Init, TypeOK
<1> QED BY <1>3 DEF Init, IInv, GeneratorRuns, PoweredForAReason, Aim, Turned, Dark

(* Lead stays within its bounds.                                             *)
LEMMA LeadBounded ==
  ASSUME NEW m, NEW n \in Int PROVE Lead(m, n) \in -LeadMax..LeadMax
  BY SharedStepAssumption DEF Lead, LeadMax

(* What a start does to the motor it starts (startMoveAbs).                    *)
LEMMA StartKeeps ==
  ASSUME IInv, NEW m \in Motors, NEW t \in Positions, Start(m, t) PROVE IInv'
<1>a. t \in Int /\ pos[m] \in Int
  BY SharedStepAssumption DEF IInv, TypeOK, Positions
<1>1. CASE t = pos[m]
  BY <1>1 DEF Start, StartAtTarget, IInv, TypeOK, GeneratorRuns, PoweredForAReason, Aim, Turned,
     Dark, AheadOf, flipVars, lineVars, histVars
<1>2. CASE t # pos[m]
  <2>1. PICK guarded \in BOOLEAN : Depart(m, t, guarded)
    BY <1>2 DEF Start, Guarded, GuardFits
  <2>h. Heading(m, t) \in Signs /\ 0 \in -LeadMax..LeadMax /\ 0 \in 0..MaxBehind
    BY SharedStepAssumption DEF Heading, Signs, LeadMax
  <2>2. TypeOK'
    BY <2>1, <2>h DEF Depart, IInv, TypeOK, SleepAtStart, Stages
  <2>3. GeneratorRuns'
    BY <2>1 DEF Depart, IInv, TypeOK, GeneratorRuns
  <2>4. PoweredForAReason'
    BY <2>1 DEF Depart, IInv, TypeOK, PoweredForAReason
  <2>5. Aim'
    BY <2>1, <1>2, <1>a DEF Depart, IInv, TypeOK, Aim, AheadOf, Heading
  <2>6. Turned'
    BY <2>1 DEF Depart, IInv, TypeOK, Turned
  <2>7. Dark'
    BY <2>1 DEF Depart, IInv, TypeOK, Dark, SleepAtStart
  <2> QED BY <2>2, <2>3, <2>4, <2>5, <2>6, <2>7 DEF IInv
<1> QED BY <1>1, <1>2

(* What a poll leaves of a motion: the target still ahead, or the target      *)
(* reached (updateProgress_).                                                *)
LEMMA PollProgress ==
  ASSUME IInv, NEW m \in Motors, moving[m]
  PROVE  /\ PosAfter(m) \in Positions
         /\ ~Reached(m) => \/ heading[m] = 1 /\ PosAfter(m) < target[m]
                           \/ heading[m] = -1 /\ target[m] < PosAfter(m)
<1> DEFINE h == heading[m]  t == target[m]  p == pos[m]  s == since[m]
<1>1. t \in Positions /\ p \in Positions /\ s \in Nat /\ HalfRange \in Nat
  BY SharedStepAssumption DEF IInv, TypeOK
<1>2. \/ h = 1 /\ p < t
      \/ h = -1 /\ t < p
  BY DEF IInv, Aim, AheadOf
<1>3. CASE Reached(m)
  BY <1>1, <1>3 DEF PosAfter
<1>4. CASE ~Reached(m) /\ Counting(m)
  <2>1. PosAfter(m) = p + h * s
    BY <1>4 DEF PosAfter
  <2>2. s = 0 \/ ~(h * (t - p) <= s)
    BY <1>1, <1>4 DEF Reached
  <2> HIDE DEF h, t, p, s
  <2>3. CASE h = 1 /\ p < t
    BY <1>1, <2>1, <2>2, <2>3 DEF Positions, h, t, p, s
  <2>4. CASE h = -1 /\ t < p
    BY <1>1, <2>1, <2>2, <2>4 DEF Positions, h, t, p, s
  <2> QED BY <1>2, <2>3, <2>4
<1>5. CASE ~Reached(m) /\ ~Counting(m)
  BY <1>1, <1>2, <1>5 DEF PosAfter
<1> QED BY <1>3, <1>4, <1>5

LEMMA PollKeeps ==
  ASSUME IInv, NEW m \in Motors, Poll(m) PROVE IInv'
<1>m. moving[m]
  BY DEF Poll
<1>1. TypeOK'
  <2>1. PosAfter(m) \in Positions
    BY <1>m, PollProgress
  <2>2. Lead(m, lead[m] - (PosAfter(m) - pos[m])) \in -LeadMax..LeadMax
    <3>1. lead[m] - (PosAfter(m) - pos[m]) \in Int
      BY <2>1, SharedStepAssumption DEF IInv, TypeOK, Positions, LeadMax
    <3> QED BY <3>1, LeadBounded
  <2>3. FlipAfter(m) \in Stages /\ DirFlipped(m) \in Signs
    BY DEF FlipAfter, DirFlipped, IInv, TypeOK, Stages
  <2>4. Reached(m) \in BOOLEAN /\ StaysUp(m) \in BOOLEAN /\ SleepFlipped(m) \in BOOLEAN
        /\ RunsWithout(m) \in BOOLEAN /\ Raised(m) \in BOOLEAN
    BY DEF Reached, StaysUp, SleepFlipped, RunsWithout, Raised, Counting, Flipping, IInv, TypeOK
  <2>5. 0 \in 0..MaxBehind
    BY SharedStepAssumption
  <2> QED BY <2>1, <2>2, <2>3, <2>4, <2>5 DEF Poll, IInv, TypeOK
<1>2. GeneratorRuns'
  <2>1. running
    BY <1>m DEF IInv, GeneratorRuns
  <2>2. moving' = [moving EXCEPT ![m] = ~Reached(m)] /\ running' = RunsWithout(m)
    BY DEF Poll
  <2> QED BY <2>1, <2>2 DEF IInv, TypeOK, GeneratorRuns, RunsWithout
<1>3. PoweredForAReason'
  BY DEF Poll, IInv, TypeOK, PoweredForAReason, StaysUp
<1>4. Aim'
  BY <1>m, PollProgress DEF Poll, IInv, TypeOK, Aim, AheadOf
<1>r. running
  BY <1>m DEF IInv, GeneratorRuns
<1>5. Turned'
  <2>1. FlipAfter(m) = "none" => DirFlipped(m) = heading[m]
    BY <1>m, <1>r DEF FlipAfter, DirFlipped, Flipping, IInv, TypeOK, Turned, Stages
  <2> QED BY <2>1 DEF Poll, IInv, TypeOK, Turned
<1>6. Dark'
  <2>1. FlipAfter(m) # "none" /\ SleepFlipped(m) => flip[m] # "none" /\ sleepBit[m]
    BY <1>r DEF FlipAfter, SleepFlipped, Raised, Flipping, IInv, TypeOK
  <2>2. moving'[m] => ~Reached(m)
    BY DEF Poll, IInv, TypeOK
  <2>3. flip'[m] = FlipAfter(m) /\ (sleepBit'[m] => SleepFlipped(m))
        /\ woken'[m] = (woken[m] /\ ~Reached(m))
    BY DEF Poll, IInv, TypeOK
  <2>4. moving'[m] /\ flip'[m] # "none" /\ sleepBit'[m] => woken'[m]
    BY <1>m, <2>1, <2>2, <2>3 DEF IInv, Dark
  <2>5. ASSUME NEW n \in Motors, n # m
        PROVE  moving'[n] = moving[n] /\ flip'[n] = flip[n] /\ sleepBit'[n] = sleepBit[n]
               /\ woken'[n] = woken[n]
    BY <2>5 DEF Poll, IInv, TypeOK
  <2> QED BY <2>4, <2>5 DEF IInv, Dark
<1> QED BY <1>1, <1>2, <1>3, <1>4, <1>5, <1>6 DEF IInv

(* WAKE, SLEEP and the cut-off only touch the power bits.                      *)
LEMMA PowerKeeps ==
  ASSUME IInv, NEW m \in Motors, Wake(m) \/ Sleep(m) \/ CutOff(m) PROVE IInv'
<1>1. CASE Wake(m)
  BY <1>1 DEF Wake, IInv, TypeOK, GeneratorRuns, PoweredForAReason, Aim, Turned, Dark, AheadOf,
     flipVars
<1>2. CASE Sleep(m)
  BY <1>2 DEF Sleep, Disable, IInv, TypeOK, GeneratorRuns, PoweredForAReason, Aim, Turned, Dark,
     AheadOf, flipVars
<1>3. CASE CutOff(m)
  BY <1>3 DEF CutOff, Disable, IInv, TypeOK, GeneratorRuns, PoweredForAReason, Aim, Turned, Dark,
     AheadOf, flipVars
<1> QED BY <1>1, <1>2, <1>3

(* Neither edges, nor time, nor a new zero disturbs a motion.                  *)
LEMMA WorldKeeps ==
  ASSUME IInv, NEW m \in Motors, Zero(m) \/ TimePasses(m) \/ Edge PROVE IInv'
<1>1. CASE Zero(m)
  <2>1. 0 \in Positions
    BY SharedStepAssumption DEF Positions
  <2> QED BY <1>1, <2>1 DEF Zero, IInv, TypeOK, GeneratorRuns, PoweredForAReason, Aim, Turned,
             Dark, AheadOf, flipVars, lineVars, histVars
<1>2. CASE TimePasses(m)
  BY <1>2 DEF TimePasses, IInv, TypeOK, GeneratorRuns, PoweredForAReason, Aim, Turned, Dark,
     AheadOf, slotVars, lineVars, histVars
<1>3. CASE Edge
  <2>1. since' \in [Motors -> 0..MaxBehind]
    BY <1>3, SharedStepAssumption DEF Edge, IInv, TypeOK
  <2>2. ASSUME NEW n \in Motors PROVE Lead(n, lead[n] + dirBit[n]) \in -LeadMax..LeadMax
    <3>1. lead[n] + dirBit[n] \in Int
      BY SharedStepAssumption DEF IInv, TypeOK, Signs, LeadMax
    <3> QED BY <3>1, LeadBounded
  <2>3. lead' \in [Motors -> -LeadMax..LeadMax]
    BY <1>3, <2>2 DEF Edge, IInv, TypeOK
  <2> QED BY <1>3, <2>1, <2>3 DEF Edge, IInv, TypeOK, GeneratorRuns, PoweredForAReason, Aim,
             Turned, Dark, AheadOf, slotVars, flipVars, lineVars
<1> QED BY <1>1, <1>2, <1>3

(* Every step of the adapter and of the world keeps the invariant.             *)
LEMMA NextIInv == IInv /\ [Next]_vars => IInv'
<1> SUFFICES ASSUME IInv, [Next]_vars PROVE IInv'
  OBVIOUS
<1>1. CASE UNCHANGED vars
  BY <1>1 DEF vars, IInv, TypeOK, GeneratorRuns, PoweredForAReason, Aim, Turned, Dark, AheadOf
<1>2. CASE Edge
  <2>1. CASE Motors = {}
    BY <1>2, <2>1, SharedStepAssumption DEF Edge, IInv, TypeOK, GeneratorRuns
  <2>2. CASE Motors # {}
    BY <1>2, <2>2, WorldKeeps
  <2> QED BY <2>1, <2>2
<1>3. CASE \E m \in Motors :
             \/ \E t \in Positions : Start(m, t)
             \/ Poll(m) \/ Wake(m) \/ Sleep(m) \/ CutOff(m) \/ Zero(m) \/ TimePasses(m)
  BY <1>3, StartKeeps, PollKeeps, PowerKeeps, WorldKeeps
<1> QED BY <1>1, <1>2, <1>3 DEF Next

(* Slots, latch bits and pending flips are as IInv says in every behaviour of  *)
(* starts, polls, WAKE, SLEEP and cut-offs (SharedStepAdapterEsp32.cpp).       *)
THEOREM Inductive == Spec => []IInv
  BY InitIInv, NextIInv, PTL DEF Spec

(* Types: above all, the position counted never leaves the range of targets.   *)
THEOREM TypeCorrect == Spec => []TypeOK
<1>1. IInv => TypeOK
  BY DEF IInv
<1> QED BY <1>1, Inductive, PTL

(* A powered motor in flight is turned the way it was sent, unless WAKE powered *)
(* it in the middle of its flip (startMoveAbs, runFlipScheduler_).             *)
THEOREM RightWay == Spec => []NoWrongWay
<1>1. IInv => NoWrongWay
  BY DEF IInv, Turned, Dark, NoWrongWay
<1> QED BY <1>1, Inductive, PTL

(* The generator runs exactly while some motor moves, whatever the order of    *)
(* polls (updateRamp_, maybeStopGen_).                                       *)
THEOREM GeneratorFollows == Spec => []GeneratorRuns
<1>1. IInv => GeneratorRuns
  BY DEF IInv
<1> QED BY <1>1, Inductive, PTL

(* Only motors in flight or held by WAKE are powered: no flip left behind      *)
(* raises a SLEEP bit later (runFlipScheduler_, disableOutputs).              *)
THEOREM PowerHasReason == Spec => []PoweredForAReason
<1>1. IInv => PoweredForAReason
  BY DEF IInv
<1> QED BY <1>1, Inductive, PTL

-----------------------------------------------------------------------------
(* The books of a motor no WAKE touches.  A pending flip keeps its driver     *)
(* asleep and its shaft where the count has it.  After the flip the count is   *)
(* ahead by no more than the edges of the flip's window, which it counted as   *)
(* steps, and behind by the edges since the last poll.  At rest there is no    *)
(* power, and the difference the motion ended with stays.                    *)
Along(m, n)  == IF heading[m] = 1 THEN n ELSE -n
Uncounted(m) == IF awake[m] THEN since[m] ELSE 0

RestBooks(m)   == ~moving[m] => ~sleepBit[m] /\ lead[m] \in -MaxBehind..MaxBehind
FlipBooks(m)   == moving[m] /\ flip[m] # "none" => ~awake[m] /\ ~sleepBit[m] /\ lead[m] = 0
FlightBooks(m) ==
  moving[m] /\ flip[m] = "none" =>
    /\ awake[m] = sleepBit[m]
    /\ Along(m, lead[m]) - Uncounted(m) \in -MaxBehind..0
MotorBooks(m) ==
  /\ ~forced[m] /\ ~woken[m]
  /\ RestBooks(m) /\ FlipBooks(m) /\ FlightBooks(m)

Books == \A m \in Motors \ Wakable : MotorBooks(m)

(* The bounded counter is the exact one as long as it stays in its bounds.     *)
LEMMA LeadExact ==
  ASSUME NEW m \in Motors \ Wakable, NEW n \in -LeadMax..LeadMax PROVE Lead(m, n) = n
  BY SharedStepAssumption DEF Lead, LeadMax

(* A step that leaves the motor and its lines alone leaves its books alone.    *)
LEMMA SameBooks ==
  ASSUME NEW m, MotorBooks(m),
         moving'[m] = moving[m], awake'[m] = awake[m], forced'[m] = forced[m],
         woken'[m] = woken[m], sleepBit'[m] = sleepBit[m], lead'[m] = lead[m],
         flip'[m] = flip[m], heading'[m] = heading[m], since'[m] = since[m]
  PROVE  MotorBooks(m)'
  BY DEF MotorBooks, RestBooks, FlipBooks, FlightBooks, Along, Uncounted

LEMMA StartBooks ==
  ASSUME IInv, Books, NEW m \in Motors, NEW t \in Positions, Start(m, t) PROVE Books'
<1> SUFFICES ASSUME NEW n \in Motors \ Wakable PROVE MotorBooks(n)'
  BY DEF Books
<1>n. MotorBooks(n)
  BY DEF Books
<1>1. CASE t = pos[m]
  <2>1. ~moving[m] /\ StartAtTarget(m)
    BY <1>1 DEF Start
  <2>2. moving'[n] = moving[n]
    BY <2>1 DEF StartAtTarget, IInv, TypeOK
  <2>3. UNCHANGED <<awake, forced, heading, flip, sleepBit, since, lead, woken>>
    BY <2>1 DEF StartAtTarget, flipVars, lineVars, histVars
  <2> QED BY <1>n, <2>2, <2>3, SameBooks
<1>2. CASE t # pos[m]
  <2>1. PICK guarded \in BOOLEAN : Depart(m, t, guarded)
    BY <1>2 DEF Start, Guarded, GuardFits
  <2>2. CASE n # m
    BY <1>n, <2>1, <2>2, SameBooks DEF Depart, IInv, TypeOK
  <2>3. CASE n = m
    <3>1. /\ moving'[m] = TRUE /\ awake'[m] = ~guarded /\ sleepBit'[m] = ~guarded
          /\ flip'[m] = (IF guarded THEN "low" ELSE "none")
          /\ lead'[m] = 0 /\ since'[m] = 0 /\ woken'[m] = FALSE /\ forced'[m] = forced[m]
      BY <2>1 DEF Depart, SleepAtStart, IInv, TypeOK
    <3>2. MaxBehind \in Nat
      BY SharedStepAssumption
    <3>3. Along(m, lead[m])' = 0 /\ Uncounted(m)' = 0
      <4>1. Along(m, lead[m])' = (IF heading'[m] = 1 THEN lead'[m] ELSE -lead'[m])
        BY DEF Along
      <4>2. Along(m, lead[m])' = 0
        BY <3>1, <4>1
      <4> QED BY <3>1, <4>2 DEF Uncounted
    <3>4. Along(m, lead[m])' - Uncounted(m)' \in -MaxBehind..0
      BY <3>2, <3>3
    <3> QED BY <1>n, <2>3, <3>1, <3>4 DEF MotorBooks, RestBooks, FlipBooks, FlightBooks
  <2> QED BY <2>2, <2>3
<1> QED BY <1>1, <1>2

(* The arithmetic of a poll: what is left of the difference once the steps     *)
(* since the last poll are counted, up to the target (updateProgress_).        *)
LEMMA PollBooks ==
  ASSUME IInv, Books, NEW m \in Motors, Poll(m) PROVE Books'
<1> SUFFICES ASSUME NEW n \in Motors \ Wakable PROVE MotorBooks(n)'
  BY DEF Books
<1>n. MotorBooks(n)
  BY DEF Books
<1>1. CASE n # m
  BY <1>1, <1>n, SameBooks DEF Poll, IInv, TypeOK
<1>2. CASE n = m
  <2> DEFINE step == PosAfter(m) - pos[m]
  <2>m. moving[m] /\ running
    BY DEF Poll, IInv, GeneratorRuns
  <2>0. /\ heading[m] \in Signs /\ target[m] \in Int /\ pos[m] \in Int /\ since[m] \in 0..MaxBehind
        /\ lead[m] \in Int /\ MaxBehind \in Nat /\ flip[m] \in Stages /\ passed[m] \in 0..3
    BY SharedStepAssumption DEF IInv, TypeOK, Positions, LeadMax
  <2>1. ~forced[m] /\ ~woken[m] /\ FlipBooks(m) /\ FlightBooks(m)
    BY <1>2, <1>n DEF MotorBooks
  <2>2. /\ moving'[m] = ~Reached(m) /\ awake'[m] = ((awake[m] \/ Raised(m)) /\ ~Reached(m))
        /\ sleepBit'[m] = (SleepFlipped(m) /\ ~Reached(m)) /\ flip'[m] = FlipAfter(m)
        /\ since'[m] = 0 /\ lead'[m] = Lead(m, lead[m] - step)
        /\ forced'[m] = forced[m] /\ heading'[m] = heading[m]
        /\ woken'[m] = (woken[m] /\ ~Reached(m))
    BY <2>1 DEF Poll, StaysUp, IInv, TypeOK
  <2>3. \* the steps counted
        /\ Reached(m) => Along(m, step) \in 0..since[m]
        /\ ~Reached(m) /\ Counting(m) => Along(m, step) = since[m]
        /\ ~Reached(m) /\ ~Counting(m) => step = 0
    <3>1. AheadOf(m)
      BY <2>m DEF IInv, Aim
    <3>2. CASE Reached(m)
      <4>1. PosAfter(m) = target[m] /\ heading[m] * (target[m] - pos[m]) <= since[m]
        BY <3>2 DEF Reached, PosAfter
      <4> QED BY <2>0, <3>1, <3>2, <4>1 DEF AheadOf, Along
    <3>3. CASE ~Reached(m) /\ Counting(m)
      <4>1. PosAfter(m) = pos[m] + heading[m] * since[m]
        BY <3>3 DEF PosAfter
      <4> QED BY <2>0, <3>1, <3>3, <4>1 DEF AheadOf, Along
    <3>4. CASE ~Reached(m) /\ ~Counting(m)
      BY <2>0, <3>4 DEF PosAfter
    <3> QED BY <3>2, <3>3, <3>4
  <2>s. step \in Int
    <3>1. PosAfter(m) \in Positions
      BY <2>m, PollProgress
    <3> QED BY <3>1, <2>0, SharedStepAssumption DEF Positions
  <2> HIDE DEF step
  <2>4. heading[m] = 1 \/ heading[m] = -1
    BY <2>0 DEF Signs
  <2>5. CASE flip[m] # "none"
    <3>1. ~awake[m] /\ ~sleepBit[m] /\ lead[m] = 0
      BY <2>1, <2>5, <2>m DEF FlipBooks
    <3>2. CASE ~Raised(m)
      <4>1. ~Counting(m) /\ ~Reached(m) /\ FlipAfter(m) # "none" /\ ~SleepFlipped(m)
        BY <2>0, <2>5, <2>m, <3>1, <3>2
        DEF Raised, Flipping, Counting, Reached, FlipAfter, SleepFlipped
      <4>2. step = 0
        BY <2>3, <4>1
      <4>3. lead'[m] = 0
        BY <1>2, <2>0, <2>2, <3>1, <4>2, LeadExact DEF LeadMax
      <4> QED BY <1>2, <2>1, <2>2, <3>1, <3>2, <4>1, <4>3
              DEF MotorBooks, RestBooks, FlipBooks, FlightBooks
    <3>3. CASE Raised(m)
      <4>1. Counting(m) /\ FlipAfter(m) = "none" /\ SleepFlipped(m)
        BY <2>m, <3>3 DEF Raised, Flipping, Counting, FlipAfter, SleepFlipped
      <4>2. Along(m, step) \in 0..since[m]
        BY <2>0, <2>3, <4>1
      <4>3. lead'[m] = -step /\ -step \in -MaxBehind..MaxBehind
        <5>1. -step \in -MaxBehind..MaxBehind
          BY <2>0, <2>s, <2>4, <4>2 DEF Along
        <5>2. lead[m] - step = -step /\ -step \in -LeadMax..LeadMax
          BY <2>0, <2>s, <3>1, <5>1 DEF LeadMax
        <5> QED BY <1>2, <2>2, <5>1, <5>2, LeadExact
      <4>4. Along(m, lead[m])' - Uncounted(m)' \in -MaxBehind..0
        BY <2>0, <2>s, <2>2, <2>4, <4>2, <4>3 DEF Along, Uncounted
      <4> QED BY <1>2, <2>1, <2>2, <3>3, <4>1, <4>3, <4>4
              DEF MotorBooks, RestBooks, FlipBooks, FlightBooks
    <3> QED BY <3>2, <3>3
  <2>6. CASE flip[m] = "none"
    <3>1. awake[m] = sleepBit[m] /\ Along(m, lead[m]) - Uncounted(m) \in -MaxBehind..0
      BY <2>1, <2>6, <2>m DEF FlightBooks
    <3>2. FlipAfter(m) = "none" /\ ~Raised(m) /\ SleepFlipped(m) = sleepBit[m]
          /\ Counting(m) = awake[m]
      BY <2>6, <2>m DEF FlipAfter, Raised, Flipping, SleepFlipped, Counting, IInv, TypeOK
    <3>r. Reached(m) => Counting(m)
      BY DEF Reached
    <3>3. Along(m, lead[m] - step) \in -MaxBehind..MaxBehind
          /\ (~Reached(m) => Along(m, lead[m] - step) \in -MaxBehind..0)
      <4>1. CASE ~awake[m]
        BY <2>0, <2>s, <2>3, <2>4, <3>1, <3>2, <3>r, <4>1 DEF Along, Uncounted
      <4>2. CASE awake[m] /\ heading[m] = 1
        BY <2>0, <2>s, <2>3, <3>1, <3>2, <4>2 DEF Along, Uncounted
      <4>3. CASE awake[m] /\ heading[m] = -1
        BY <2>0, <2>s, <2>3, <3>1, <3>2, <4>3 DEF Along, Uncounted
      <4> QED BY <2>4, <4>1, <4>2, <4>3
    <3>4. lead'[m] = lead[m] - step /\ lead'[m] \in -MaxBehind..MaxBehind
      <4>1. lead[m] - step \in -MaxBehind..MaxBehind
        BY <2>0, <2>s, <2>4, <3>3 DEF Along
      <4>2. lead[m] - step \in -LeadMax..LeadMax
        BY <2>0, <2>s, <4>1 DEF LeadMax
      <4> QED BY <1>2, <2>2, <4>1, <4>2, LeadExact
    <3>5. ~Reached(m) => Along(m, lead[m])' - Uncounted(m)' \in -MaxBehind..0
      BY <2>0, <2>s, <2>2, <2>4, <3>3, <3>4 DEF Along, Uncounted
    <3> QED BY <1>2, <2>1, <2>2, <3>1, <3>2, <3>4, <3>5
            DEF MotorBooks, RestBooks, FlipBooks, FlightBooks
  <2> QED BY <2>5, <2>6
<1> QED BY <1>1, <1>2

(* SLEEP reaches a motor at rest, the cut-off one whose steps are all counted, *)
(* and WAKE none of these motors.                                            *)
LEMMA PowerBooks ==
  ASSUME IInv, Books, NEW m \in Motors, Wake(m) \/ Sleep(m) \/ CutOff(m) PROVE Books'
<1> SUFFICES ASSUME NEW n \in Motors \ Wakable PROVE MotorBooks(n)'
  BY DEF Books
<1>n. MotorBooks(n)
  BY DEF Books
<1>1. CASE n # m
  <2>1. CASE Wake(m)
    BY <1>1, <1>n, <2>1, SameBooks DEF Wake, flipVars, IInv, TypeOK
  <2>2. CASE Sleep(m) \/ CutOff(m)
    BY <1>1, <1>n, <2>2, SameBooks DEF Sleep, CutOff, Disable, flipVars, IInv, TypeOK
  <2> QED BY <2>1, <2>2
<1>2. CASE n = m
  <2>1. Disable(m)
    BY <1>2 DEF Wake, Sleep, CutOff
  <2>2. /\ awake'[m] = FALSE /\ forced'[m] = FALSE /\ sleepBit'[m] = FALSE
        /\ moving' = moving /\ heading' = heading /\ flip' = flip /\ since' = since
        /\ lead' = lead /\ woken' = woken
    BY <2>1 DEF Disable, flipVars, IInv, TypeOK
  <2>3. moving[m] => since[m] = 0
    BY <1>2 DEF Wake, Sleep, CutOff
  <2>4. moving[m] => Uncounted(m) = 0 /\ Uncounted(m)' = 0
    BY <2>2, <2>3 DEF Uncounted
  <2>5. Along(m, lead[m])' = Along(m, lead[m])
    BY <2>2 DEF Along
  <2> QED BY <1>2, <1>n, <2>2, <2>4, <2>5 DEF MotorBooks, RestBooks, FlipBooks, FlightBooks
<1> QED BY <1>1, <1>2

(* An edge moves exactly the motors with their SLEEP bit high, the way they     *)
(* were sent.                                                                *)
LEMMA EdgeBooks ==
  ASSUME IInv, Books, Edge PROVE Books'
<1> SUFFICES ASSUME NEW n \in Motors \ Wakable PROVE MotorBooks(n)'
  BY DEF Books
<1>n. MotorBooks(n)
  BY DEF Books
<1>0. /\ dirBit[n] \in Signs /\ heading[n] \in Signs /\ lead[n] \in Int
      /\ since[n] \in 0..MaxBehind /\ MaxBehind \in Nat
  BY SharedStepAssumption DEF IInv, TypeOK, LeadMax
<1>1. /\ since'[n] = (IF moving[n] THEN since[n] + 1 ELSE since[n])
      /\ lead'[n] = (IF sleepBit[n] THEN Lead(n, lead[n] + dirBit[n]) ELSE lead[n])
      /\ moving' = moving /\ awake' = awake /\ forced' = forced /\ heading' = heading
      /\ flip' = flip /\ sleepBit' = sleepBit /\ woken' = woken
  BY DEF Edge, slotVars, flipVars, lineVars
<1>2. CASE ~(moving[n] /\ flip[n] = "none")
  <2>1. ~sleepBit[n]
    BY <1>2, <1>n DEF MotorBooks, RestBooks, FlipBooks
  <2> QED BY <1>1, <1>2, <1>n, <2>1 DEF MotorBooks, RestBooks, FlipBooks, FlightBooks
<1>3. CASE moving[n] /\ flip[n] = "none"
  <2>1. dirBit[n] = heading[n] /\ since[n] < MaxBehind
    BY <1>3 DEF Edge, IInv, Turned
  <2>2. awake[n] = sleepBit[n] /\ Along(n, lead[n]) - Uncounted(n) \in -MaxBehind..0
    BY <1>3, <1>n DEF MotorBooks, FlightBooks
  <2>3. CASE ~sleepBit[n]
    <3>1. Along(n, lead[n])' = Along(n, lead[n]) /\ Uncounted(n) = 0 /\ Uncounted(n)' = 0
      BY <1>1, <2>2, <2>3 DEF Along, Uncounted
    <3> QED BY <1>1, <1>3, <1>n, <2>2, <2>3, <3>1
            DEF MotorBooks, RestBooks, FlipBooks, FlightBooks
  <2>4. CASE sleepBit[n]
    <3>1. lead[n] + dirBit[n] \in -LeadMax..LeadMax
      BY <1>0, <2>1, <2>2, <2>4 DEF Along, Uncounted, Signs, LeadMax
    <3>2. lead'[n] = lead[n] + heading[n]
      BY <1>1, <2>1, <2>4, <3>1, LeadExact
    <3>3. Along(n, lead[n])' = Along(n, lead[n]) + 1
      BY <1>0, <1>1, <3>2 DEF Along, Signs
    <3>4. Uncounted(n)' = Uncounted(n) + 1
      BY <1>1, <1>3, <2>2, <2>4 DEF Uncounted
    <3>5. Along(n, lead[n]) \in Int /\ Uncounted(n) \in Int
      BY <1>0 DEF Along, Uncounted
    <3>6. Along(n, lead[n])' - Uncounted(n)' \in -MaxBehind..0
      BY <2>2, <3>3, <3>4, <3>5
    <3> QED BY <1>1, <1>3, <1>n, <2>2, <3>6 DEF MotorBooks, RestBooks, FlipBooks, FlightBooks
  <2> QED BY <2>3, <2>4
<1> QED BY <1>2, <1>3

(* Every step keeps the books.                                               *)
LEMMA NextBooks == IInv /\ Books /\ [Next]_vars => Books'
<1> SUFFICES ASSUME IInv, Books, [Next]_vars PROVE Books'
  OBVIOUS
<1>1. CASE UNCHANGED vars
  BY <1>1, SameBooks DEF vars, Books
<1>2. CASE Edge
  BY <1>2, EdgeBooks
<1>3. ASSUME NEW m \in Motors, Zero(m) \/ TimePasses(m) PROVE Books'
  <2>1. CASE Zero(m)
    BY <2>1, SameBooks DEF Zero, Books, flipVars, lineVars, histVars
  <2>2. CASE TimePasses(m)
    BY <2>2, SameBooks DEF TimePasses, Books, slotVars, lineVars, histVars
  <2> QED BY <1>3, <2>1, <2>2
<1>4. CASE \E m \in Motors :
             \/ \E t \in Positions : Start(m, t)
             \/ Poll(m) \/ Wake(m) \/ Sleep(m) \/ CutOff(m) \/ Zero(m) \/ TimePasses(m)
  BY <1>3, <1>4, StartBooks, PollBooks, PowerBooks
<1> QED BY <1>1, <1>2, <1>4 DEF Next

(* For any number of motors and any polling interval, the position counted by  *)
(* polling is never further from the shaft than the steps of one interval, and *)
(* the differences of joins, flips and cut-offs do not add up                 *)
(* (updateProgress_, runFlipScheduler_).                                      *)
THEOREM CountStaysClose == Spec => []BooksBalance
<1>1. Init => Books
  <2> SUFFICES ASSUME Init, NEW m \in Motors \ Wakable PROVE MotorBooks(m)
    BY DEF Books
  <2>1. 0 \in -MaxBehind..MaxBehind
    BY SharedStepAssumption
  <2> QED BY <2>1 DEF Init, MotorBooks, RestBooks, FlipBooks, FlightBooks
<1>2. IInv /\ Books => BooksBalance
  <2> SUFFICES ASSUME IInv, Books, NEW m \in Motors \ Wakable
               PROVE  lead[m] \in -MaxBehind..MaxBehind
    BY DEF BooksBalance
  <2>1. MotorBooks(m)
    BY DEF Books
  <2>2. lead[m] \in Int /\ since[m] \in 0..MaxBehind /\ MaxBehind \in Nat
    BY SharedStepAssumption DEF IInv, TypeOK, LeadMax
  <2> QED BY <2>1, <2>2
          DEF MotorBooks, RestBooks, FlipBooks, FlightBooks, Along, Uncounted
<1> QED BY <1>1, <1>2, NextBooks, Inductive, PTL DEF Spec
===============================================================================

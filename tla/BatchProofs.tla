------------------------------ MODULE BatchProofs ------------------------------
(***************************************************************************)
(* Proofs about command lines and batches in the shared-STEP build, for    *)
(* any motors, tasks, commands and lengths of a line.                       *)
(***************************************************************************)
EXTENDS Batch, SequenceTheorems, TLAPS

-----------------------------------------------------------------------------
(* The motors: one in flight that the controller takes for stopped is one the *)
(* cut-off left running, which has no leg to come; while a homing has legs to *)
(* come, some motor counts as moving.                                        *)

MotorStates ==
    [inFlight: SUBSET Motors, moving: SUBSET Motors, cut: SUBSET Motors,
     old: SUBSET Motors, legs: [Motors -> 0..2], by: [Motors -> 0..MaxLines]]

MotorsInv(s) ==
    /\ s \in MotorStates
    /\ s.cut \subseteq s.inFlight
    /\ s.inFlight \ s.cut \subseteq s.moving
    /\ \A m \in s.cut : s.legs[m] = 0
    /\ (\E m \in Motors : s.legs[m] > 0) => s.moving # {}

(* The lines: a batch that is carried out commands no motor twice; what has   *)
(* been started counts in the estimate; a motion is started or refused; and   *)
(* a refusal ends the line.                                                  *)
LineStates ==
    [id: Nat, cmds: Seq(Commands), results: Seq(Outcomes), est: Nat, answer: Answers]

LineInv(l) ==
    /\ Len(l.results) <= Len(l.cmds)
    /\ IsBatch(l.cmds) /\ (l.answer = "open" \/ l.results # <<>>) => ~Overlap(l.cmds)
    /\ \A i \in 1..Len(l.results) :
          /\ l.results[i] = "started" => l.cmds[i].est <= l.est
          /\ l.cmds[i].op \in Motions => l.results[i] \in {"started", "refused"}
          /\ l.answer \in {"open", "ack"} => l.results[i] # "refused"
    /\ l.answer = "ack" => Len(l.results) = Len(l.cmds)

IInv ==
    /\ TypeOK
    /\ MotorsInv(motors)
    /\ inBatch => BatchOpen
    /\ inBatch /\ batchIdle => motors.old \subseteq motors.cut
    /\ line \in [Tasks -> LineStates]
    /\ \A t \in Tasks : LineInv(line[t]) /\ (t # Console => ~IsBatch(line[t].cmds))

LEMMA InitIInv == Init => IInv
<1> SUFFICES ASSUME Init PROVE IInv
  OBVIOUS
<1>1. /\ motors.inFlight = {} /\ motors.moving = {} /\ motors.cut = {} /\ motors.old = {}
      /\ motors.legs = [m \in Motors |-> 0] /\ motors.by = [m \in Motors |-> 0]
  BY DEF Init
<1>2. 0 \in 0..2 /\ 0 \in 0..MaxLines
  BY BatchAssumption
<1>3. motors \in MotorStates
  BY <1>2 DEF Init, MotorStates
<1>4. MotorsInv(motors)
  BY <1>1, <1>3 DEF MotorsInv
<1>5. ASSUME NEW t \in Tasks
      PROVE  /\ line[t] = [id |-> 0, cmds |-> <<>>, results |-> <<>>, est |-> 0, answer |-> "none"]
             /\ line[t] \in LineStates /\ line[t].id = 0 /\ line[t].answer = "none"
             /\ line[t].cmds = <<>> /\ line[t].results = <<>>
  BY DEF Init, LineStates, Answers
<1>6. Len(<<>>) = 0
  OBVIOUS
<1>7. TypeOK
  <2>1. /\ motors.cut \subseteq motors.inFlight /\ inBatch \in BOOLEAN /\ batchIdle \in BOOLEAN
        /\ defaults \in {"slow", "fast"} /\ lines = 0
    BY DEF Init
  <2>2. ASSUME NEW t \in Tasks
        PROVE  /\ line[t].id \in 0..lines /\ line[t].answer \in Answers
               /\ Len(line[t].results) <= Len(line[t].cmds)
    BY <1>5, <1>6, <2>1 DEF Answers
  <2> QED BY <1>2, <1>3, <2>1, <2>2 DEF TypeOK, MotorStates
<1>8. ASSUME NEW t \in Tasks PROVE LineInv(line[t]) /\ ~IsBatch(line[t].cmds)
  BY <1>5, <1>6 DEF LineInv, IsBatch
<1>9. line \in [Tasks -> LineStates] /\ ~inBatch
  BY <1>5 DEF Init
<1> QED BY <1>4, <1>7, <1>8, <1>9 DEF IInv

-----------------------------------------------------------------------------
(* The controller's tick.                                                    *)

LEMMA StartedIs ==
  ASSUME NEW s \in MotorStates, NEW go \in SUBSET Motors
  PROVE  /\ Started(s, go) \in MotorStates
         /\ Started(s, go).inFlight = s.inFlight \cup go
         /\ Started(s, go).moving = s.moving \cup go
         /\ Started(s, go).cut = s.cut \ go
         /\ Started(s, go).old = s.old
         /\ Started(s, go).legs = s.legs /\ Started(s, go).by = s.by
BY DEF Started, MotorStates

LEMMA TickInv ==
  ASSUME MotorsInv(motors), NEW over \in Over
  PROVE  /\ MotorsInv(Ticked(over))
         /\ motors.cut \subseteq Ticked(over).cut
         /\ motors.inFlight \subseteq Ticked(over).inFlight
         /\ Ticked(over).old = motors.old /\ Ticked(over).by = motors.by
         /\ (motors.moving = {} => Ticked(over).inFlight = motors.inFlight)
<1> DEFINE s == [motors EXCEPT !.moving = motors.inFlight \ over,
                            !.cut = @ \cup (over \cap motors.inFlight),
                            !.legs = [m \in Motors |-> IF m \in over THEN 0 ELSE @[m]]]
           leg(n)  == {m \in Motors : s.legs[m] = n}
           stopped(n) == IF leg(n) \cap s.moving = {} THEN leg(n) ELSE {}
           go == IF stopped(2) # {} THEN stopped(2) ELSE stopped(1)
           r == Started(s, go)
<1>0. Ticked(over) = [r EXCEPT !.legs = [m \in Motors |-> IF m \in go THEN @[m] - 1 ELSE @[m]]]
  BY DEF Ticked
<1>1. motors \in MotorStates /\ over \subseteq Motors
  BY DEF MotorsInv, MotorStates, Over, Homing
<1>2. /\ s \in MotorStates /\ s.inFlight = motors.inFlight /\ s.moving = motors.inFlight \ over
      /\ s.cut = motors.cut \cup (over \cap motors.inFlight)
      /\ s.old = motors.old /\ s.by = motors.by
      /\ s.legs = [m \in Motors |-> IF m \in over THEN 0 ELSE motors.legs[m]]
  <2>1. [m \in Motors |-> IF m \in over THEN 0 ELSE motors.legs[m]] \in [Motors -> 0..2]
    BY <1>1 DEF MotorStates
  <2> HIDE DEF leg, stopped, go, r
  <2> DEFINE moving == motors.inFlight \ over
             cut == motors.cut \cup (over \cap motors.inFlight)
             legs == [m \in Motors |-> IF m \in over THEN 0 ELSE motors.legs[m]]
  <2>2. s = [motors EXCEPT !.moving = moving, !.cut = cut, !.legs = legs]
    BY <1>1 DEF MotorStates
  <2>3. moving \subseteq Motors /\ cut \subseteq Motors /\ legs \in [Motors -> 0..2]
    BY <1>1, <2>1 DEF MotorStates
  <2> HIDE DEF s, moving, cut, legs
  <2>4. /\ s \in MotorStates /\ s.inFlight = motors.inFlight /\ s.moving = moving
        /\ s.cut = cut /\ s.old = motors.old /\ s.by = motors.by /\ s.legs = legs
    BY <1>1, <2>2, <2>3 DEF MotorStates
  <2> QED BY <2>4 DEF moving, cut, legs
<1> HIDE DEF s
<1>3. go \subseteq Motors /\ \A m \in go : s.legs[m] \in {1, 2}
  OBVIOUS
<1>4. \A m \in s.cut : s.legs[m] = 0
  BY <1>1, <1>2 DEF MotorsInv, MotorStates
<1>5. go \cap s.cut = {}
  BY <1>3, <1>4
<1>6. (\E m \in Motors : s.legs[m] > 0) => go # {} \/ s.moving # {}
  <2> SUFFICES ASSUME NEW m \in Motors, s.legs[m] > 0, s.moving = {} PROVE go # {}
    OBVIOUS
  <2>1. s.legs[m] \in {1, 2}
    BY <1>2 DEF MotorStates
  <2>2. m \in leg(1) \/ m \in leg(2)
    BY <2>1
  <2>3. stopped(1) = leg(1) /\ stopped(2) = leg(2)
    OBVIOUS
  <2> QED BY <2>2, <2>3
<1> HIDE DEF go
<1>7. /\ r \in MotorStates /\ r.inFlight = s.inFlight \cup go /\ r.moving = s.moving \cup go
      /\ r.cut = s.cut \ go /\ r.old = s.old /\ r.legs = s.legs /\ r.by = s.by
  BY <1>2, <1>3, StartedIs
<1> HIDE DEF r
<1>8. /\ Ticked(over).inFlight = r.inFlight /\ Ticked(over).moving = r.moving
      /\ Ticked(over).cut = r.cut /\ Ticked(over).old = r.old /\ Ticked(over).by = r.by
      /\ Ticked(over).legs = [m \in Motors |-> IF m \in go THEN r.legs[m] - 1 ELSE r.legs[m]]
      /\ Ticked(over) \in MotorStates
  <2>1. \A m \in Motors : r.legs[m] \in 0..2 /\ (m \in go => r.legs[m] - 1 \in 0..2)
    BY <1>3, <1>7 DEF MotorStates
  <2>2. [m \in Motors |-> IF m \in go THEN r.legs[m] - 1 ELSE r.legs[m]] \in [Motors -> 0..2]
    BY <2>1
  <2> QED BY <1>0, <1>7, <2>2 DEF MotorStates
<1>9. Ticked(over).cut = s.cut
  BY <1>5, <1>7, <1>8
<1>10. (\E m \in Motors : Ticked(over).legs[m] > 0) => Ticked(over).moving # {}
  <2> SUFFICES ASSUME NEW m \in Motors, Ticked(over).legs[m] > 0 PROVE Ticked(over).moving # {}
    OBVIOUS
  <2>1. s.legs[m] > 0
    <3>1. s.legs[m] \in 0..2
      BY <1>2 DEF MotorStates
    <3> QED BY <1>3, <1>7, <1>8, <3>1
  <2> QED BY <1>6, <1>7, <1>8, <2>1
<1>11. \A m \in Ticked(over).cut : Ticked(over).legs[m] = 0
  BY <1>1, <1>2, <1>4, <1>5, <1>7, <1>8, <1>9 DEF MotorStates
<1>12. Ticked(over).cut \subseteq Ticked(over).inFlight
       /\ Ticked(over).inFlight \ Ticked(over).cut \subseteq Ticked(over).moving
  BY <1>2, <1>7, <1>8, <1>9 DEF MotorsInv
<1>13. motors.moving = {} => go = {}
  <2> SUFFICES ASSUME motors.moving = {} PROVE go = {}
    OBVIOUS
  <2>1. \A m \in Motors : motors.legs[m] \in 0..2 /\ ~(motors.legs[m] > 0)
    BY <1>1 DEF MotorsInv, MotorStates
  <2>2. \A m \in Motors : s.legs[m] = 0
    BY <1>2, <2>1
  <2> QED BY <1>3, <2>2
<1> QED BY <1>2, <1>7, <1>8, <1>9, <1>10, <1>11, <1>12, <1>13 DEF MotorsInv

(* A command that starts motors.                                              *)
LEMMA LaunchInv ==
  ASSUME NEW s, MotorsInv(s), NEW c \in Commands, NEW t \in Tasks,
         c.mask # {}, c.mask \cap s.inFlight = {}, line[t].id \in 0..MaxLines
  PROVE  /\ MotorsInv(Launched(s, c, t))
         /\ Launched(s, c, t).inFlight = s.inFlight \cup c.mask
         /\ Launched(s, c, t).cut = s.cut /\ Launched(s, c, t).old = s.old
         /\ \A m \in c.mask : Launched(s, c, t).by[m] = line[t].id
<1>1. c.mask \subseteq Motors
  BY BatchAssumption
<1> DEFINE r == Started(s, c.mask)
<1>2. /\ r \in MotorStates /\ r.inFlight = s.inFlight \cup c.mask
      /\ r.moving = s.moving \cup c.mask /\ r.cut = s.cut \ c.mask
      /\ r.old = s.old /\ r.legs = s.legs /\ r.by = s.by
  BY <1>1, StartedIs DEF MotorsInv
<1> HIDE DEF r
<1>3. /\ Launched(s, c, t).inFlight = r.inFlight /\ Launched(s, c, t).moving = r.moving
      /\ Launched(s, c, t).cut = r.cut /\ Launched(s, c, t).old = r.old
      /\ Launched(s, c, t).by = [m \in Motors |-> IF m \in c.mask THEN line[t].id ELSE r.by[m]]
      /\ Launched(s, c, t).legs = [m \in Motors |-> IF m \in c.mask /\ c.op = "HOME" THEN 2
                                                    ELSE r.legs[m]]
      /\ Launched(s, c, t) \in MotorStates
  <2>1. Launched(s, c, t) =
          [r EXCEPT !.by = [m \in Motors |-> IF m \in c.mask THEN line[t].id ELSE @[m]],
                    !.legs = [m \in Motors |-> IF m \in c.mask /\ c.op = "HOME" THEN 2 ELSE @[m]]]
    BY DEF Launched, r
  <2>2. [m \in Motors |-> IF m \in c.mask THEN line[t].id ELSE r.by[m]] \in [Motors -> 0..MaxLines]
    BY <1>2 DEF MotorStates
  <2>3. [m \in Motors |-> IF m \in c.mask /\ c.op = "HOME" THEN 2 ELSE r.legs[m]] \in [Motors -> 0..2]
    BY <1>2 DEF MotorStates
  <2> QED BY <1>2, <2>1, <2>2, <2>3 DEF MotorStates
<1>4. s.cut \cap c.mask = {}
  BY DEF MotorsInv
<1> QED BY <1>1, <1>2, <1>3, <1>4 DEF MotorsInv

(* What a handler leaves, and what it may find.                              *)
HandlerLeft(c, t, outcome) ==
    /\ MotorsInv(motors')
    /\ motors'.old = motors.old /\ motors.cut \subseteq motors'.cut
    /\ defaults' \in {"slow", "fast"}
    /\ c.op \in Motions => outcome \in {"started", "refused"}
    /\ defaults' # defaults => motors'.inFlight \subseteq motors'.cut
    /\ c.op = "MOVE" /\ outcome = "started" =>
          /\ LineFree
          /\ \A m \in motors'.inFlight : \/ motors'.by[m] = line[t].id
                                         \/ motors.moving = {} => m \in motors.cut

LEMMA HandleInv ==
  ASSUME IInv, NEW t \in Tasks, NEW c \in Commands, NEW outcome \in Outcomes,
         Handle(c, t, outcome)
  PROVE  HandlerLeft(c, t, outcome)
<1>0. MotorsInv(motors) /\ defaults \in {"slow", "fast"} /\ line[t].id \in 0..MaxLines
  <2>1. lines \in 0..MaxLines /\ line[t].id \in 0..lines
    BY DEF IInv, TypeOK
  <2> QED BY <2>1, BatchAssumption DEF IInv, TypeOK
<1>1. PICK over \in Over :
        LET s == Ticked(over)
        IN  CASE outcome = "started" -> c.op \in Motions /\ MayStart(c) /\ Launch(c, t, s)
              [] outcome = "refused" -> \/ c.op \in Motions /\ RefuseMotion(c, t, s)
                                        \/ c.op = "UNKNOWN" /\ UNCHANGED <<motors, defaults>>
              [] outcome = "done"    -> \/ c.op = "SET" /\ SetDefaults(s)
                                        \/ c.op = "SLEEP" /\ c.mask \cap s.inFlight = {} /\ Other(s)
                                        \/ c.op \in {"WAKE", "STATUS"} /\ Other(s)
              [] outcome = "failed"  -> \/ c.op = "SET" /\ s.moving # {} /\ Other(s)
                                        \/ c.op = "SLEEP" /\ c.mask \cap s.inFlight # {} /\ Other(s)
                                        \/ c.op = "WAKE" /\ Other(s)
              [] OTHER -> FALSE
  BY DEF Handle
<1> DEFINE s == Ticked(over)
<1>2. /\ MotorsInv(s) /\ motors.cut \subseteq s.cut /\ motors.inFlight \subseteq s.inFlight
      /\ s.old = motors.old
      /\ (motors.moving = {} => s.inFlight = motors.inFlight)
  BY <1>0, TickInv
<1> HIDE DEF s
<1>3. CASE outcome = "started"
  <2>1. c.op \in Motions /\ MayStart(c) /\ Launch(c, t, s)
    BY <1>1, <1>3 DEF s
  <2>2. /\ c.mask # {} /\ c.mask \cap s.inFlight = {} /\ motors' = Launched(s, c, t)
        /\ defaults' = defaults
    BY <2>1 DEF Launch
  <2>3. /\ MotorsInv(motors') /\ motors'.inFlight = s.inFlight \cup c.mask
        /\ motors'.cut = s.cut /\ motors'.old = s.old
        /\ \A m \in c.mask : motors'.by[m] = line[t].id
    BY <1>0, <1>2, <2>2, LaunchInv
  <2>4. motors.moving = {} => motors.inFlight \subseteq motors.cut
    BY <1>0 DEF MotorsInv
  <2>5. \A m \in motors'.inFlight : \/ motors'.by[m] = line[t].id
                                    \/ motors.moving = {} => m \in motors.cut
    BY <1>2, <2>3, <2>4
  <2> QED BY <1>0, <1>2, <1>3, <2>1, <2>2, <2>3, <2>5 DEF MayStart, HandlerLeft
<1>4. CASE outcome # "started" /\ defaults' = defaults /\ motors' \in {motors, s}
           /\ (c.op \in Motions => outcome = "refused")
  BY <1>0, <1>2, <1>4 DEF HandlerLeft
<1>5. CASE outcome = "done" /\ c.op = "SET" /\ SetDefaults(s)
  <2>1. motors' = s /\ s.moving = {} /\ defaults' \in {"slow", "fast"}
    BY <1>5 DEF SetDefaults
  <2>2. s.inFlight \subseteq s.cut
    BY <1>2, <2>1 DEF MotorsInv
  <2> QED BY <1>2, <1>5, <2>1, <2>2 DEF Motions, HandlerLeft
<1>6. CASE outcome = "refused"
  <2>1. \/ c.op \in Motions /\ RefuseMotion(c, t, s)
        \/ c.op = "UNKNOWN" /\ UNCHANGED <<motors, defaults>>
    BY <1>1, <1>6 DEF s
  <2> QED BY <1>4, <1>6, <2>1 DEF RefuseMotion
<1>7. CASE outcome = "done"
  <2>1. \/ c.op = "SET" /\ SetDefaults(s)
        \/ c.op = "SLEEP" /\ c.mask \cap s.inFlight = {} /\ Other(s)
        \/ c.op \in {"WAKE", "STATUS"} /\ Other(s)
    BY <1>1, <1>7 DEF s
  <2> QED BY <1>4, <1>5, <1>7, <2>1 DEF Other, Motions
<1>8. CASE outcome = "failed"
  <2>1. c.op \in {"SET", "SLEEP", "WAKE"} /\ Other(s)
    BY <1>1, <1>8 DEF s
  <2> QED BY <1>4, <1>8, <2>1 DEF Other, Motions
<1> QED BY <1>3, <1>6, <1>7, <1>8 DEF Outcomes

-----------------------------------------------------------------------------
(* The steps of a line.                                                      *)

LEMMA LineFacts ==
  ASSUME IInv, NEW t \in Tasks
  PROVE  /\ line[t] \in LineStates /\ LineInv(line[t])
         /\ Len(line[t].cmds) \in Nat /\ Len(line[t].results) \in Nat
         /\ (t # Console => ~IsBatch(line[t].cmds))
         /\ line[t].id \in 0..lines /\ lines \in 0..MaxLines
<1>1. line[t] \in LineStates
  BY DEF IInv
<1>2. line[t].cmds \in Seq(Commands) /\ line[t].results \in Seq(Outcomes)
  BY <1>1 DEF LineStates
<1> QED BY <1>1, <1>2, LenProperties DEF IInv, TypeOK

LEMMA TypeFrom ==
  ASSUME MotorsInv(motors'), inBatch' \in BOOLEAN, batchIdle' \in BOOLEAN,
         defaults' \in {"slow", "fast"}, lines' \in 0..MaxLines,
         line' \in [Tasks -> LineStates],
         \A t \in Tasks : LineInv(line'[t]) /\ line'[t].id \in 0..lines'
  PROVE  TypeOK'
BY DEF MotorsInv, MotorStates, TypeOK, LineStates, LineInv

LEMMA ExecuteInv == ASSUME IInv, NEW t \in Tasks, Execute(t) PROVE IInv'
<1>1. PICK cmds \in Lines(t) :
        /\ line' = [line EXCEPT ![t] = [id |-> lines + 1, cmds |-> cmds, results |-> <<>>,
                                         est |-> 0, answer |-> Verdict(cmds)]]
        /\ IF Verdict(cmds) = "open" THEN EnterBatch(cmds)
           ELSE UNCHANGED <<inBatch, batchIdle>>
        /\ motors' = IF IsBatch(cmds) THEN [motors EXCEPT !.old = motors.inFlight] ELSE motors
  BY DEF Execute
<1>2. /\ line[t].answer # "open" /\ lines < MaxLines /\ lines' = lines + 1 /\ defaults' = defaults
      /\ lines \in 0..MaxLines /\ MaxLines \in Nat
  BY LineFacts, BatchAssumption DEF Execute
<1>3. cmds \in Seq(Commands) /\ Len(cmds) \in Nat /\ (t # Console => ~IsBatch(cmds))
  <2>1. PICK n \in 1..(IF t = Console THEN MaxLength ELSE 1) : cmds \in [1..n -> Commands]
    BY DEF Lines
  <2>2. n \in Nat /\ (t # Console => n = 1)
    BY <2>1, BatchAssumption
  <2>3. cmds \in Seq(Commands) /\ Len(cmds) = n
    BY <2>1, <2>2
  <2> QED BY <2>2, <2>3 DEF IsBatch
<1> DEFINE new == [id |-> lines + 1, cmds |-> cmds, results |-> <<>>, est |-> 0,
                   answer |-> Verdict(cmds)]
<1>4. new \in LineStates /\ new.id \in 0..lines'
  <2>1. Verdict(cmds) \in Answers
    BY DEF Verdict, Answers
  <2>2. lines + 1 \in Nat /\ <<>> \in Seq(Outcomes)
    BY <1>2
  <2>3. lines + 1 \in 0..lines'
    BY <1>2
  <2> QED BY <1>3, <2>1, <2>2, <2>3 DEF LineStates
<1>5. LineInv(new)
  <2>1. Len(<<>>) = 0
    OBVIOUS
  <2>2. IsBatch(cmds) /\ Verdict(cmds) = "open" => ~Overlap(cmds)
    BY DEF Verdict
  <2>3. Verdict(cmds) # "ack"
    BY DEF Verdict
  <2>4. new.results = <<>> /\ new.cmds = cmds /\ new.answer = Verdict(cmds)
    OBVIOUS
  <2> HIDE DEF new
  <2> QED BY <1>3, <2>1, <2>2, <2>3, <2>4 DEF LineInv
<1>6. line \in [Tasks -> LineStates]
  BY DEF IInv
<1>7. line' = [line EXCEPT ![t] = new] /\ new.cmds = cmds /\ new.answer = Verdict(cmds)
  BY <1>1
<1> HIDE DEF new
<1>8. /\ line' \in [Tasks -> LineStates] /\ line'[t] = new
      /\ \A u \in Tasks : u # t => line'[u] = line[u]
  BY <1>4, <1>6, <1>7
<1>9. ASSUME NEW u \in Tasks
      PROVE  /\ LineInv(line'[u]) /\ line'[u].id \in 0..lines'
             /\ (u # Console => ~IsBatch(line'[u].cmds))
  <2>1. CASE u = t
    BY <1>3, <1>4, <1>5, <1>7, <1>8, <2>1
  <2>2. CASE u # t
    BY <1>2, <1>8, <2>2, LineFacts
  <2> QED BY <2>1, <2>2
<1>10. /\ MotorsInv(motors') /\ motors'.inFlight = motors.inFlight /\ motors'.cut = motors.cut
       /\ motors'.moving = motors.moving
       /\ motors'.old = IF IsBatch(cmds) THEN motors.inFlight ELSE motors.old
  <2>1. CASE ~IsBatch(cmds)
    BY <1>1, <2>1 DEF IInv
  <2>2. CASE IsBatch(cmds)
    BY <1>1, <2>2 DEF IInv, MotorsInv, MotorStates
  <2> QED BY <2>1, <2>2
<1>11. inBatch \in BOOLEAN /\ batchIdle \in BOOLEAN /\ defaults \in {"slow", "fast"}
  BY DEF IInv, TypeOK
<1>12. CASE IsBatch(cmds) /\ Verdict(cmds) = "open"
  <2>1. inBatch' = TRUE /\ batchIdle' = (motors.moving = {}) /\ t = Console
    BY <1>1, <1>3, <1>12, Zenon DEF EnterBatch
  <2>2. BatchOpen'
    BY <1>7, <1>8, <1>12, <2>1 DEF BatchOpen
  <2>3. batchIdle' => motors'.old \subseteq motors'.cut
    BY <1>10, <1>12, <2>1 DEF IInv, MotorsInv
  <2>4. batchIdle' \in BOOLEAN
    BY <2>1
  <2>5. TypeOK'
    BY <1>2, <1>8, <1>9, <1>10, <1>11, <2>1, <2>4, TypeFrom
  <2> QED BY <1>8, <1>9, <1>10, <2>2, <2>3, <2>5 DEF IInv
<1>13. CASE ~(IsBatch(cmds) /\ Verdict(cmds) = "open")
  <2>1. inBatch' = FALSE
    <3>1. CASE IsBatch(cmds)
      <4>1. Verdict(cmds) # "open" /\ t = Console
        BY <1>3, <1>13, <3>1, Zenon
      <4>2. ~BatchOpen
        BY <1>2, <4>1 DEF BatchOpen
      <4> QED BY <1>1, <1>11, <4>1, <4>2 DEF IInv
    <3>2. CASE ~IsBatch(cmds)
      BY <1>1, <3>2 DEF EnterBatch, Verdict
    <3> QED BY <3>1, <3>2
  <2>2. batchIdle' \in BOOLEAN
    BY <1>1, <1>11, Zenon DEF EnterBatch
  <2>3. TypeOK'
    <3>1. inBatch' \in BOOLEAN
      BY <2>1
    <3>2. lines' \in 0..MaxLines /\ defaults' \in {"slow", "fast"}
      BY <1>2, <1>11
    <3>3. \A u \in Tasks : LineInv(line'[u]) /\ line'[u].id \in 0..lines'
      BY <1>9
    <3>4. MotorsInv(motors')
      BY <1>10
    <3> QED BY <1>8, <2>2, <3>1, <3>2, <3>3, <3>4, TypeFrom
  <2> QED BY <1>8, <1>9, <1>10, <2>1, <2>3 DEF IInv
<1> QED BY <1>12, <1>13

(* A line that is left, with the flags.                                       *)
LEMMA Flags ==
  ASSUME IInv, NEW t \in Tasks, LeaveBatch(line[t].cmds)
  PROVE  /\ inBatch' \in BOOLEAN /\ batchIdle' \in BOOLEAN
         /\ t = Console => ~inBatch'
         /\ t # Console => UNCHANGED <<inBatch, batchIdle>>
<1>1. inBatch \in BOOLEAN /\ batchIdle \in BOOLEAN
  BY DEF IInv, TypeOK
<1>2. CASE IsBatch(line[t].cmds)
  BY <1>2, LineFacts DEF LeaveBatch
<1>3. CASE ~IsBatch(line[t].cmds)
  BY <1>1, <1>3, Zenon DEF LeaveBatch, IInv, BatchOpen
<1> QED BY <1>2, <1>3

LEMMA DispatchInv ==
  ASSUME IInv, NEW t \in Tasks, Dispatch(t)
  PROVE  IInv'
<1> DEFINE l == line[t]
           n == Len(l.results) + 1
           c == l.cmds[n]
<1>1. PICK outcome \in Outcomes :
        /\ Handle(c, t, outcome)
        /\ line' = [line EXCEPT ![t].results = Append(@, outcome),
                                ![t].est = EstAfter(@, c, outcome),
                                ![t].answer = IF Stops(outcome) THEN "error" ELSE @]
        /\ IF Stops(outcome) THEN LeaveBatch(l.cmds) ELSE UNCHANGED <<inBatch, batchIdle>>
  BY DEF Dispatch
<1>2. l.answer = "open" /\ Len(l.results) < Len(l.cmds) /\ lines' = lines
  BY DEF Dispatch
<1>3. /\ l \in LineStates /\ LineInv(l) /\ Len(l.cmds) \in Nat /\ Len(l.results) \in Nat
      /\ (t # Console => ~IsBatch(l.cmds)) /\ l.id \in 0..lines /\ lines \in 0..MaxLines
  BY LineFacts
<1>4. l.cmds \in Seq(Commands) /\ n \in 1..Len(l.cmds) /\ c \in Commands /\ c.est \in Nat
      /\ l.est \in Nat /\ l.results \in Seq(Outcomes)
  <2>1. l.cmds \in Seq(Commands) /\ l.est \in Nat /\ l.results \in Seq(Outcomes)
    BY <1>3 DEF LineStates
  <2>2. n \in 1..Len(l.cmds)
    BY <1>2, <1>3
  <2>3. c \in Commands
    BY <2>1, <2>2, ElementOfSeq
  <2> QED BY <2>1, <2>2, <2>3, BatchAssumption
<1> DEFINE results == Append(l.results, outcome)
           est == EstAfter(l.est, c, outcome)
           answer == IF Stops(outcome) THEN "error" ELSE l.answer
           new == [l EXCEPT !.results = results, !.est = est, !.answer = answer]
<1>5. /\ results \in Seq(Outcomes) /\ Len(results) = n
      /\ (\A i \in 1..Len(l.results) : results[i] = l.results[i]) /\ results[n] = outcome
  BY <1>4, AppendProperties
<1>6. est \in Nat /\ l.est <= est /\ (outcome = "started" => c.est <= est)
  BY <1>4 DEF EstAfter
<1>7. answer \in {"open", "error"} /\ (answer = "open" <=> outcome # "refused")
  BY <1>2 DEF Stops
<1>8. line' = [line EXCEPT ![t] = new]
  <2>1. line \in [Tasks -> LineStates]
    BY DEF IInv
  <2> QED BY <1>1, <2>1 DEF LineStates
<1>9. HandlerLeft(c, t, outcome)
  BY <1>1, <1>4, HandleInv DEF HandlerLeft
<1> HIDE DEF results, est, answer
<1>10. /\ new \in LineStates /\ new.id = l.id /\ new.cmds = l.cmds /\ new.results = results
       /\ new.est = est /\ new.answer = answer
  BY <1>3, <1>5, <1>6, <1>7 DEF LineStates, Answers
<1> HIDE DEF new
<1>11. LineInv(new)
  <2>1. IsBatch(l.cmds) => ~Overlap(l.cmds)
    BY <1>2, <1>3 DEF LineInv
  <2>2. ASSUME NEW i \in 1..n
        PROVE  /\ results[i] = "started" => l.cmds[i].est <= est
               /\ l.cmds[i].op \in Motions => results[i] \in {"started", "refused"}
               /\ answer \in {"open", "ack"} => results[i] # "refused"
    <3>1. CASE i = n
      BY <1>5, <1>6, <1>7, <1>9, <3>1 DEF HandlerLeft
    <3>2. CASE i # n
      <4>1. i \in 1..Len(l.results) /\ results[i] = l.results[i] /\ i \in 1..Len(l.cmds)
        BY <1>3, <1>4, <1>5, <3>2
      <4>2. l.cmds[i].est \in Nat
        BY <1>4, <4>1, ElementOfSeq, BatchAssumption
      <4>3. /\ l.results[i] = "started" => l.cmds[i].est <= l.est
            /\ l.cmds[i].op \in Motions => l.results[i] \in {"started", "refused"}
            /\ l.results[i] # "refused"
        BY <1>2, <1>3, <4>1 DEF LineInv
      <4>4. l.cmds[i].est <= l.est => l.cmds[i].est <= est
        BY <1>4, <1>6, <4>2
      <4> QED BY <4>1, <4>3, <4>4
    <3> QED BY <3>1, <3>2
  <2>3. n <= Len(l.cmds)
    BY <1>4
  <2> QED BY <1>5, <1>7, <1>10, <2>1, <2>2, <2>3 DEF LineInv
<1>12. line \in [Tasks -> LineStates]
  BY DEF IInv
<1>13. /\ line' \in [Tasks -> LineStates] /\ line'[t] = new
       /\ \A u \in Tasks : u # t => line'[u] = line[u]
  BY <1>8, <1>10, <1>12
<1>14. ASSUME NEW u \in Tasks
       PROVE  /\ LineInv(line'[u]) /\ line'[u].id \in 0..lines'
              /\ (u # Console => ~IsBatch(line'[u].cmds))
  <2>1. CASE u = t
    BY <1>2, <1>3, <1>10, <1>11, <1>13, <2>1
  <2>2. CASE u # t
    BY <1>2, <1>13, <2>2, LineFacts
  <2> QED BY <2>1, <2>2
<1>15. /\ inBatch' \in BOOLEAN /\ batchIdle' \in BOOLEAN
       /\ inBatch' => inBatch /\ (batchIdle' => batchIdle) /\ (t = Console => outcome # "refused")
  <2>1. CASE Stops(outcome)
    BY <1>1, <2>1, Flags
  <2>2. CASE ~Stops(outcome)
    BY <1>1, <2>2 DEF IInv, TypeOK, Stops
  <2> QED BY <2>1, <2>2
<1>16. inBatch' => BatchOpen'
  <2> SUFFICES ASSUME inBatch' PROVE BatchOpen'
    OBVIOUS
  <2>1. BatchOpen /\ (t = Console => outcome # "refused")
    BY <1>15 DEF IInv
  <2>2. CASE t = Console
    BY <1>7, <1>10, <1>13, <2>1, <2>2 DEF BatchOpen
  <2>3. CASE t # Console
    BY <1>13, <2>1, <2>3, BatchAssumption DEF BatchOpen
  <2> QED BY <2>2, <2>3
<1>17. inBatch' /\ batchIdle' => motors'.old \subseteq motors'.cut
  BY <1>9, <1>15 DEF HandlerLeft, IInv
<1>18. TypeOK'
  BY <1>2, <1>3, <1>9, <1>13, <1>14, <1>15, TypeFrom DEF HandlerLeft
<1> QED BY <1>9, <1>13, <1>14, <1>16, <1>17, <1>18 DEF IInv, HandlerLeft

LEMMA FinishInv == ASSUME IInv, NEW t \in Tasks, Finish(t) PROVE IInv'
<1> DEFINE l == line[t]
           answer == IF "started" \in ToSet(l.results) THEN "ack" ELSE "done"
           new == [l EXCEPT !.answer = answer]
<1>1. /\ l.answer = "open" /\ Len(l.results) = Len(l.cmds) /\ LeaveBatch(l.cmds)
      /\ line' = [line EXCEPT ![t].answer = answer]
      /\ UNCHANGED <<motors, defaults, lines>>
  BY DEF Finish
<1>2. /\ l \in LineStates /\ LineInv(l)
      /\ (t # Console => ~IsBatch(l.cmds)) /\ l.id \in 0..lines /\ lines \in 0..MaxLines
  BY LineFacts
<1>3. answer \in {"ack", "done"}
  OBVIOUS
<1> HIDE DEF answer
<1>4. /\ new \in LineStates /\ new.id = l.id /\ new.cmds = l.cmds /\ new.results = l.results
      /\ new.est = l.est /\ new.answer = answer
  BY <1>2, <1>3 DEF LineStates, Answers
<1>5. line' = [line EXCEPT ![t] = new] /\ line \in [Tasks -> LineStates]
  BY <1>1 DEF IInv
<1> HIDE DEF new
<1>6. LineInv(new)
  BY <1>1, <1>2, <1>3, <1>4 DEF LineInv
<1>7. /\ line' \in [Tasks -> LineStates] /\ line'[t] = new
      /\ \A u \in Tasks : u # t => line'[u] = line[u]
  BY <1>4, <1>5
<1>8. ASSUME NEW u \in Tasks
      PROVE  /\ LineInv(line'[u]) /\ line'[u].id \in 0..lines'
             /\ (u # Console => ~IsBatch(line'[u].cmds))
  <2>1. CASE u = t
    BY <1>1, <1>2, <1>4, <1>6, <1>7, <2>1
  <2>2. CASE u # t
    BY <1>1, <1>7, <2>2, LineFacts
  <2> QED BY <2>1, <2>2
<1>9. /\ inBatch' \in BOOLEAN /\ batchIdle' \in BOOLEAN
      /\ t = Console => ~inBatch'
      /\ t # Console => UNCHANGED <<inBatch, batchIdle>>
  BY <1>1, Flags
<1>10. inBatch' => BatchOpen'
  BY <1>7, <1>9, BatchAssumption DEF IInv, BatchOpen
<1>11. inBatch' /\ batchIdle' => motors'.old \subseteq motors'.cut
  BY <1>1, <1>9 DEF IInv
<1>12. TypeOK'
  <2>1. MotorsInv(motors') /\ defaults' \in {"slow", "fast"} /\ lines' \in 0..MaxLines
    BY <1>1, <1>2 DEF IInv, TypeOK
  <2> QED BY <1>7, <1>8, <1>9, <2>1, TypeFrom
<1> QED BY <1>1, <1>7, <1>8, <1>10, <1>11, <1>12 DEF IInv

(* The loop's tick, and the steppers.                                        *)
LEMMA MotorStepInv ==
  ASSUME IInv, LoopTick \/ \E m \in Motors : Stop(m)
  PROVE  IInv'
<1>1. UNCHANGED <<inBatch, batchIdle, defaults, line, lines>>
  BY DEF LoopTick, Stop
<1>2. /\ MotorsInv(motors')
      /\ motors.old \subseteq motors.cut => motors'.old \subseteq motors'.cut
  <2>1. CASE LoopTick
    BY <2>1, TickInv DEF LoopTick, IInv
  <2>2. ASSUME NEW m \in Motors, Stop(m)
        PROVE  /\ MotorsInv(motors')
               /\ motors.old \subseteq motors.cut => motors'.old \subseteq motors'.cut
    <3>1. motors' = [motors EXCEPT !.inFlight = motors.inFlight \ {m},
                                   !.cut = motors.cut \ {m}, !.old = motors.old \ {m}]
      BY <2>2 DEF Stop, IInv, MotorsInv, MotorStates
    <3>2. motors \in MotorStates
      BY DEF IInv, MotorsInv
    <3>3. /\ motors' \in MotorStates /\ motors'.inFlight = motors.inFlight \ {m}
          /\ motors'.cut = motors.cut \ {m} /\ motors'.old = motors.old \ {m}
          /\ motors'.moving = motors.moving /\ motors'.legs = motors.legs
      BY <3>1, <3>2 DEF MotorStates
    <3> QED BY <3>3 DEF IInv, MotorsInv
  <2> QED BY <2>1, <2>2
<1>3. TypeOK'
  BY <1>1, <1>2, TypeFrom DEF IInv, TypeOK
<1> QED BY <1>1, <1>2, <1>3 DEF IInv, BatchOpen

-----------------------------------------------------------------------------
LEMMA NextIInv == IInv /\ [Next]_vars => IInv'
<1> SUFFICES ASSUME IInv, [Next]_vars PROVE IInv'
  OBVIOUS
<1>1. CASE UNCHANGED vars
  BY <1>1 DEF vars, IInv, TypeOK, BatchOpen
<1>2. CASE Next
  BY <1>2, ExecuteInv, DispatchInv, FinishInv, MotorStepInv DEF Next
<1> QED BY <1>1, <1>2

(* In every behaviour of CommandBatchExecutor::execute and the handlers, the   *)
(* flags are up only in a batch, and a motor in flight is seen moving unless  *)
(* the cut-off hit it (IInv).                                                *)
THEOREM Inductive == Spec => []IInv
BY InitIInv, NextIInv, PTL DEF Spec

(* Motors, flags and lines keep to their ranges, and no line runs past its     *)
(* commands (MotorCommandProcessor::execute).                                *)
THEOREM TypeCorrect == Spec => []TypeOK
<1>1. IInv => TypeOK
  BY DEF IInv
<1> QED BY <1>1, Inductive, PTL

(* The exception to the busy rule is open only while a batch is carried out:   *)
(* no exit of CommandBatchExecutor::execute leaves in_batch_ behind.          *)
THEOREM ExceptionEnds == Spec => []ExceptionIsTheBatchs
<1>1. IInv => ExceptionIsTheBatchs
  BY DEF IInv, ExceptionIsTheBatchs
<1> QED BY <1>1, Inductive, PTL

(* No line carries out two commands for one motor: the conflict check of       *)
(* MotorCommandProcessor::execute covers every pair of commands.              *)
THEOREM MotorOnce == Spec => []NoMotorTwice
<1>1. IInv => NoMotorTwice
  <2> SUFFICES ASSUME IInv, NEW t \in Tasks, NEW i \in 1..Len(line[t].results),
                      NEW j \in 1..Len(line[t].results), i < j
               PROVE  MaskFor(line[t].cmds[i]) \cap MaskFor(line[t].cmds[j]) = {}
    BY DEF NoMotorTwice
  <2>1. /\ Len(line[t].cmds) \in Nat /\ Len(line[t].results) \in Nat
        /\ Len(line[t].results) <= Len(line[t].cmds) /\ LineInv(line[t])
    BY LineFacts DEF LineInv
  <2>2. IsBatch(line[t].cmds) /\ line[t].results # <<>>
    BY <2>1 DEF IsBatch
  <2>3. i \in 1..Len(line[t].cmds) /\ j \in 1..Len(line[t].cmds)
    BY <2>1
  <2> QED BY <2>1, <2>2, <2>3 DEF LineInv, Overlap
<1> QED BY <1>1, Inductive, PTL

(* The aggregate ACK speaks for every motion of its line: all were started,    *)
(* and est_ms covers the slowest (CommandBatchExecutor::execute).             *)
THEOREM AckSpeaksForAll == Spec => []AckIsWhole
<1>1. IInv => AckIsWhole
  BY LineFacts DEF LineInv, AckIsWhole
<1> QED BY <1>1, Inductive, PTL

-----------------------------------------------------------------------------
(* What a step may not do.                                                    *)

LEMMA JustDoneIsDispatch ==
  ASSUME IInv, [Next]_vars, NEW t \in Tasks, NEW op, NEW outcome, JustDone(t, op, outcome)
  PROVE  \E c \in Commands : c.op = op /\ outcome \in Outcomes /\ Handle(c, t, outcome)
<1> DEFINE n == Len(line[t].results) + 1
<1>1. /\ line'[t].id = line[t].id /\ Len(line'[t].results) = n
      /\ line[t].cmds[n].op = op /\ line'[t].results[n] = outcome
  BY DEF JustDone
<1>2. /\ line[t] \in LineStates /\ Len(line[t].results) \in Nat
      /\ line[t].id \in 0..lines /\ lines \in 0..MaxLines /\ line \in [Tasks -> LineStates]
  BY LineFacts DEF IInv
<1>3. line'[t] # line[t]
  BY <1>1, <1>2
<1>4. ~Execute(t)
  <2>1. Execute(t) => line'[t].id = lines + 1
    BY <1>2 DEF Execute
  <2> QED BY <1>1, <1>2, <2>1
<1>5. ~Finish(t)
  <2>1. Finish(t) => line'[t].results = line[t].results
    BY <1>2 DEF Finish, LineStates
  <2> QED BY <1>1, <1>2, <2>1
<1>6. ASSUME NEW u \in Tasks, u # t, Execute(u) \/ Dispatch(u) \/ Finish(u) PROVE FALSE
  BY <1>2, <1>3, <1>6 DEF Execute, Dispatch, Finish
<1>7. Dispatch(t)
  BY <1>3, <1>4, <1>5, <1>6 DEF Next, vars, LoopTick, Stop
<1>8. PICK o \in Outcomes :
        /\ Handle(line[t].cmds[n], t, o)
        /\ line' = [line EXCEPT ![t].results = Append(@, o),
                      ![t].est = EstAfter(@, line[t].cmds[n], o),
                      ![t].answer = IF Stops(o) THEN "error" ELSE @]
  BY <1>7 DEF Dispatch
<1>9. Len(line[t].results) < Len(line[t].cmds) /\ line[t].cmds[n] \in Commands
  <2>1. line[t].cmds \in Seq(Commands)
    BY <1>2 DEF LineStates
  <2>2. n \in 1..Len(line[t].cmds)
    BY <1>2, <1>7, <2>1 DEF Dispatch
  <2> QED BY <1>7, <2>1, <2>2, ElementOfSeq DEF Dispatch
<1>10. o = outcome
  <2>1. line'[t].results = Append(line[t].results, o) /\ line[t].results \in Seq(Outcomes)
    BY <1>2, <1>8 DEF LineStates
  <2>2. Append(line[t].results, o)[n] = o
    BY <2>1, AppendProperties
  <2> QED BY <1>1, <2>1, <2>2
<1> QED BY <1>1, <1>8, <1>9, <1>10

(* A MOVE never joins motors that were in flight before its own line or the    *)
(* open batch, the cut-off apart (MotorCommandHandler::handleMove's busy rule). *)
THEOREM NeverJoins == Spec => NoLateJoin
<1> DEFINE Step == \A t \in Tasks : JustDone(t, "MOVE", "started") =>
                     \A m \in motors'.inFlight : \/ motors'.by[m] = line[t].id
                                                 \/ m \in motors.cut \cup motors'.cut
                                                 \/ BatchOpen /\ m \notin motors.old
<1>1. IInv /\ [Next]_vars => Step
  <2> SUFFICES ASSUME IInv, [Next]_vars, NEW t \in Tasks, JustDone(t, "MOVE", "started"),
                      NEW m \in motors'.inFlight
               PROVE  \/ motors'.by[m] = line[t].id
                      \/ m \in motors.cut
                      \/ BatchOpen /\ m \notin motors.old
    OBVIOUS
  <2>1. PICK c \in Commands : c.op = "MOVE" /\ Handle(c, t, "started")
    BY JustDoneIsDispatch
  <2>2. /\ LineFree
        /\ \/ motors'.by[m] = line[t].id
           \/ motors.moving = {} => m \in motors.cut
    BY <2>1, HandleInv DEF Outcomes, HandlerLeft
  <2>3. CASE motors.moving = {}
    BY <2>2, <2>3
  <2>4. CASE inBatch /\ batchIdle
    BY <2>4 DEF IInv
  <2> QED BY <2>2, <2>3, <2>4 DEF LineFree
<1>2. IInv /\ [Next]_vars => [Step]_vars
  BY <1>1
<1> QED BY <1>2, Inductive, PTL DEF Spec, NoLateJoin

(* SET never changes the defaults of the one ramp under a motor in flight, the  *)
(* cut-off apart (QueryCommandHandler's SET SPEED, ACCEL and DECEL).           *)
THEOREM DefaultsStay == Spec => DefaultsHold
<1>1. IInv /\ [Next]_vars => [defaults' # defaults => motors'.inFlight \subseteq motors'.cut]_vars
  <2> SUFFICES ASSUME IInv, Next, defaults' # defaults
               PROVE  motors'.inFlight \subseteq motors'.cut
    BY DEF vars
  <2>1. PICK t \in Tasks : Dispatch(t)
    BY DEF Next, Execute, Finish, LoopTick, Stop
  <2>2. PICK outcome \in Outcomes : Handle(line[t].cmds[Len(line[t].results) + 1], t, outcome)
    BY <2>1 DEF Dispatch
  <2>3. line[t].cmds[Len(line[t].results) + 1] \in Commands
    <3>1. line[t].cmds \in Seq(Commands) /\ Len(line[t].results) \in Nat
          /\ Len(line[t].results) < Len(line[t].cmds)
      BY <2>1, LineFacts DEF LineStates, Dispatch
    <3>2. Len(line[t].results) + 1 \in 1..Len(line[t].cmds)
      BY <3>1
    <3> QED BY <3>1, <3>2, ElementOfSeq
  <2> QED BY <2>2, <2>3, HandleInv DEF HandlerLeft
<1> QED BY <1>1, Inductive, PTL DEF Spec, DefaultsHold
===============================================================================

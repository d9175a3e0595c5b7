------------------------------- MODULE Batch -------------------------------
(***************************************************************************)
(* Command lines and batches in the shared-STEP build: the front end of    *)
(* MotorCommandProcessor with CommandBatchExecutor and CommandRouter, and  *)
(* of each handler what decides whether a command of the line goes ahead.  *)
(*                                                                         *)
(* All motors share one STEP line, so a MOVE is refused while any motor    *)
(* moves, unless it belongs to a batch that began idle.  The two flags of  *)
(* that exception are members of the one processor the console (the loop   *)
(* task) and the command server (the MQTT client's task) both call.  The   *)
(* steps of a line of one task interleave with those of the other; each    *)
(* handler is one step (MotorController splits it).                        *)
(*                                                                         *)
(* Where the motors stand, budgets and estimates are left to               *)
(* MotorController: here a motor is in flight or not, a pre-flight check   *)
(* may refuse, and a homing is its first leg and two more.                 *)
(***************************************************************************)
EXTENDS Integers, FiniteSets, Sequences, SequencesExt

CONSTANTS
    Motors,
    Console,   \* the loop task, which ticks the controller between two lines
    Tasks,     \* the tasks that execute command lines, Console among them
    Commands,  \* the commands they send: records [op, mask, est]
    MaxLength, \* bound: commands of one line
    MaxLines   \* bound: lines of one behaviour

Motions == {"MOVE", "HOME"}
Ops     == Motions \cup {"WAKE", "SLEEP", "SET", "STATUS", "UNKNOWN"}

ASSUME BatchAssumption ==
    /\ IsFiniteSet(Motors)
    /\ Console \in Tasks
    /\ Commands \subseteq [op: Ops, mask: SUBSET Motors, est: Nat]
    /\ MaxLength \in Nat \ {0}
    /\ MaxLines \in Nat

VARIABLES
    motors,    \* what the controller and the adapter know of the motors
    inBatch, batchIdle,  \* in_batch_, batch_initially_idle_
    defaults,  \* default speed, acceleration and deceleration
    line,      \* the line each task executes, or executed last
    lines      \* lines received so far

Outcomes == {"started", "done", "failed", "refused"}
Answers  == {"none", "open", "conflict", "unknown", "error", "ack", "done"}

vars == <<motors, inBatch, batchIdle, defaults, line, lines>>

(***************************************************************************)
(* inFlight: the adapter has steps to make; moving: the controller's copy  *)
(* of it, refreshed by tick; legs: legs a homing has still to start; cut   *)
(* (history): in flight, but the cut-off ended the operation; by           *)
(* (history): the line that started the motor last; old (history): in      *)
(* flight since before the last batch began.                               *)
(***************************************************************************)
Init ==
    /\ motors = [inFlight |-> {}, moving |-> {}, cut |-> {}, old |-> {},
                 legs |-> [m \in Motors |-> 0], by |-> [m \in Motors |-> 0]]
    /\ inBatch = FALSE /\ batchIdle = FALSE
    /\ defaults = "slow"
    /\ line = [t \in Tasks |-> [id |-> 0, cmds |-> <<>>, results |-> <<>>,
                                est |-> 0, answer |-> "none"]]
    /\ lines = 0

----------------------------------------------------------------------------
(* tick: the copy is refreshed, the motors over budget lose their          *)
(* operation but not their steps, and a leg of the homings starts when     *)
(* every motor that runs the one before it has ended it.                   *)

Started(s, go) == [s EXCEPT !.inFlight = @ \cup go, !.moving = @ \cup go,
                            !.cut = @ \ go]

Homing == {m \in Motors : motors.legs[m] > 0}

Ticked(over) ==
    LET s == [motors EXCEPT !.moving = motors.inFlight \ over,
                            !.cut = @ \cup (over \cap motors.inFlight),
                            !.legs = [m \in Motors |-> IF m \in over THEN 0 ELSE @[m]]]
        leg(n)  == {m \in Motors : s.legs[m] = n}
        done(n) == IF leg(n) \cap s.moving = {} THEN leg(n) ELSE {}
        go == IF done(2) # {} THEN done(2) ELSE done(1)
    IN  [Started(s, go) EXCEPT !.legs = [m \in Motors |-> IF m \in go THEN @[m] - 1
                                                          ELSE @[m]]]

Over == SUBSET (motors.inFlight \cup Homing)

----------------------------------------------------------------------------
(* Handlers, as what they leave of the motors and how they end.            *)

\* mutant: whether the batch began idle is not asked
LineFreeInBatch == inBatch \/ motors.moving = {}

\* The guard of the shared STEP line, on the copy of the last tick.
LineFree == (inBatch /\ batchIdle) \/ motors.moving = {}

\* moveAbsMask and homeMask: refused if a motor of the mask is in flight.
Launched(s, c, t) ==
    [Started(s, c.mask) EXCEPT
        !.by = [m \in Motors |-> IF m \in c.mask THEN line[t].id ELSE @[m]],
        !.legs = [m \in Motors |-> IF m \in c.mask /\ c.op = "HOME" THEN 2 ELSE @[m]]]

Launch(c, t, s) ==
    /\ c.mask # {} /\ c.mask \cap s.inFlight = {}
    /\ motors' = Launched(s, c, t)
    /\ UNCHANGED defaults

\* E02, E03, E04 BUSY, E07, E10 and E11: what the parameters and the budgets
\* say is left open; a MOVE refused for the STEP line has not ticked.
RefuseMotion(c, t, s) ==
    /\ motors' \in {motors, s}
    /\ UNCHANGED defaults

MayStart(c) == c.op = "MOVE" => LineFree

\* mutant: SET takes the exception of MOVE
SetDefaultsInBatch(s) ==
    /\ motors' = s
    /\ s.moving = {} \/ (inBatch /\ batchIdle)
    /\ defaults' = IF defaults = "slow" THEN "fast" ELSE "slow"

\* SET of a default speed, acceleration or deceleration.
SetDefaults(s) ==
    /\ motors' = s
    /\ s.moving = {}
    /\ defaults' = IF defaults = "slow" THEN "fast" ELSE "slow"

Other(s) == motors' = s /\ UNCHANGED defaults

\* One command of the line, and how it ends.
Handle(c, t, outcome) ==
    \E over \in Over :
        LET s == Ticked(over)
        IN  CASE outcome = "started" -> c.op \in Motions /\ MayStart(c) /\ Launch(c, t, s)
              [] outcome = "refused" -> \/ c.op \in Motions /\ RefuseMotion(c, t, s)
                                        \/ c.op = "UNKNOWN" /\ UNCHANGED <<motors, defaults>>
              [] outcome = "done"    -> \/ c.op = "SET" /\ SetDefaults(s)
                                        \/ c.op = "SLEEP" /\ c.mask \cap s.inFlight = {} /\ Other(s)
                                        \/ c.op \in {"WAKE", "STATUS"} /\ Other(s)
              [] outcome = "failed"  -> \/ c.op = "SET" /\ s.moving # {} /\ Other(s)
                                        \/ c.op = "SLEEP" /\ c.mask \cap s.inFlight # {} /\ Other(s)
                                        \/ c.op = "WAKE" /\ Other(s)
              [] OTHER -> FALSE

----------------------------------------------------------------------------
(* A line of a task: execute, then its commands one by one, then the        *)
(* answer.                                                                 *)

Lines(t) == UNION {[1..n -> Commands] : n \in 1..(IF t = Console THEN MaxLength ELSE 1)}

IsBatch(cmds) == Len(cmds) > 1

\* maskFor: the motors a command is about, if it is one that moves or powers.
MaskFor(c) == IF c.op \in Motions \cup {"WAKE", "SLEEP"} THEN c.mask ELSE {}

\* mutant: only neighbours are compared
OverlapNext(cmds) ==
    \E i \in 1..(Len(cmds) - 1) : MaskFor(cmds[i]) \cap MaskFor(cmds[i + 1]) # {}

Overlap(cmds) ==
    \E i, j \in 1..Len(cmds) : i < j /\ MaskFor(cmds[i]) \cap MaskFor(cmds[j]) # {}

Unknown(cmds) == \E i \in 1..Len(cmds) : cmds[i].op = "UNKNOWN"

Verdict(cmds) == IF ~IsBatch(cmds) THEN "open"
                 ELSE IF Overlap(cmds) THEN "conflict"
                 ELSE IF Unknown(cmds) THEN "unknown" ELSE "open"

\* The flags of the exception, as a line that begins sets them.
EnterBatch(cmds) ==
    IF IsBatch(cmds)
    THEN inBatch' = TRUE /\ batchIdle' = (motors.moving = {})
    ELSE inBatch' = FALSE /\ batchIdle' = FALSE

\* MQTT commands come one by one, the console's in lines.
Execute(t) ==
    /\ line[t].answer # "open" /\ lines < MaxLines
    /\ lines' = lines + 1
    /\ \E cmds \in Lines(t) :
          /\ line' = [line EXCEPT ![t] = [id |-> lines + 1, cmds |-> cmds, results |-> <<>>,
                                         est |-> 0, answer |-> Verdict(cmds)]]
          /\ IF Verdict(cmds) = "open" THEN EnterBatch(cmds)
             ELSE UNCHANGED <<inBatch, batchIdle>>
          /\ motors' = IF IsBatch(cmds) THEN [motors EXCEPT !.old = motors.inFlight] ELSE motors
    /\ UNCHANGED defaults

\* mutant: an exit forgets the flags
LeaveBatchNever(cmds) == UNCHANGED <<inBatch, batchIdle>>

\* A batch puts the flags back as it found them; only batches set them, and
\* only the console has batches, so it found them off.
LeaveBatch(cmds) == IF IsBatch(cmds) THEN inBatch' = FALSE /\ batchIdle' = FALSE
                    ELSE UNCHANGED <<inBatch, batchIdle>>

\* The estimate of the aggregate ACK: that of the slowest motion.
EstAfter(est, c, outcome) ==
    IF outcome = "started" /\ c.est > est THEN c.est ELSE est

\* mutant: the batch goes on
StopsNever(outcome) == FALSE

\* Only results flagged is_error end a batch: MOVE, HOME and the router do.
Stops(outcome) == outcome = "refused"

Dispatch(t) ==
    LET l == line[t]
        c == l.cmds[Len(l.results) + 1]
    IN  /\ l.answer = "open" /\ Len(l.results) < Len(l.cmds)
        /\ \E outcome \in Outcomes :
              /\ Handle(c, t, outcome)
              /\ line' = [line EXCEPT
                            ![t].results = Append(@, outcome),
                            ![t].est = EstAfter(@, c, outcome),
                            ![t].answer = IF Stops(outcome) THEN "error" ELSE @]
              /\ IF Stops(outcome) THEN LeaveBatch(l.cmds)
                 ELSE UNCHANGED <<inBatch, batchIdle>>
        /\ UNCHANGED lines

Finish(t) ==
    LET l == line[t]
    IN  /\ l.answer = "open" /\ Len(l.results) = Len(l.cmds)
        /\ line' = [line EXCEPT ![t].answer =
                       IF "started" \in ToSet(l.results) THEN "ack" ELSE "done"]
        /\ LeaveBatch(l.cmds)
        /\ UNCHANGED <<motors, defaults, lines>>

----------------------------------------------------------------------------
\* The loop ticks between two lines of the console.
LoopTick ==
    /\ line[Console].answer # "open"
    /\ \E over \in Over : motors' = Ticked(over)
    /\ UNCHANGED <<inBatch, batchIdle, defaults, line, lines>>

Stop(m) ==
    /\ m \in motors.inFlight
    /\ motors' = [motors EXCEPT !.inFlight = @ \ {m}, !.cut = @ \ {m}, !.old = @ \ {m}]
    /\ UNCHANGED <<inBatch, batchIdle, defaults, line, lines>>

Next ==
    \/ \E t \in Tasks : Execute(t) \/ Dispatch(t) \/ Finish(t)
    \/ LoopTick
    \/ \E m \in Motors : Stop(m)

Spec == Init /\ [][Next]_vars

----------------------------------------------------------------------------
(* Properties.                                                             *)

BatchOpen == line[Console].answer = "open" /\ IsBatch(line[Console].cmds)

\* Every variable keeps to its range, no line runs past its commands, and
\* only a motor with steps to make is one the cut-off left running.
TypeOK ==
    /\ motors \in [inFlight: SUBSET Motors, moving: SUBSET Motors, cut: SUBSET Motors,
                   old: SUBSET Motors, legs: [Motors -> 0..2], by: [Motors -> 0..MaxLines]]
    /\ motors.cut \subseteq motors.inFlight
    /\ inBatch \in BOOLEAN /\ batchIdle \in BOOLEAN
    /\ defaults \in {"slow", "fast"}
    /\ lines \in 0..MaxLines
    /\ \A t \in Tasks : /\ line[t].id \in 0..lines
                        /\ line[t].answer \in Answers
                        /\ Len(line[t].results) <= Len(line[t].cmds)

\* The exception to the busy rule is open only while a batch is carried out:
\* no exit of CommandBatchExecutor::execute leaves in_batch_ behind, to let a
\* later single MOVE join motors in flight.
ExceptionIsTheBatchs ==
    inBatch => BatchOpen

\* No line commands a motor twice: of the commands of a batch that went
\* ahead, no two are about the same motor, whatever order they stand in.
NoMotorTwice ==
    \A t \in Tasks : \A i, j \in 1..Len(line[t].results) :
        i < j /\ {line[t].results[i], line[t].results[j]} \subseteq {"started", "done"}
          => MaskFor(line[t].cmds[i]) \cap MaskFor(line[t].cmds[j]) = {}

\* The aggregate ACK speaks for the whole line: every MOVE and HOME of it was
\* started, and est_ms covers the slowest of them.
AckIsWhole ==
    \A t \in Tasks : line[t].answer = "ack" =>
        \A i \in 1..Len(line[t].cmds) : line[t].cmds[i].op \in Motions =>
            /\ Len(line[t].results) >= i /\ line[t].results[i] = "started"
            /\ line[t].cmds[i].est <= line[t].est

\* The command a task has just carried out, with its outcome.
JustDone(t, op, outcome) ==
    LET n == Len(line'[t].results)
    IN  /\ line'[t].id = line[t].id /\ n = Len(line[t].results) + 1
        /\ line[t].cmds[n].op = op /\ line'[t].results[n] = outcome

\* A MOVE never joins a run of the STEP line: the motors in flight when it
\* starts were started by its own line, or lost their operation to the
\* cut-off (which clears moving though the adapter still has steps to make).
\* The flags being shared, the exception of a batch covers what the other
\* task starts while the batch is carried out, and nothing older.
NoLateJoin ==
    [][\A t \in Tasks : JustDone(t, "MOVE", "started") =>
         \A m \in motors'.inFlight : \/ motors'.by[m] = line[t].id
                                     \/ m \in motors.cut \cup motors'.cut
                                     \/ BatchOpen /\ m \notin motors.old]_vars

\* Default speed, acceleration and deceleration, which the one ramp of the
\* STEP line takes from SET, never change under a motor in flight, the batch
\* that started it included (the cut-off apart, as above).
DefaultsHold ==
    [][defaults' # defaults => motors'.inFlight \subseteq motors'.cut]_vars

=============================================================================

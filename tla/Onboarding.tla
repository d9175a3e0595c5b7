------------------------------ MODULE Onboarding ------------------------------
(***************************************************************************)
(* Wi-Fi onboarding: lib/net_onboarding/src/NetOnboarding.cpp, the loop    *)
(* task that drives it and reports its changes (src/main.cpp), the NET     *)
(* commands (CommandHandlers.cpp) and the portal's requests.               *)
(*                                                                         *)
(* Requests run on the loop task (serial console, reset button) and on     *)
(* others: NET commands on the MQTT client's task, the portal on the web   *)
(* server's.  Nothing is locked: the steps of a request, each of which is  *)
(* one write to the flash, the shared state or the radio, may interleave   *)
(* with those of the loop.  The device may lose power at any of them.      *)
(***************************************************************************)
EXTENDS Naturals

CONSTANTS
  Tasks,        \* tasks beside the loop that run requests
  Nets,         \* networks; each stands for its pair of ssid and password
  Ids,          \* message ids of NET:SET and NET:RESET (the bound on those)
  None,         \* no network, no id, no state
  Timeout,      \* connect_timeout_ms_, in units of time
  WaitForDone,  \* operators send a NET command only after the DONE of the last
  Locked        \* FALSE: the code.  TRUE: requests and transitions happen not
                \* to overlap, and each is reported before the next

Loop == "loop"
Workers == Tasks \cup {Loop}
States  == {"AP", "CONNECTING", "CONNECTED"}

ASSUME OnboardingAssumption ==
  /\ Loop \notin Tasks
  /\ Timeout \in Nat \ {0}
  /\ WaitForDone \in BOOLEAN /\ Locked \in BOOLEAN

VARIABLES
  st,       \* st_.state
  shown,    \* st_.ssid, as long as the device is not an access point
  last,     \* last_ssid_
  age,      \* time since connecting_since_ms_, up to Timeout
  led,      \* the state led_pattern_ stands for
  nvs,      \* the flash: network whose ssid, network whose psk
  radio,    \* mode, and network of the last beginSta
  link,     \* staConnected()
  job,      \* request or transition each task is in
  at,       \* where the loop is: "serial", "net", "button", "look", "tell"
  lastSt,   \* last_state of loop()
  active,   \* transport::message_id::Active()
  sent,     \* history: NET commands given, with the network of a SET
  answered, \* history: their ACK and DONE since the last boot
  torn      \* history: the flash may mix two pairs

device  == <<st, shown, last, age, led>>
world   == <<radio, link>>
loopVars == <<at, lastSt>>
history == <<sent, answered, torn>>
vars == <<device, nvs, world, job, loopVars, active, history>>

NoJob == [kind |-> None]
Kinds == {"SET", "RESET", "LIST", "FALL", "RISE"}
Steps == {"activate", "ssid", "psk", "state", "stamp", "radio", "answer"}
Jobs  == [kind : Kinds, id : Ids \cup {None}, net : Nets \cup {None},
          step : Steps, before : States]

TypeOK ==
  /\ st \in States /\ lastSt \in States /\ led \in States
  /\ shown \in Nets \cup {None} /\ last \in Nets \cup {None}
  /\ age \in 0..Timeout
  /\ nvs \in [ssid : Nets \cup {None}, psk : Nets \cup {None}]
  /\ radio \in [mode : {"ap", "apsta", "sta"}, net : Nets \cup {None}]
  /\ link \in BOOLEAN /\ (link => radio.mode = "sta" /\ radio.net # None)
  /\ job \in [Workers -> Jobs \cup {NoJob}]
  /\ at \in {"serial", "net", "button", "look", "tell"}
  /\ active \in Ids \cup {None}
  /\ sent \in [Ids -> [given : BOOLEAN, net : Nets \cup {None}]]
  /\ \A a \in answered : a.id \in Ids /\ a.as \in {"ACK", "DONE", "ERR"}
  /\ torn \in BOOLEAN

-----------------------------------------------------------------------------
(* begin: try the stored network, else be an access point.                  *)

Boot ==
  /\ st' = IF nvs.ssid # None THEN "CONNECTING" ELSE "AP"
  /\ radio' = [mode |-> IF nvs.ssid # None THEN "sta" ELSE "ap",
               net  |-> IF nvs.psk = nvs.ssid THEN nvs.ssid ELSE None]
  /\ shown' = nvs.ssid /\ last' = nvs.ssid /\ age' = 0
  /\ led' = st' /\ lastSt' = st' /\ link' = FALSE

Init ==
  /\ st = "AP" /\ shown = None /\ last = None /\ age = 0 /\ led = "AP"
  /\ nvs = [ssid |-> None, psk |-> None]
  /\ radio = [mode |-> "ap", net |-> None] /\ link = FALSE
  /\ job = [w \in Workers |-> NoJob]
  /\ at = "serial" /\ lastSt = "AP" /\ active = None
  /\ sent = [i \in Ids |-> [given |-> FALSE, net |-> None]]
  /\ answered = {} /\ torn = FALSE

(* Power is lost and comes back: the flash is what is left.                  *)
HalfWritten(j) == j.kind \in {"SET", "RESET"} /\ j.step = "psk"
PowerCycle ==
  /\ Boot
  /\ job' = [w \in Workers |-> NoJob] /\ at' = "serial" /\ active' = None
  /\ answered' = {}
  /\ torn' = (torn \/ \E w \in Workers : HalfWritten(job[w]))
  /\ UNCHANGED <<nvs, sent>>

-----------------------------------------------------------------------------
(* Requests.                                                                *)

CanRun(w) == job[w] = NoJob /\ (w = Loop => at = "serial")

(* The loop has told of the last change.                                     *)
Reported == st = lastSt /\ at # "tell"

Begin(w, kind, id, net, step) ==
  /\ Locked => /\ \A o \in Workers : job[o] = NoJob
               /\ kind \in {"SET", "RESET", "LIST"} => Reported
  /\ job' = [job EXCEPT ![w] =
              [kind |-> kind, id |-> id, net |-> net, step |-> step,
               before |-> IF kind = "RESET" /\ id # None THEN st ELSE "AP"]]

Answered(i, as) == \E a \in answered : a.id = i /\ a.as = as
Outstanding == {i \in Ids : sent[i].given /\ ~Answered(i, "DONE") /\ ~Answered(i, "ERR")}

(* NET:SET and NET:RESET are refused while connecting (before anything else  *)
(* happens: the refused command is left out), and so are the portal's.       *)
NetCommand(w, i, kind, net) ==
  /\ CanRun(w) /\ st # "CONNECTING"
  /\ ~sent[i].given
  /\ WaitForDone => Outstanding = {}
  /\ (kind = "RESET") = (net = None)
  /\ Begin(w, kind, i, net, "activate")
  /\ sent' = [sent EXCEPT ![i] = [given |-> TRUE, net |-> net]]
  /\ UNCHANGED <<device, nvs, world, loopVars, active, answered, torn>>

PortalRequest(w, kind, net) ==
  /\ w # Loop /\ CanRun(w) /\ st # "CONNECTING"
  /\ (kind = "RESET") = (net = None)
  /\ Begin(w, kind, None, net, "ssid")
  /\ UNCHANGED <<device, nvs, world, loopVars, active, history>>

(* NET:LIST and /api/scan add the station mode to the access point.          *)
Scan(w) ==
  /\ CanRun(w) /\ st = "AP"
  /\ Begin(w, "LIST", None, None, "radio")
  /\ UNCHANGED <<device, nvs, world, loopVars, active, history>>

(* The reset button held for five seconds: no busy check.                    *)
ResetButton ==
  /\ at = "button" /\ job[Loop] = NoJob
  /\ Begin(Loop, "RESET", None, None, "ssid")
  /\ UNCHANGED <<device, nvs, world, loopVars, active, history>>

-----------------------------------------------------------------------------
(* The steps of a request.                                                  *)

InHand(w, step) == job[w] # NoJob /\ job[w].step = step
Continue(w, step) == job' = [job EXCEPT ![w].step = step]
Finish(w) == job' = [job EXCEPT ![w] = NoJob]

Activate(w) ==
  /\ InHand(w, "activate")
  /\ active' = job[w].id
  /\ Continue(w, "ssid")
  /\ UNCHANGED <<device, nvs, world, loopVars, sent, answered, torn>>

(* saveCredentials writes two keys, clearCredentials removes them.           *)
WriteSsid(w) ==
  /\ InHand(w, "ssid")
  /\ nvs' = [nvs EXCEPT !.ssid = job[w].net]
  /\ last' = job[w].net
  /\ Continue(w, "psk")
  /\ UNCHANGED <<st, shown, age, led, world, loopVars, active, history>>

PskWrittenOnSet(j) == IF j.kind = "SET" THEN j.net ELSE nvs.psk   \* mutant
PskWritten(j) == j.net

WritePsk(w) ==
  /\ InHand(w, "psk")
  /\ nvs' = [nvs EXCEPT !.psk = PskWritten(job[w])]
  /\ torn' = FALSE
  /\ Continue(w, "state")
  /\ UNCHANGED <<device, world, loopVars, active, sent, answered>>

(* A write that fails ends a SET with NET_SAVE_FAILED; what was written and   *)
(* the active id stay.  An empty password always counts as one.              *)
SaveFails(w) ==
  /\ job[w] # NoJob /\ job[w].kind = "SET" /\ job[w].step = "psk"
  /\ \/ nvs' = nvs
     \/ nvs' = [nvs EXCEPT !.psk = job[w].net]
  /\ torn' = (torn \/ nvs' = nvs)
  /\ answered' = IF job[w].id = None THEN answered
                 ELSE answered \cup {[id |-> job[w].id, as |-> "ERR", st |-> st, net |-> None]}
  /\ Finish(w)
  /\ UNCHANGED <<device, world, loopVars, active, sent>>

(* enterApMode_, enterConnecting_ and enterConnected_ set the state first.   *)
Target(j) ==
  CASE j.kind = "SET"  -> "CONNECTING"
    [] j.kind = "RISE" -> "CONNECTED"
    [] OTHER           -> "AP"

ChangeState(w) ==
  LET j == job[w] IN
  /\ InHand(w, "state")
  /\ st' = Target(j)
  /\ shown' = IF j.kind = "SET" THEN j.net ELSE last
  /\ last' = IF j.kind = "SET" THEN j.net ELSE last
  /\ Continue(w, IF j.kind = "SET" THEN "stamp" ELSE "radio")
  /\ UNCHANGED <<age, led, nvs, world, loopVars, active, sent, answered, torn>>

Stamp(w) ==
  /\ InHand(w, "stamp")
  /\ age' = 0
  /\ Continue(w, "radio")
  /\ UNCHANGED <<st, shown, last, led, nvs, world, loopVars, active, history>>

(* The radio and the LED follow the state the request set.                   *)
RadioKept(j) == IF j.kind = "RISE" THEN radio   \* mutant: a SET keeps the old mode
                ELSE [mode |-> IF j.kind = "SET" THEN radio.mode ELSE "ap", net |-> j.net]
RadioFor(j) ==
  CASE j.kind = "RISE" -> radio
    [] j.kind = "LIST" -> [mode |-> "apsta", net |-> None]
    [] j.kind = "SET"  -> [mode |-> "sta", net |-> j.net]
    [] OTHER           -> [mode |-> "ap", net |-> None]

LinkAfter(j) == link /\ j.kind = "RISE"

SwitchRadio(w) ==
  LET j == job[w] IN
  /\ InHand(w, "radio")
  /\ radio' = RadioFor(j)
  /\ link' = LinkAfter(j)
  /\ led' = IF j.kind = "LIST" THEN led ELSE st
  /\ IF j.id = None THEN Finish(w) ELSE Continue(w, "answer")
  /\ UNCHANGED <<st, shown, last, age, nvs, loopVars, active, history>>

(* A RESET in AP mode is done at once; the others wait for the loop's report. *)
AnswerReset(j) == j.kind = "RESET" /\ j.before = "AP"
ActiveKept(j) == active   \* mutant: the id of a RESET done at once stays
ActiveAfter(j) == IF AnswerReset(j) THEN None ELSE active

Reply(w) ==
  LET j == job[w] IN
  /\ InHand(w, "answer")
  /\ answered' = answered \cup
       {[id |-> j.id, as |-> IF AnswerReset(j) THEN "DONE" ELSE "ACK", st |-> st, net |-> shown]}
  /\ active' = ActiveAfter(j)
  /\ Finish(w)
  /\ UNCHANGED <<device, nvs, world, loopVars, sent, torn>>

Step(w) ==
  \/ Activate(w) \/ WriteSsid(w) \/ WritePsk(w) \/ SaveFails(w)
  \/ ChangeState(w) \/ Stamp(w) \/ SwitchRadio(w) \/ Reply(w)

-----------------------------------------------------------------------------
(* One pass of loop().                                                      *)

Next_ == [serial |-> "net", net |-> "button", button |-> "look",
          look |-> "tell", tell |-> "serial"]
Move == at' = Next_[at] /\ UNCHANGED lastSt

SerialDone ==
  /\ at = "serial" /\ job[Loop] = NoJob /\ Move
  /\ UNCHANGED <<device, nvs, world, job, active, history>>

(* NetOnboarding::loop: the timeout first, then the link.                    *)
TimedOutAfter == age > Timeout   \* mutant: never true of a saturating timer
TimedOut == age >= Timeout
Transition ==
  CASE st = "CONNECTING" /\ TimedOut     -> "FALL"
    [] st = "CONNECTING" /\ ~TimedOut /\ link -> "RISE"
    [] st = "CONNECTED" /\ ~link         -> "FALL"
    [] OTHER                             -> None

NetLoop ==
  /\ at = "net" /\ job[Loop] = NoJob /\ Move
  /\ IF Transition = None THEN UNCHANGED job
     ELSE Begin(Loop, Transition, None, None, "state")
  /\ UNCHANGED <<device, nvs, world, active, history>>

ButtonUp ==
  /\ at = "button" /\ job[Loop] = NoJob /\ Move
  /\ UNCHANGED <<device, nvs, world, job, active, history>>

(* The loop compares the state with the one it last saw ...                  *)
Look ==
  /\ at = "look" /\ job[Loop] = NoJob
  /\ at' = IF st # lastSt THEN "tell" ELSE "serial"
  /\ lastSt' = st
  /\ UNCHANGED <<device, nvs, world, job, active, history>>

(* ... and tells of the new one under the active id, whose command it ends.  *)
EndsCommandOnJoin == lastSt = "CONNECTED"   \* mutant: a failed attempt is not reported
EndsCommand == lastSt # "CONNECTING"

Tell ==
  /\ at = "tell" /\ Move
  /\ IF active # None /\ EndsCommand
     THEN /\ answered' = answered \cup
                {[id |-> active, as |-> "DONE", st |-> lastSt, net |-> shown]}
          /\ active' = None
     ELSE UNCHANGED <<answered, active>>
  /\ UNCHANGED <<device, nvs, world, job, sent, torn>>

LoopStep == SerialDone \/ NetLoop \/ ButtonUp \/ Look \/ Tell \/ Step(Loop)

-----------------------------------------------------------------------------
(* The world.  A loop pass is short beside an association and the timeout.   *)

LoopKeepsUp == st = lastSt /\ (st = "CONNECTING" => at # "tell")

Associate ==
  /\ radio.mode = "sta" /\ radio.net # None /\ ~link /\ LoopKeepsUp
  /\ link' = TRUE
  /\ UNCHANGED <<device, nvs, radio, job, loopVars, active, history>>

LoseLink ==
  /\ link /\ link' = FALSE
  /\ UNCHANGED <<device, nvs, radio, job, loopVars, active, history>>

Elapse ==
  /\ age < Timeout /\ LoopKeepsUp
  /\ age' = age + 1
  /\ UNCHANGED <<st, shown, last, led, nvs, world, job, loopVars, active, history>>

Next ==
  \/ LoopStep \/ ResetButton
  \/ \E w \in Tasks : Step(w)
  \/ \E w \in Workers, i \in Ids, kind \in {"SET", "RESET"}, n \in Nets \cup {None} :
       NetCommand(w, i, kind, n)
  \/ \E w \in Tasks, kind \in {"SET", "RESET"}, n \in Nets \cup {None} :
       PortalRequest(w, kind, n)
  \/ \E w \in Workers : Scan(w)
  \/ Associate \/ LoseLink \/ Elapse
  \/ PowerCycle

Spec == Init /\ [][Next]_vars

(* The tasks run: serial input and the button only delay the loop.           *)
Fairness ==
  /\ SF_vars(LoopStep) /\ SF_vars(SerialDone) /\ SF_vars(ButtonUp)
  /\ \A w \in Tasks : WF_vars(Step(w))
  /\ WF_vars(Elapse)

FairSpec == Spec /\ Fairness

-----------------------------------------------------------------------------
(* Properties.                                                              *)

Quiet == \A w \in Workers : job[w] = NoJob

(* What STATUS, /api/status and the LED say is what the radio does, whatever *)
(* mix of requests, timeouts, lost links and power cycles came before: an    *)
(* access point that is reachable, or a station on the network shown         *)
(* (enterApMode_ 446-466, enterConnecting_ 468-498, loop 303-338).           *)
StateIsTrue ==
  Quiet => /\ st = "AP" <=> radio.mode # "sta"
           /\ st # "AP" => radio.net \in {shown, None}
           /\ led = st

(* The flash mixes the ssid of one request with the password of another only *)
(* between the two writes, or after a failure or a loss of power there       *)
(* (saveCredentials 407-419, clearCredentials 433-442).                      *)
TornOnlyByFailure ==
  nvs.ssid # nvs.psk => torn \/ \E w \in Workers : InHand(w, "psk")

(* A DONE reports its own command: a SET never the network of another        *)
(* request, a RESET never a connection (loop 199-239, handler 1000-1035).    *)
(* A SET that failed to save is exempt: its id stays active (1087-1093).     *)
DoneIsOwn ==
  \A d \in answered : d.as = "DONE" /\ ~Answered(d.id, "ERR") =>
    IF sent[d.id].net = None THEN d.st = "AP"
    ELSE d.st = "CONNECTED" => d.net = sent[d.id].net

(* Every attempt to connect ends, in a connection or back in AP mode, where   *)
(* the portal can be reached (loop 316-327), unless power fails for ever.     *)
AttemptEnds ==
  (st = "CONNECTING" ~> st # "CONNECTING") \/ []<><<PowerCycle>>_vars

(* An acknowledged NET:SET or NET:RESET gets its DONE from the main loop,    *)
(* unless power is lost first (main.cpp 181-240): no portal request, button, *)
(* lost link or failed attempt takes the state past the loop's notice.       *)
EveryNetDone ==
  \A i \in Ids : Answered(i, "ACK") ~> (Answered(i, "DONE") \/ ~Answered(i, "ACK"))

=============================================================================

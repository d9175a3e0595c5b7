--------------------------- MODULE OnboardingProofs ---------------------------
(***************************************************************************)
(* Proofs about Wi-Fi onboarding, for any tasks, networks, message ids and *)
(* timeout.  Types hold of the code as it is; what the flash holds and what *)
(* STATUS says is proved for requests that do not overlap (Locked), with    *)
(* the loop, the radio and losses of power between any two of their steps.  *)
(***************************************************************************)
EXTENDS Onboarding, TLAPS

-----------------------------------------------------------------------------
(* Jobs.                                                                    *)

(* What a job's kind says of its other fields.                               *)
JobOK(j) ==
  /\ j.step \in {"activate", "answer"} => j.id \in Ids
  /\ IF j.kind = "SET" THEN j.net \in Nets ELSE j.net = None
  /\ j.kind = "LIST" => j.step = "radio" /\ j.id = None
  /\ j.kind \in {"FALL", "RISE"} => j.step \in {"state", "radio"} /\ j.id = None

TInv == TypeOK /\ \A w \in Workers : job[w] # NoJob => JobOK(job[w])

LEMMA JobsDiffer == \A j \in Jobs : j # NoJob
<1> SUFFICES ASSUME NEW j \in Jobs, j = NoJob PROVE FALSE
  OBVIOUS
<1>1. "step" \in DOMAIN j
  BY DEF Jobs
<1>2. DOMAIN NoJob = {"kind"}
  BY DEF NoJob
<1> QED BY <1>1, <1>2

LEMMA Began ==
  ASSUME TInv, NEW w \in Workers, NEW kind \in Kinds, NEW id \in Ids \cup {None},
         NEW net \in Nets \cup {None}, NEW step \in Steps, Begin(w, kind, id, net, step)
  PROVE  /\ job' \in [Workers -> Jobs \cup {NoJob}]
         /\ job'[w] \in Jobs /\ job'[w] # NoJob
         /\ job'[w].kind = kind /\ job'[w].id = id /\ job'[w].net = net /\ job'[w].step = step
         /\ job'[w].before = IF kind = "RESET" /\ id # None THEN st ELSE "AP"
         /\ \A o \in Workers : o # w => job'[o] = job[o]
         /\ Locked => \A o \in Workers : job[o] = NoJob
<1> DEFINE j == [kind |-> kind, id |-> id, net |-> net, step |-> step,
                 before |-> IF kind = "RESET" /\ id # None THEN st ELSE "AP"]
<1>1. j \in Jobs
  BY DEF TInv, TypeOK, Jobs, States
<1>2. job' = [job EXCEPT ![w] = j] /\ (Locked => \A o \in Workers : job[o] = NoJob)
  BY DEF Begin
<1>3. /\ j.kind = kind /\ j.id = id /\ j.net = net /\ j.step = step
      /\ j.before = IF kind = "RESET" /\ id # None THEN st ELSE "AP"
  OBVIOUS
<1> HIDE DEF j
<1>4. job \in [Workers -> Jobs \cup {NoJob}]
  BY DEF TInv, TypeOK
<1> QED BY <1>1, <1>2, <1>3, <1>4, JobsDiffer

LEMMA Continued ==
  ASSUME TInv, NEW w \in Workers, job[w] # NoJob, NEW step \in Steps, Continue(w, step)
  PROVE  /\ job' \in [Workers -> Jobs \cup {NoJob}]
         /\ job[w] \in Jobs /\ job'[w] \in Jobs /\ job'[w] # NoJob
         /\ job'[w].kind = job[w].kind /\ job'[w].id = job[w].id
         /\ job'[w].net = job[w].net /\ job'[w].step = step
         /\ job'[w].before = job[w].before
         /\ \A o \in Workers : o # w => job'[o] = job[o]
<1> DEFINE j == [job[w] EXCEPT !.step = step]
<1>1. job \in [Workers -> Jobs \cup {NoJob}] /\ job[w] \in Jobs
  BY DEF TInv, TypeOK
<1>2. job' = [job EXCEPT ![w] = j]
  BY DEF Continue
<1>3. j \in Jobs /\ j.kind = job[w].kind /\ j.id = job[w].id /\ j.net = job[w].net /\ j.step = step
      /\ j.before = job[w].before
  BY <1>1 DEF Jobs
<1> HIDE DEF j
<1> QED BY <1>1, <1>2, <1>3, JobsDiffer

LEMMA Finished ==
  ASSUME TInv, NEW w \in Workers, Finish(w)
  PROVE  /\ job' \in [Workers -> Jobs \cup {NoJob}] /\ job'[w] = NoJob
         /\ \A o \in Workers : o # w => job'[o] = job[o]
BY DEF TInv, TypeOK, Finish

LEMMA JobFields ==
  ASSUME NEW j \in Jobs
  PROVE  /\ j.kind \in Kinds /\ j.id \in Ids \cup {None} /\ j.net \in Nets \cup {None}
         /\ j.step \in Steps /\ j.before \in States
BY DEF Jobs

LEMMA InHandIs ==
  ASSUME TInv, NEW w \in Workers, NEW step, InHand(w, step)
  PROVE  job[w] # NoJob /\ job[w].step = step /\ job[w] \in Jobs /\ JobOK(job[w])
BY DEF InHand, TInv, TypeOK

-----------------------------------------------------------------------------
(* Types.                                                                   *)

LEMMA InitTInv == Init => TInv
<1> SUFFICES ASSUME Init PROVE TInv
  OBVIOUS
<1>1. \A w \in Workers : job[w] = NoJob
  BY DEF Init
<1>2. TypeOK
  <2>1. job \in [Workers -> Jobs \cup {NoJob}] /\ 0 \in 0..Timeout
    BY OnboardingAssumption DEF Init
  <2>2. sent \in [Ids -> [given : BOOLEAN, net : Nets \cup {None}]]
    BY DEF Init
  <2>3. nvs \in [ssid : Nets \cup {None}, psk : Nets \cup {None}]
        /\ radio \in [mode : {"ap", "apsta", "sta"}, net : Nets \cup {None}]
    BY DEF Init
  <2> QED BY <2>1, <2>2, <2>3 DEF Init, TypeOK, States
<1> QED BY <1>1, <1>2 DEF TInv

(* A new job keeps the types of the rest.                                     *)
LEMMA BeginsTyped ==
  ASSUME TInv, NEW w \in Workers, NEW kind \in Kinds, NEW id \in Ids \cup {None},
         NEW net \in Nets \cup {None}, NEW step \in Steps, Begin(w, kind, id, net, step),
         UNCHANGED <<device, nvs, world, active, answered, torn>>,
         sent' \in [Ids -> [given : BOOLEAN, net : Nets \cup {None}]],
         lastSt' \in States, at' \in {"serial", "net", "button", "look", "tell"},
         step \in {"activate", "answer"} => id \in Ids,
         IF kind = "SET" THEN net \in Nets ELSE net = None,
         kind = "LIST" => step = "radio" /\ id = None,
         kind \in {"FALL", "RISE"} => step \in {"state", "radio"} /\ id = None
  PROVE  TInv'
<1>1. /\ job' \in [Workers -> Jobs \cup {NoJob}]
      /\ job'[w].kind = kind /\ job'[w].id = id /\ job'[w].net = net /\ job'[w].step = step
      /\ \A o \in Workers : o # w => job'[o] = job[o]
  BY Began, ZenonT(60)
<1>2. JobOK(job'[w])
  BY <1>1 DEF JobOK
<1>3. TypeOK'
  <2>1. /\ st' = st /\ shown' = shown /\ last' = last /\ age' = age /\ led' = led /\ nvs' = nvs
        /\ radio' = radio /\ link' = link /\ active' = active /\ answered' = answered
        /\ torn' = torn
    BY DEF device, world
  <2> QED BY <1>1, <2>1 DEF TInv, TypeOK
<1> QED BY <1>1, <1>2, <1>3 DEF TInv

LEMMA RequestTyped ==
  ASSUME TInv,
         \/ \E w \in Workers, i \in Ids, kind \in {"SET", "RESET"}, n \in Nets \cup {None} :
              NetCommand(w, i, kind, n)
         \/ \E w \in Tasks, kind \in {"SET", "RESET"}, n \in Nets \cup {None} :
              PortalRequest(w, kind, n)
         \/ \E w \in Workers : Scan(w)
         \/ ResetButton
  PROVE  TInv'
<1>0. /\ {"SET", "RESET", "LIST"} \subseteq Kinds /\ {"activate", "ssid", "radio"} \subseteq Steps
      /\ Loop \in Workers /\ Tasks \subseteq Workers
  BY DEF Kinds, Steps, Workers
<1>1. sent \in [Ids -> [given : BOOLEAN, net : Nets \cup {None}]] /\ lastSt \in States
      /\ at \in {"serial", "net", "button", "look", "tell"}
  BY DEF TInv, TypeOK
<1>2. ASSUME NEW w \in Workers, NEW i \in Ids, NEW kind \in {"SET", "RESET"},
             NEW n \in Nets \cup {None}, NetCommand(w, i, kind, n)
      PROVE  TInv'
  <2>1. /\ Begin(w, kind, i, n, "activate") /\ ((kind = "RESET") = (n = None))
        /\ sent' = [sent EXCEPT ![i] = [given |-> TRUE, net |-> n]]
        /\ UNCHANGED <<device, nvs, world, active, answered, torn>> /\ UNCHANGED <<at, lastSt>>
    BY <1>2 DEF NetCommand, loopVars
  <2>2. sent' \in [Ids -> [given : BOOLEAN, net : Nets \cup {None}]]
    BY <1>1, <2>1
  <2>3. IF kind = "SET" THEN n \in Nets ELSE n = None
    BY <2>1
  <2> QED BY <1>0, <1>1, <2>1, <2>2, <2>3, BeginsTyped
<1>3. ASSUME NEW w \in Tasks, NEW kind \in {"SET", "RESET"}, NEW n \in Nets \cup {None},
             PortalRequest(w, kind, n)
      PROVE  TInv'
  <2>1. /\ Begin(w, kind, None, n, "ssid") /\ ((kind = "RESET") = (n = None))
        /\ UNCHANGED <<device, nvs, world, active, answered, torn>> /\ UNCHANGED <<at, lastSt, sent>>
    BY <1>3 DEF PortalRequest, loopVars, history
  <2>2. IF kind = "SET" THEN n \in Nets ELSE n = None
    BY <2>1
  <2> QED BY <1>0, <1>1, <2>1, <2>2, BeginsTyped
<1>4. ASSUME NEW w \in Workers, Scan(w) PROVE TInv'
  <2>1. /\ Begin(w, "LIST", None, None, "radio")
        /\ UNCHANGED <<device, nvs, world, active, answered, torn>> /\ UNCHANGED <<at, lastSt, sent>>
    BY <1>4 DEF Scan, loopVars, history
  <2> QED BY <1>0, <1>1, <2>1, BeginsTyped
<1>5. CASE ResetButton
  <2>1. /\ Begin(Loop, "RESET", None, None, "ssid")
        /\ UNCHANGED <<device, nvs, world, active, answered, torn>> /\ UNCHANGED <<at, lastSt, sent>>
    BY <1>5 DEF ResetButton, loopVars, history
  <2> QED BY <1>0, <1>1, <2>1, BeginsTyped
<1> QED BY <1>2, <1>3, <1>4, <1>5

(* A step that moves its job on, or ends it.                                  *)
LEMMA StepTyped ==
  ASSUME TInv, NEW w \in Workers, Step(w)
  PROVE  TInv'
<1>0. /\ job \in [Workers -> Jobs \cup {NoJob}]
      /\ \A s \in {"ssid", "psk", "state", "stamp", "radio", "answer"} : s \in Steps
  BY DEF TInv, TypeOK, Steps
<1>a. ASSUME NEW s \in Steps, job[w] # NoJob, Continue(w, s), job[w].kind \notin {"LIST"},
             s = "answer" => job[w].id \in Ids, s # "activate",
             job[w].kind \in {"FALL", "RISE"} => s \in {"state", "radio"}
      PROVE  /\ job' \in [Workers -> Jobs \cup {NoJob}]
             /\ \A o \in Workers : job'[o] # NoJob => JobOK(job'[o])
  <2>1. /\ job' \in [Workers -> Jobs \cup {NoJob}]
        /\ job'[w].kind = job[w].kind /\ job'[w].id = job[w].id
        /\ job'[w].net = job[w].net /\ job'[w].step = s
        /\ \A o \in Workers : o # w => job'[o] = job[o]
    BY <1>a, Continued
  <2>2. JobOK(job'[w])
    BY <1>a, <2>1 DEF TInv, JobOK
  <2> QED BY <2>1, <2>2 DEF TInv
<1>b. ASSUME Finish(w)
      PROVE  /\ job' \in [Workers -> Jobs \cup {NoJob}]
             /\ \A o \in Workers : job'[o] # NoJob => JobOK(job'[o])
  BY <1>b, Finished DEF TInv
<1>1. CASE Activate(w)
  <2>1. job[w] # NoJob /\ job[w].step = "activate" /\ job[w] \in Jobs /\ JobOK(job[w])
    BY <1>1, InHandIs DEF Activate
  <2>2. job[w].id \in Ids /\ job[w].kind \notin {"LIST", "FALL", "RISE"}
    BY <2>1 DEF JobOK
  <2> QED BY <1>0, <1>1, <1>a, <2>1, <2>2 DEF Activate, TInv, TypeOK, device, world, loopVars
<1>2. CASE WriteSsid(w)
  <2>1. job[w] # NoJob /\ job[w].step = "ssid" /\ job[w] \in Jobs /\ JobOK(job[w])
    BY <1>2, InHandIs DEF WriteSsid
  <2>2. job[w].net \in Nets \cup {None} /\ job[w].kind \notin {"LIST", "FALL", "RISE"}
    BY <2>1, JobFields DEF JobOK
  <2> QED BY <1>0, <1>2, <1>a, <2>1, <2>2
          DEF WriteSsid, TInv, TypeOK, world, loopVars, history
<1>3. CASE WritePsk(w)
  <2>1. job[w] # NoJob /\ job[w].step = "psk" /\ job[w] \in Jobs /\ JobOK(job[w])
    BY <1>3, InHandIs DEF WritePsk
  <2>2. job[w].net \in Nets \cup {None} /\ job[w].kind \notin {"LIST", "FALL", "RISE"}
    BY <2>1, JobFields DEF JobOK
  <2> QED BY <1>0, <1>3, <1>a, <2>1, <2>2
          DEF WritePsk, PskWritten, TInv, TypeOK, device, world, loopVars
<1>4. CASE SaveFails(w)
  <2>1. job[w] \in Jobs /\ Finish(w)
    BY <1>0, <1>4 DEF SaveFails
  <2>2. job[w].net \in Nets \cup {None} /\ job[w].id \in Ids \cup {None}
    BY <2>1, JobFields
  <2>3. nvs' \in [ssid : Nets \cup {None}, psk : Nets \cup {None}] /\ torn' \in BOOLEAN
    BY <1>4, <2>2 DEF SaveFails, TInv, TypeOK
  <2>4. \A a \in answered' : a.id \in Ids /\ a.as \in {"ACK", "DONE", "ERR"}
    BY <1>4, <2>2 DEF SaveFails, TInv, TypeOK
  <2> QED BY <1>4, <1>b, <2>1, <2>3, <2>4
          DEF SaveFails, TInv, TypeOK, device, world, loopVars
<1>5. CASE ChangeState(w)
  <2>1. job[w] # NoJob /\ job[w].step = "state" /\ job[w] \in Jobs /\ JobOK(job[w])
    BY <1>5, InHandIs DEF ChangeState
  <2>2. job[w].net \in Nets \cup {None} /\ job[w].kind \notin {"LIST"}
    BY <2>1, JobFields DEF JobOK
  <2>3. st' \in States /\ shown' \in Nets \cup {None} /\ last' \in Nets \cup {None}
    BY <1>5, <2>2 DEF ChangeState, Target, States, TInv, TypeOK
  <2>4. /\ job' \in [Workers -> Jobs \cup {NoJob}]
        /\ \A o \in Workers : job'[o] # NoJob => JobOK(job'[o])
    BY <1>0, <1>5, <1>a, <2>1, <2>2 DEF ChangeState
  <2> QED BY <1>5, <2>3, <2>4 DEF ChangeState, TInv, TypeOK, world, loopVars
<1>6. CASE Stamp(w)
  <2>1. job[w] # NoJob /\ job[w].step = "stamp" /\ job[w] \in Jobs /\ JobOK(job[w])
    BY <1>6, InHandIs DEF Stamp
  <2>2. job[w].kind \notin {"LIST"}
    BY <2>1 DEF JobOK
  <2>3. age' \in 0..Timeout
    BY <1>6, OnboardingAssumption DEF Stamp
  <2> QED BY <1>0, <1>6, <1>a, <2>1, <2>2, <2>3
          DEF Stamp, TInv, TypeOK, world, loopVars, history
<1>7. CASE SwitchRadio(w)
  <2>1. job[w] # NoJob /\ job[w].step = "radio" /\ job[w] \in Jobs /\ JobOK(job[w])
    BY <1>7, InHandIs DEF SwitchRadio
  <2>2. job[w].net \in Nets \cup {None} /\ job[w].id \in Ids \cup {None}
    BY <2>1, JobFields
  <2>3. radio' \in [mode : {"ap", "apsta", "sta"}, net : Nets \cup {None}]
    BY <1>7, <2>2 DEF SwitchRadio, RadioFor, TInv, TypeOK
  <2>4. link' \in BOOLEAN /\ (link' => radio'.mode = "sta" /\ radio'.net # None)
    <3>1. CASE job[w].kind = "RISE"
      BY <1>7, <3>1 DEF SwitchRadio, RadioFor, LinkAfter, TInv, TypeOK
    <3>2. CASE job[w].kind # "RISE"
      BY <1>7, <3>2 DEF SwitchRadio, LinkAfter
    <3> QED BY <3>1, <3>2
  <2>5. led' \in States
    BY <1>7 DEF SwitchRadio, TInv, TypeOK
  <2>6. /\ job' \in [Workers -> Jobs \cup {NoJob}]
        /\ \A o \in Workers : job'[o] # NoJob => JobOK(job'[o])
    <3>1. CASE job[w].id = None
      BY <1>7, <1>b, <3>1 DEF SwitchRadio
    <3>2. CASE job[w].id # None
      <4>1. job[w].kind \notin {"FALL", "RISE", "LIST"}
        BY <2>1, <3>2 DEF JobOK
      <4> QED BY <1>0, <1>7, <1>a, <2>1, <2>2, <3>2, <4>1 DEF SwitchRadio
    <3> QED BY <3>1, <3>2
  <2> QED BY <1>7, <2>3, <2>4, <2>5, <2>6
          DEF SwitchRadio, TInv, TypeOK, loopVars, history
<1>8. CASE Reply(w)
  <2>1. job[w] # NoJob /\ job[w].step = "answer" /\ job[w] \in Jobs /\ JobOK(job[w])
    BY <1>8, InHandIs DEF Reply
  <2>2. job[w].id \in Ids
    BY <2>1 DEF JobOK
  <2>3. \A a \in answered' : a.id \in Ids /\ a.as \in {"ACK", "DONE", "ERR"}
    BY <1>8, <2>2 DEF Reply, TInv, TypeOK
  <2>4. active' \in Ids \cup {None}
    BY <1>8 DEF Reply, ActiveAfter, TInv, TypeOK
  <2> QED BY <1>8, <1>b, <2>3, <2>4 DEF Reply, TInv, TypeOK, device, world, loopVars
<1> QED BY <1>1, <1>2, <1>3, <1>4, <1>5, <1>6, <1>7, <1>8 DEF Step

(* The loop, the world and the loss of power.                                 *)
LEMMA LoopTyped ==
  ASSUME TInv, SerialDone \/ NetLoop \/ ButtonUp \/ Look \/ Tell
  PROVE  TInv'
<1>0. /\ lastSt \in States /\ st \in States /\ Loop \in Workers
      /\ at \in {"serial", "net", "button", "look", "tell"}
      /\ None \in Ids \cup {None} /\ None \in Nets \cup {None}
  BY DEF TInv, TypeOK, Workers
<1>1. SerialDone \/ NetLoop \/ ButtonUp \/ Tell =>
        lastSt' \in States /\ at' \in {"serial", "net", "button", "look", "tell"}
  BY <1>0 DEF SerialDone, NetLoop, ButtonUp, Tell, Move, Next_
<1>2. CASE SerialDone \/ ButtonUp \/ Look
  <2>1. lastSt' \in States /\ at' \in {"serial", "net", "button", "look", "tell"}
    BY <1>0, <1>1, <1>2 DEF Look
  <2>2. /\ st' = st /\ shown' = shown /\ last' = last /\ age' = age /\ led' = led /\ nvs' = nvs
        /\ radio' = radio /\ link' = link /\ active' = active /\ answered' = answered
        /\ torn' = torn /\ sent' = sent /\ job' = job
    BY <1>2 DEF SerialDone, ButtonUp, Look, device, world, history
  <2> QED BY <2>1, <2>2 DEF TInv, TypeOK
<1>3. CASE Tell
  <2>1. active' \in Ids \cup {None}
        /\ \A a \in answered' : a.id \in Ids /\ a.as \in {"ACK", "DONE", "ERR"}
    BY <1>3 DEF Tell, TInv, TypeOK
  <2>2. /\ st' = st /\ shown' = shown /\ last' = last /\ age' = age /\ led' = led /\ nvs' = nvs
        /\ radio' = radio /\ link' = link /\ torn' = torn /\ sent' = sent /\ job' = job
    BY <1>3 DEF Tell, device, world
  <2> QED BY <1>1, <1>3, <2>1, <2>2 DEF TInv, TypeOK
<1>4. CASE NetLoop
  <2>1. /\ UNCHANGED <<device, nvs, world, active, answered, torn>> /\ sent' = sent
        /\ sent \in [Ids -> [given : BOOLEAN, net : Nets \cup {None}]]
    BY <1>4 DEF NetLoop, history, TInv, TypeOK
  <2>2. CASE Transition = None
    <3>1. /\ st' = st /\ shown' = shown /\ last' = last /\ age' = age /\ led' = led /\ nvs' = nvs
          /\ radio' = radio /\ link' = link /\ active' = active /\ answered' = answered
          /\ torn' = torn /\ job' = job
      BY <1>4, <2>1, <2>2 DEF NetLoop, device, world
    <3> QED BY <1>1, <1>4, <2>1, <3>1 DEF TInv, TypeOK
  <2>3. CASE Transition # None
    <3>1. Begin(Loop, Transition, None, None, "state")
      BY <1>4, <2>3 DEF NetLoop
    <3>2. Transition \in {"FALL", "RISE"}
      BY <2>3 DEF Transition
    <3>3. {"FALL", "RISE"} \subseteq Kinds /\ "state" \in Steps
      BY DEF Kinds, Steps
    <3> HIDE DEF Transition
    <3>4. /\ Transition \in Kinds /\ Transition # "SET" /\ Transition # "LIST"
      BY <3>2, <3>3
    <3> QED BY <1>0, <1>1, <1>4, <2>1, <3>1, <3>3, <3>4, BeginsTyped
  <2> QED BY <2>2, <2>3
<1> QED BY <1>2, <1>3, <1>4

LEMMA WorldTyped == ASSUME TInv, Associate \/ LoseLink \/ Elapse \/ PowerCycle PROVE TInv'
<1>1. CASE Associate \/ LoseLink \/ Elapse
  <2>1. /\ st' = st /\ shown' = shown /\ last' = last /\ led' = led /\ nvs' = nvs
        /\ radio' = radio /\ active' = active /\ answered' = answered
        /\ torn' = torn /\ sent' = sent /\ job' = job /\ at' = at /\ lastSt' = lastSt
    BY <1>1 DEF Associate, LoseLink, Elapse, device, world, history, loopVars
  <2>2. link' \in BOOLEAN /\ (link' => radio.mode = "sta" /\ radio.net # None)
    <3>1. link \in BOOLEAN /\ (link => radio.mode = "sta" /\ radio.net # None)
      BY DEF TInv, TypeOK
    <3>2. CASE Associate \/ LoseLink
      BY <3>2 DEF Associate, LoseLink
    <3>3. CASE Elapse
      BY <3>1, <3>3, Zenon DEF Elapse, world
    <3> QED BY <1>1, <3>2, <3>3
  <2>3. age' \in 0..Timeout
    BY <1>1, OnboardingAssumption DEF Associate, LoseLink, Elapse, device, TInv, TypeOK
  <2> QED BY <2>1, <2>2, <2>3 DEF TInv, TypeOK
<1>2. CASE PowerCycle
  <2>1. /\ st' \in States /\ led' = st' /\ lastSt' = st' /\ shown' = nvs.ssid /\ last' = nvs.ssid
        /\ age' = 0 /\ link' = FALSE /\ nvs' = nvs /\ sent' = sent /\ answered' = {}
        /\ active' = None /\ at' = "serial" /\ job' = [w \in Workers |-> NoJob]
        /\ torn' \in BOOLEAN
    BY <1>2 DEF PowerCycle, Boot, States, TInv, TypeOK
  <2>2. radio' \in [mode : {"ap", "apsta", "sta"}, net : Nets \cup {None}]
    BY <1>2 DEF PowerCycle, Boot, TInv, TypeOK
  <2>3. 0 \in 0..Timeout /\ nvs.ssid \in Nets \cup {None}
    BY OnboardingAssumption DEF TInv, TypeOK
  <2>4. job' \in [Workers -> Jobs \cup {NoJob}] /\ \A w \in Workers : job'[w] = NoJob
    BY <2>1
  <2> QED BY <2>1, <2>2, <2>3, <2>4 DEF TInv, TypeOK
<1> QED BY <1>1, <1>2

LEMMA NextTInv == TInv /\ [Next]_vars => TInv'
<1> SUFFICES ASSUME TInv, [Next]_vars PROVE TInv'
  OBVIOUS
<1>1. CASE UNCHANGED vars
  BY <1>1 DEF vars, device, world, loopVars, history, TInv, TypeOK
<1>2. CASE Next
  <2>1. CASE LoopStep
    BY <2>1, LoopTyped, StepTyped DEF LoopStep, Workers
  <2>2. ASSUME NEW w \in Tasks, Step(w) PROVE TInv'
    BY <2>2, StepTyped DEF Workers
  <2> QED BY <1>2, <2>1, <2>2, RequestTyped, WorldTyped DEF Next
<1> QED BY <1>1, <1>2

(* State, flash, radio and the request each task is in keep to their ranges,   *)
(* whatever overlaps: a link belongs to a station (NetOnboarding, all of it).  *)
THEOREM TypeCorrect == Spec => []TypeOK
<1>1. Spec => []TInv
  BY InitTInv, NextTInv, PTL DEF Spec
<1>2. TInv => TypeOK
  BY DEF TInv
<1> QED BY <1>1, <1>2, PTL

-----------------------------------------------------------------------------
(* Requests that do not overlap.                                             *)

Alone == \A v, w \in Workers : job[v] # NoJob /\ job[w] # NoJob => v = w

(* What STATUS and the LED say is true.                                      *)
StateTrue ==
  /\ st = "AP" <=> radio.mode # "sta"
  /\ st # "AP" => radio.net \in {shown, None}
  /\ led = st

(* How far a job has come, and what that says of flash, state and radio.      *)
Before(j) == j.step \in {"activate", "ssid", "psk", "state"}
JobInv(j) ==
  /\ j.step = "psk" => nvs.ssid = j.net
  /\ j.kind = "LIST" => st = "AP"
  /\ j.kind = "SET" /\ Before(j) => st # "CONNECTING"
  /\ j.kind = "SET" /\ j.step \in {"stamp", "radio"} => st = "CONNECTING" /\ shown = j.net
  /\ j.kind \in {"RESET", "FALL"} /\ j.step \in {"stamp", "radio"} => st = "AP"
  /\ j.kind = "RISE" /\ j.step = "state" => st = "CONNECTING"
  /\ j.kind = "RISE" /\ j.step \in {"stamp", "radio"} =>
       st = "CONNECTED" /\ radio.mode = "sta" /\ radio.net \in {shown, None}

Switching(j) == j.kind # "LIST" /\ j.step \in {"stamp", "radio"}
Resetting(j) == j.kind = "RESET" /\ j.step \in {"psk", "state"}
LInv ==
  /\ Alone
  /\ nvs.ssid # nvs.psk => torn \/ \E w \in Workers : job[w] # NoJob /\ job[w].step = "psk"
  /\ \A w \in Workers : job[w] # NoJob => JobInv(job[w])
  /\ StateTrue \/ \E w \in Workers : job[w] # NoJob /\ Switching(job[w])
  /\ st = "CONNECTING" =>
       last = shown \/ \E w \in Workers : job[w] # NoJob /\ Resetting(job[w])

LEMMA InitLInv == Init => LInv
BY DEF Init, LInv, Alone, StateTrue

(* The invariant when nothing is in hand, and when one job is.                 *)
LEMMA InHandFacts ==
  ASSUME LInv, NEW w \in Workers, job[w] # NoJob
  PROVE  /\ \A o \in Workers : o # w => job[o] = NoJob
         /\ nvs.ssid # nvs.psk => torn \/ job[w].step = "psk"
         /\ JobInv(job[w])
         /\ StateTrue \/ Switching(job[w])
         /\ st = "CONNECTING" => last = shown \/ Resetting(job[w])
BY DEF LInv, Alone

LEMMA IdleFacts ==
  ASSUME LInv, \A w \in Workers : job[w] = NoJob
  PROVE  /\ nvs.ssid # nvs.psk => torn
         /\ StateTrue
         /\ st = "CONNECTING" => last = shown
BY DEF LInv

LEMMA OneLeft ==
  ASSUME NEW w \in Workers, job'[w] # NoJob, \A o \in Workers : o # w => job'[o] = NoJob,
         nvs'.ssid # nvs'.psk => torn' \/ job'[w].step = "psk",
         JobInv(job[w])',
         StateTrue' \/ Switching(job'[w]),
         st' = "CONNECTING" => last' = shown' \/ Resetting(job'[w])
  PROVE  LInv'
<1>1. \A v \in Workers : job'[v] # NoJob => v = w
  OBVIOUS
<1>2. \A v \in Workers : job'[v] # NoJob => JobInv(job[v])'
  BY <1>1
<1> QED BY <1>1, <1>2 DEF LInv, Alone

LEMMA NoneLeft ==
  ASSUME \A w \in Workers : job'[w] = NoJob,
         nvs'.ssid # nvs'.psk => torn',
         StateTrue',
         st' = "CONNECTING" => last' = shown'
  PROVE  LInv'
BY DEF LInv, Alone

-----------------------------------------------------------------------------
(* A request or a transition begins.                                         *)
LEMMA BeginsAlone ==
  ASSUME Locked, TInv, LInv, NEW w \in Workers, NEW kind \in Kinds, NEW id \in Ids \cup {None},
         NEW net \in Nets \cup {None}, NEW step \in Steps, Begin(w, kind, id, net, step),
         UNCHANGED <<device, nvs, world, torn>>,
         step \in {"activate", "ssid", "state", "radio"},
         kind = "LIST" <=> step = "radio",
         kind = "LIST" => st = "AP", kind = "SET" => st # "CONNECTING",
         kind = "RISE" => st = "CONNECTING"
  PROVE  LInv'
<1>1. /\ job'[w] # NoJob /\ job'[w].kind = kind /\ job'[w].step = step
      /\ \A o \in Workers : o # w => job'[o] = job[o]
      /\ \A o \in Workers : job[o] = NoJob
  BY Began, ZenonT(60)
<1>2. /\ nvs.ssid # nvs.psk => torn
      /\ StateTrue
      /\ st = "CONNECTING" => last = shown
  BY <1>1, IdleFacts
<1>3. /\ st' = st /\ shown' = shown /\ last' = last /\ age' = age /\ led' = led /\ nvs' = nvs
      /\ radio' = radio /\ torn' = torn
  BY DEF device, world
<1>4. JobInv(job[w])'
  BY <1>1, <1>3 DEF JobInv, Before
<1>5. StateTrue'
  BY <1>2, <1>3 DEF StateTrue
<1> QED BY <1>1, <1>2, <1>3, <1>4, <1>5, OneLeft

LEMMA RequestAlone ==
  ASSUME Locked, TInv, LInv,
         \/ \E w \in Workers, i \in Ids, kind \in {"SET", "RESET"}, n \in Nets \cup {None} :
              NetCommand(w, i, kind, n)
         \/ \E w \in Tasks, kind \in {"SET", "RESET"}, n \in Nets \cup {None} :
              PortalRequest(w, kind, n)
         \/ \E w \in Workers : Scan(w)
         \/ ResetButton
  PROVE  LInv'
<1>0. /\ {"SET", "RESET", "LIST"} \subseteq Kinds /\ {"activate", "ssid", "radio"} \subseteq Steps
      /\ Loop \in Workers /\ Tasks \subseteq Workers
      /\ None \in Ids \cup {None} /\ None \in Nets \cup {None}
  BY DEF Kinds, Steps, Workers
<1>1. ASSUME NEW w \in Workers, NEW i \in Ids, NEW kind \in {"SET", "RESET"},
             NEW n \in Nets \cup {None}, NetCommand(w, i, kind, n)
      PROVE  LInv'
  BY <1>0, <1>1, BeginsAlone DEF NetCommand
<1>2. ASSUME NEW w \in Tasks, NEW kind \in {"SET", "RESET"}, NEW n \in Nets \cup {None},
             PortalRequest(w, kind, n)
      PROVE  LInv'
  BY <1>0, <1>2, BeginsAlone DEF PortalRequest, history
<1>3. ASSUME NEW w \in Workers, Scan(w) PROVE LInv'
  BY <1>0, <1>3, BeginsAlone DEF Scan, history
<1>4. CASE ResetButton
  BY <1>0, <1>4, BeginsAlone DEF ResetButton, history
<1> QED BY <1>1, <1>2, <1>3, <1>4

(* Steps of the only job in hand.                                             *)
LEMMA StepAlone ==
  ASSUME TInv, LInv, NEW w \in Workers, Step(w)
  PROVE  LInv'
<1>0. job[w] # NoJob /\ job[w] \in Jobs /\ JobOK(job[w])
  BY Zenon DEF TInv, TypeOK, Step, Activate, WriteSsid, WritePsk, SaveFails, ChangeState, Stamp,
     SwitchRadio, Reply, InHand
<1>1. /\ \A o \in Workers : o # w => job[o] = NoJob
      /\ nvs.ssid # nvs.psk => torn \/ job[w].step = "psk"
      /\ JobInv(job[w])
      /\ StateTrue \/ Switching(job[w])
      /\ st = "CONNECTING" => last = shown \/ Resetting(job[w])
  BY <1>0, InHandFacts
<1>2. \A s \in {"ssid", "psk", "state", "stamp", "radio", "answer"} : s \in Steps
  BY DEF Steps
<1>3. nvs \in [ssid : Nets \cup {None}, psk : Nets \cup {None}] /\ job[w].kind \in Kinds
  BY <1>0, JobFields DEF TInv, TypeOK
<1>4. ASSUME NEW s \in Steps, Continue(w, s)
      PROVE  /\ job'[w] # NoJob /\ job'[w].kind = job[w].kind /\ job'[w].net = job[w].net
             /\ job'[w].step = s /\ \A o \in Workers : o # w => job'[o] = NoJob
  BY <1>0, <1>1, <1>4, Continued
<1>5. Finish(w) => \A o \in Workers : job'[o] = NoJob
  BY <1>1, Finished
<1>6. CASE Activate(w)
  <2>1. /\ job[w].step = "activate" /\ UNCHANGED <<st, shown, last, led, nvs, radio, torn>>
    BY <1>6 DEF Activate, InHand, device, world
  <2>2. /\ job'[w] # NoJob /\ job'[w].kind = job[w].kind /\ job'[w].net = job[w].net
        /\ job'[w].step = "ssid" /\ \A o \in Workers : o # w => job'[o] = NoJob
    BY <1>2, <1>4, <1>6 DEF Activate
  <2>3. StateTrue'
    BY <1>1, <2>1 DEF StateTrue, Switching
  <2>4. JobInv(job[w])'
    BY <1>1, <2>1, <2>2 DEF JobInv, Before
  <2> QED BY <1>1, <2>1, <2>2, <2>3, <2>4, OneLeft DEF Resetting
<1>7. CASE WriteSsid(w)
  <2>1. /\ job[w].step = "ssid" /\ nvs' = [nvs EXCEPT !.ssid = job[w].net] /\ last' = job[w].net
        /\ UNCHANGED <<st, shown, led, radio, torn>>
    BY <1>7 DEF WriteSsid, InHand, world, history
  <2>2. /\ job'[w] # NoJob /\ job'[w].kind = job[w].kind /\ job'[w].net = job[w].net
        /\ job'[w].step = "psk" /\ \A o \in Workers : o # w => job'[o] = NoJob
    BY <1>2, <1>4, <1>7 DEF WriteSsid
  <2>3. StateTrue'
    BY <1>1, <2>1 DEF StateTrue, Switching
  <2>4. nvs'.ssid = job[w].net
    BY <1>3, <2>1
  <2>5. JobInv(job[w])'
    BY <1>1, <2>1, <2>2, <2>4 DEF JobInv, Before
  <2>6. job[w].kind \in {"SET", "RESET"}
    BY <1>0, <1>3, <2>1 DEF JobOK, Kinds
  <2>7. st' = "CONNECTING" => Resetting(job'[w])
    BY <1>1, <2>1, <2>2, <2>6 DEF JobInv, Before, Resetting
  <2> QED BY <2>2, <2>3, <2>5, <2>7, OneLeft
<1>8. CASE WritePsk(w)
  <2>1. /\ job[w].step = "psk" /\ nvs' = [nvs EXCEPT !.psk = job[w].net]
        /\ UNCHANGED <<st, shown, last, led, radio>>
    BY <1>8 DEF WritePsk, PskWritten, InHand, world, device
  <2>2. /\ job'[w] # NoJob /\ job'[w].kind = job[w].kind /\ job'[w].net = job[w].net
        /\ job'[w].step = "state" /\ \A o \in Workers : o # w => job'[o] = NoJob
    BY <1>2, <1>4, <1>8 DEF WritePsk
  <2>3. StateTrue'
    BY <1>1, <2>1 DEF StateTrue, Switching
  <2>4. nvs'.ssid = nvs'.psk
    BY <1>1, <1>3, <2>1 DEF JobInv
  <2>5. JobInv(job[w])'
    <3>1. job[w].kind # "RISE"
      BY <1>0, <2>1 DEF JobOK
    <3> QED BY <1>1, <2>1, <2>2, <3>1 DEF JobInv, Before
  <2> QED BY <1>1, <2>1, <2>2, <2>3, <2>4, <2>5, OneLeft DEF Resetting
<1>9. CASE SaveFails(w)
  <2>1. /\ job[w].kind = "SET" /\ job[w].step = "psk" /\ Finish(w)
        /\ UNCHANGED <<st, shown, last, led, radio>>
        /\ \/ nvs' = nvs /\ torn'
           \/ nvs' = [nvs EXCEPT !.psk = job[w].net]
    BY <1>9 DEF SaveFails, world, device
  <2>2. StateTrue'
    BY <1>1, <2>1 DEF StateTrue, Switching
  <2>3. nvs'.ssid # nvs'.psk => torn'
    BY <1>1, <1>3, <2>1 DEF JobInv
  <2>4. st # "CONNECTING"
    BY <1>1, <2>1 DEF JobInv, Before
  <2> QED BY <1>5, <2>1, <2>2, <2>3, <2>4, NoneLeft
<1>10. CASE ChangeState(w)
  <2>1. /\ job[w].step = "state" /\ st' = Target(job[w])
        /\ shown' = (IF job[w].kind = "SET" THEN job[w].net ELSE last)
        /\ last' = (IF job[w].kind = "SET" THEN job[w].net ELSE last)
        /\ UNCHANGED <<nvs, radio, torn>>
    BY <1>10 DEF ChangeState, InHand, world
  <2> DEFINE s == IF job[w].kind = "SET" THEN "stamp" ELSE "radio"
  <2>2. /\ job'[w] # NoJob /\ job'[w].kind = job[w].kind /\ job'[w].net = job[w].net
        /\ job'[w].step = s /\ \A o \in Workers : o # w => job'[o] = NoJob
    <3>1. s \in Steps /\ Continue(w, s)
      BY <1>2, <1>10 DEF ChangeState
    <3> HIDE DEF s
    <3> QED BY <1>4, <3>1
  <2>3. job[w].kind # "LIST"
    BY <1>0, <2>1 DEF JobOK
  <2>4. Switching(job'[w])
    BY <2>2, <2>3 DEF Switching
  <2>5. JobInv(job[w])'
    <3>1. CASE job[w].kind = "RISE"
      <4>1. st = "CONNECTING" /\ StateTrue /\ last = shown
        BY <1>1, <2>1, <3>1 DEF JobInv, Switching, Resetting
      <4>2. st' = "CONNECTED" /\ radio.mode = "sta" /\ radio.net \in {shown, None}
        BY <2>1, <3>1, <4>1 DEF Target, StateTrue
      <4> QED BY <2>1, <2>2, <3>1, <4>1, <4>2 DEF JobInv, Before
    <3>2. CASE job[w].kind = "SET"
      BY <2>1, <2>2, <3>2 DEF JobInv, Target, Before
    <3>3. CASE job[w].kind \in {"RESET", "FALL"}
      BY <2>1, <2>2, <3>3 DEF JobInv, Target, Before
    <3> QED BY <1>3, <2>3, <3>1, <3>2, <3>3 DEF Kinds
  <2>6. nvs'.ssid # nvs'.psk => torn'
    BY <1>1, <2>1
  <2> QED BY <2>1, <2>2, <2>4, <2>5, <2>6, OneLeft
<1>11. CASE Stamp(w)
  <2>1. /\ job[w].step = "stamp" /\ UNCHANGED <<st, shown, last, led, nvs, radio, torn>>
    BY <1>11 DEF Stamp, InHand, world, history
  <2>2. /\ job'[w] # NoJob /\ job'[w].kind = job[w].kind /\ job'[w].net = job[w].net
        /\ job'[w].step = "radio" /\ \A o \in Workers : o # w => job'[o] = NoJob
    BY <1>2, <1>4, <1>11 DEF Stamp
  <2>3. job[w].kind # "LIST"
    BY <1>0, <2>1 DEF JobOK
  <2>4. Switching(job'[w])
    BY <2>2, <2>3 DEF Switching
  <2>5. JobInv(job[w])'
    BY <1>1, <2>1, <2>2 DEF JobInv, Before
  <2> QED BY <1>1, <2>1, <2>2, <2>4, <2>5, OneLeft DEF Resetting
<1>12. CASE SwitchRadio(w)
  <2>1. /\ job[w].step = "radio" /\ radio' = RadioFor(job[w])
        /\ led' = (IF job[w].kind = "LIST" THEN led ELSE st)
        /\ IF job[w].id = None THEN Finish(w) ELSE Continue(w, "answer")
        /\ UNCHANGED <<st, shown, last, nvs, torn>>
    BY <1>12 DEF SwitchRadio, InHand, history
  <2>2. StateTrue'
    <3>1. CASE job[w].kind = "LIST"
      <4>1. st = "AP" /\ led = st
        BY <1>1, <3>1 DEF JobInv, StateTrue, Switching
      <4> QED BY <2>1, <3>1, <4>1 DEF RadioFor, StateTrue
    <3>2. CASE job[w].kind = "SET"
      BY <1>1, <2>1, <3>2 DEF JobInv, RadioFor, StateTrue
    <3>3. CASE job[w].kind \in {"RESET", "FALL"}
      BY <1>1, <2>1, <3>3 DEF JobInv, RadioFor, StateTrue
    <3>4. CASE job[w].kind = "RISE"
      BY <1>1, <2>1, <3>4 DEF JobInv, RadioFor, StateTrue
    <3> QED BY <1>3, <3>1, <3>2, <3>3, <3>4 DEF Kinds
  <2>3. nvs'.ssid # nvs'.psk => torn'
    BY <1>1, <2>1
  <2>4. st' = "CONNECTING" => last' = shown'
    BY <1>1, <2>1 DEF Resetting
  <2>5. CASE job[w].id = None
    BY <1>5, <2>1, <2>2, <2>3, <2>4, <2>5, NoneLeft
  <2>6. CASE job[w].id # None
    <3>1. /\ job'[w] # NoJob /\ job'[w].kind = job[w].kind /\ job'[w].net = job[w].net
          /\ job'[w].step = "answer" /\ \A o \in Workers : o # w => job'[o] = NoJob
      BY <1>2, <1>4, <2>1, <2>6
    <3>2. JobInv(job[w])'
      BY <1>1, <2>1, <3>1 DEF JobInv, Before
    <3> QED BY <2>2, <2>3, <2>4, <3>1, <3>2, OneLeft
  <2> QED BY <2>5, <2>6
<1>13. CASE Reply(w)
  <2>1. /\ job[w].step = "answer" /\ Finish(w)
        /\ UNCHANGED <<st, shown, last, led, nvs, radio, torn>>
    BY <1>13 DEF Reply, InHand, world, device
  <2>2. StateTrue'
    BY <1>1, <2>1 DEF StateTrue, Switching
  <2> QED BY <1>1, <1>5, <2>1, <2>2, NoneLeft DEF Resetting
<1> QED BY <1>6, <1>7, <1>8, <1>9, <1>10, <1>11, <1>12, <1>13 DEF Step

(* What the loop and the world do leaves flash, state and radio alone.        *)
LEMMA AsideAlone ==
  ASSUME LInv, UNCHANGED <<st, shown, last, led, nvs, radio, torn, job>>
  PROVE  LInv'
<1>1. StateTrue' <=> StateTrue
  BY DEF StateTrue
<1>2. \A w \in Workers : JobInv(job[w])' <=> JobInv(job[w])
  BY DEF JobInv
<1> QED BY <1>1, <1>2 DEF LInv, Alone

LEMMA LoopAlone ==
  ASSUME Locked, TInv, LInv, SerialDone \/ NetLoop \/ ButtonUp \/ Look \/ Tell
  PROVE  LInv'
<1>1. CASE NetLoop /\ Transition # None
  <2>1. Begin(Loop, Transition, None, None, "state") /\ UNCHANGED <<device, nvs, world, torn>>
    BY <1>1 DEF NetLoop, history
  <2>2. Transition \in {"FALL", "RISE"} /\ (Transition = "RISE" => st = "CONNECTING")
    BY <1>1 DEF Transition
  <2>3. /\ {"FALL", "RISE"} \subseteq Kinds /\ "state" \in Steps /\ Loop \in Workers
        /\ None \in Ids \cup {None} /\ None \in Nets \cup {None}
    BY DEF Kinds, Steps, Workers
  <2> HIDE DEF Transition
  <2>4. Transition \in Kinds /\ Transition \notin {"LIST", "SET"}
    BY <2>2, <2>3
  <2> QED BY <2>1, <2>2, <2>3, <2>4, BeginsAlone
<1>2. CASE ~(NetLoop /\ Transition # None)
  <2>1. UNCHANGED <<st, shown, last, led, nvs, radio, torn, job>>
    BY <1>2 DEF NetLoop, SerialDone, ButtonUp, Look, Tell, device, world, history
  <2> QED BY <2>1, AsideAlone
<1> QED BY <1>1, <1>2

LEMMA WorldAlone ==
  ASSUME TInv, LInv, Associate \/ LoseLink \/ Elapse \/ PowerCycle
  PROVE  LInv'
<1>1. CASE Associate \/ LoseLink \/ Elapse
  <2>1. UNCHANGED <<st, shown, last, led, nvs, radio, torn, job>>
    BY <1>1 DEF Associate, LoseLink, Elapse, device, world, history
  <2> QED BY <2>1, AsideAlone
<1>2. CASE PowerCycle
  <2>1. /\ st' = (IF nvs.ssid # None THEN "CONNECTING" ELSE "AP")
        /\ radio' = [mode |-> IF nvs.ssid # None THEN "sta" ELSE "ap",
                     net  |-> IF nvs.psk = nvs.ssid THEN nvs.ssid ELSE None]
        /\ shown' = nvs.ssid /\ last' = nvs.ssid /\ led' = st' /\ nvs' = nvs
        /\ \A w \in Workers : job'[w] = NoJob
        /\ torn' = (torn \/ \E w \in Workers : HalfWritten(job[w]))
    BY <1>2 DEF PowerCycle, Boot
  <2>2. StateTrue'
    BY <2>1 DEF StateTrue
  <2>3. nvs.ssid # nvs.psk => torn'
    <3>1. ASSUME NEW w \in Workers, job[w] # NoJob, job[w].step = "psk" PROVE HalfWritten(job[w])
      <4>1. job[w] \in Jobs /\ JobOK(job[w])
        BY <3>1 DEF TInv, TypeOK
      <4>2. job[w].kind \in {"SET", "RESET"}
        BY <3>1, <4>1, JobFields DEF JobOK, Kinds
      <4> QED BY <3>1, <4>2 DEF HalfWritten
    <3> QED BY <2>1, <3>1 DEF LInv
  <2> QED BY <2>1, <2>2, <2>3, NoneLeft
<1> QED BY <1>1, <1>2

LEMMA NextLInv == Locked /\ TInv /\ LInv /\ [Next]_vars => LInv'
<1> SUFFICES ASSUME Locked, TInv, LInv, [Next]_vars PROVE LInv'
  OBVIOUS
<1>1. CASE UNCHANGED vars
  BY <1>1, AsideAlone DEF vars, device, world, history
<1>2. CASE Next
  <2>1. CASE LoopStep
    BY <2>1, LoopAlone, StepAlone DEF LoopStep, Workers
  <2>2. ASSUME NEW w \in Tasks, Step(w) PROVE LInv'
    BY <2>2, StepAlone DEF Workers
  <2> QED BY <1>2, <2>1, <2>2, RequestAlone, WorldAlone DEF Next
<1> QED BY <1>1, <1>2

(* Jobs, flash, state and radio are as LInv says in every behaviour of         *)
(* requests that do not overlap.                                             *)
THEOREM Inductive == ASSUME Locked PROVE Spec => [](TInv /\ LInv)
<1>1. TInv /\ LInv /\ [Next]_vars => TInv' /\ LInv'
  BY NextTInv, NextLInv
<1> QED BY <1>1, InitTInv, InitLInv, PTL DEF Spec

(* With no request in hand, the state, the network shown and the LED are those *)
(* of the radio (enterApMode_, enterConnecting_, loop).                       *)
THEOREM StatusIsTrue == ASSUME Locked PROVE Spec => []StateIsTrue
<1>1. TInv /\ LInv => StateIsTrue
  BY IdleFacts DEF StateIsTrue, Quiet, StateTrue
<1> QED BY <1>1, Inductive, PTL

(* The flash mixes the ssid of one request with the password of another only    *)
(* between the two writes, or after a failure there (saveCredentials,          *)
(* clearCredentials).                                                        *)
THEOREM FlashIsWhole == ASSUME Locked PROVE Spec => []TornOnlyByFailure
<1>1. TInv /\ LInv => TornOnlyByFailure
  BY DEF LInv, TornOnlyByFailure, InHand
<1> QED BY <1>1, Inductive, PTL

-----------------------------------------------------------------------------
(* Reports of requests that do not overlap.                                  *)

(* What a job in hand says of the reports: a request, and a transition of the  *)
(* loop, begins when the last change is reported; a command runs under an id   *)
(* of its own until its state is set.                                        *)
JobNews(j) ==
  /\ Before(j) => Reported
  /\ j.id # None => /\ sent[j.id] = [given |-> TRUE, net |-> j.net]
                    /\ (j.kind = "RESET") = (j.net = None)
                    /\ j.kind = "RESET" /\ Before(j) => j.before = st
                    /\ j.step = "activate" => active # j.id /\ \A a \in answered : a.id # j.id
  /\ j.step = "answer" => j.id # None /\ (j.kind = "RESET" => st = "AP")
LoopsOwn(w) == job[w].kind \in {"FALL", "RISE"} => w = Loop /\ at = "button"

(* A change the loop has not seen yet stays until it looks: a connection is    *)
(* made just before, an attempt just begun neither times out nor connects.     *)
Starting(j) == j.kind = "SET" /\ (j.step = "stamp" \/ (j.step = "radio" /\ age = 0))
Fresh == ~link /\ age = 0
Seen(starting) ==
  /\ at = "tell" => st = lastSt
  /\ st # lastSt => /\ st = "CONNECTED" => at \in {"button", "look"}
                    /\ st = "CONNECTING" => Fresh \/ starting

(* A command whose DONE is still to come, and did not fail to save, awaits a   *)
(* report that is its own, or is in hand.                                    *)
Live == active # None /\ ~Answered(active, "ERR")
Own  == sent[active].net
Awaits ==
  \/ st = "AP" /\ ~Reported
  \/ Own # None /\ shown = Own /\ (st = "CONNECTING" \/ (st = "CONNECTED" /\ ~Reported))
OwnJob(j) ==
  /\ j.id = active
  /\ \/ j.step \in {"ssid", "psk", "state"}
     \/ st = "AP" /\ j.kind = "RESET" /\ j.before = "AP"
Waits(own) == Live => ~Answered(active, "DONE") /\ (Awaits \/ own)

Given ==
  /\ \A a \in answered : sent[a.id].given
  /\ active # None => sent[active].given

DInv ==
  /\ \A w \in Workers : job[w] # NoJob => JobNews(job[w]) /\ LoopsOwn(w)
  /\ Seen(\E w \in Workers : job[w] # NoJob /\ Starting(job[w]))
  /\ Given
  /\ Waits(\E w \in Workers : job[w] # NoJob /\ OwnJob(job[w]))
  /\ DoneIsOwn

LEMMA InitDInv == Init => DInv
BY DEF Init, DInv, Seen, Given, Waits, Live, DoneIsOwn

(* The invariant when one job is in hand, and when none is.                    *)
LEMMA NewsInHand ==
  ASSUME LInv, DInv, NEW w \in Workers, job[w] # NoJob
  PROVE  /\ \A o \in Workers : o # w => job[o] = NoJob
         /\ JobNews(job[w]) /\ LoopsOwn(w)
         /\ Seen(Starting(job[w])) /\ Waits(OwnJob(job[w]))
         /\ Given /\ DoneIsOwn
<1>1. \A o \in Workers : job[o] # NoJob => o = w
  BY DEF LInv, Alone
<1> QED BY <1>1 DEF DInv, Seen, Waits

LEMMA NewsIdle ==
  ASSUME DInv, \A w \in Workers : job[w] = NoJob
  PROVE  Seen(FALSE) /\ Waits(FALSE) /\ Given /\ DoneIsOwn
BY DEF DInv, Seen, Waits

LEMMA NewsOfOne ==
  ASSUME NEW w \in Workers, job'[w] # NoJob, JobNews(job[w])', LoopsOwn(w)',
         \A o \in Workers : o # w => job'[o] = NoJob,
         Seen(Starting(job[w]))', Waits(OwnJob(job[w]))', Given', DoneIsOwn'
  PROVE  DInv'
<1>1. \A v \in Workers : job'[v] # NoJob => v = w
  OBVIOUS
<1>2. \A v \in Workers : job'[v] # NoJob => JobNews(job[v])' /\ LoopsOwn(v)'
  BY <1>1
<1>3. Seen(\E v \in Workers : job[v] # NoJob /\ Starting(job[v]))'
  BY DEF Seen
<1>4. Waits(\E v \in Workers : job[v] # NoJob /\ OwnJob(job[v]))'
  BY DEF Waits
<1> QED BY <1>2, <1>3, <1>4 DEF DInv

LEMMA NewsOfNone ==
  ASSUME \A w \in Workers : job'[w] = NoJob,
         Seen(FALSE)', Waits(FALSE)', Given', DoneIsOwn'
  PROVE  DInv'
BY DEF DInv, Seen, Waits

(* What leaves the commands and their answers alone.                         *)
LEMMA SameAnswers ==
  ASSUME Given, DoneIsOwn, UNCHANGED <<active, sent, answered>>
  PROVE  /\ Given' /\ DoneIsOwn' /\ (Live' <=> Live) /\ Own' = Own
         /\ \A i, as : Answered(i, as)' <=> Answered(i, as)
BY DEF Given, DoneIsOwn, Live, Own, Answered

(* A request begins: no command is live then, but for the reset button, which  *)
(* may end the attempt of one.                                               *)
LEMMA BeginsNews ==
  ASSUME Locked, TInv, DInv, NEW w \in Workers, NEW kind \in Kinds,
         NEW id \in Ids \cup {None}, NEW net \in Nets \cup {None}, NEW step \in Steps,
         Begin(w, kind, id, net, step), UNCHANGED <<device, world, active, answered, lastSt>>,
         step \in {"activate", "ssid", "state", "radio"},
         step # "radio" => Reported',
         kind \in {"FALL", "RISE"} => w = Loop /\ at' = "button",
         at' = at \/ (at = "net" /\ at' = "button"),
         \/ sent' = sent /\ id = None
         \/ /\ sent' = [sent EXCEPT ![id] = [given |-> TRUE, net |-> net]] /\ id \in Ids
            /\ ~sent[id].given /\ (kind = "RESET") = (net = None)
  PROVE  DInv'
<1>1. /\ job'[w] # NoJob /\ job'[w].kind = kind /\ job'[w].id = id /\ job'[w].net = net
      /\ job'[w].step = step
      /\ job'[w].before = IF kind = "RESET" /\ id # None THEN st ELSE "AP"
      /\ \A o \in Workers : o # w => job'[o] = job[o]
      /\ \A o \in Workers : job[o] = NoJob
  BY Began, ZenonT(60)
<1>2. Seen(FALSE) /\ Waits(FALSE) /\ Given /\ DoneIsOwn
  BY <1>1, NewsIdle
<1>3. /\ st' = st /\ shown' = shown /\ age' = age /\ link' = link /\ lastSt' = lastSt
      /\ active' = active /\ answered' = answered
  BY DEF device, world
<1>4. /\ \A i \in Ids : sent[i].given => sent'[i] = sent[i]
      /\ id # None => sent'[id] = [given |-> TRUE, net |-> net]
  BY DEF TInv, TypeOK
<1>5. /\ \A a \in answered : a.id \in Ids /\ sent'[a.id] = sent[a.id] /\ sent[a.id].given
      /\ active # None => active \in Ids /\ sent'[active] = sent[active] /\ sent[active].given
  BY <1>2, <1>4 DEF Given, TInv, TypeOK
<1>6. JobNews(job[w])'
  <2>1. id # None /\ step = "activate" => active # id /\ \A a \in answered : a.id # id
    BY <1>5
  <2> QED BY <1>1, <1>3, <1>4, <2>1 DEF JobNews, Before
<1>7. LoopsOwn(w)'
  BY <1>1 DEF LoopsOwn
<1>8. Seen(Starting(job[w]))'
  BY <1>2, <1>3 DEF Seen, Fresh
<1>9. Given' /\ DoneIsOwn'
  BY <1>2, <1>3, <1>5 DEF Given, DoneIsOwn, Answered
<1>10. Waits(OwnJob(job[w]))'
  <2>1. /\ Live' <=> Live
        /\ Live => Own' = Own /\ (Answered(active, "DONE")' <=> Answered(active, "DONE"))
    BY <1>3, <1>5 DEF Live, Own, Answered
  <2>2. Awaits /\ Own' = Own => Awaits'
    <3>1. Reported' => Reported
      BY <1>3 DEF Reported
    <3> QED BY <1>3, <3>1 DEF Awaits
  <2> QED BY <1>2, <2>1, <2>2 DEF Waits
<1> QED BY <1>1, <1>6, <1>7, <1>8, <1>9, <1>10, NewsOfOne

LEMMA RequestNews ==
  ASSUME Locked, TInv, DInv,
         \/ \E w \in Workers, i \in Ids, kind \in {"SET", "RESET"}, n \in Nets \cup {None} :
              NetCommand(w, i, kind, n)
         \/ \E w \in Tasks, kind \in {"SET", "RESET"}, n \in Nets \cup {None} :
              PortalRequest(w, kind, n)
         \/ \E w \in Workers : Scan(w)
         \/ ResetButton
  PROVE  DInv'
<1>0. /\ {"SET", "RESET", "LIST"} \subseteq Kinds /\ {"activate", "ssid", "radio"} \subseteq Steps
      /\ Loop \in Workers /\ Tasks \subseteq Workers
      /\ None \in Ids \cup {None} /\ None \in Nets \cup {None}
  BY DEF Kinds, Steps, Workers
<1>1. ASSUME NEW w \in Workers, NEW i \in Ids, NEW kind \in {"SET", "RESET"},
             NEW n \in Nets \cup {None}, NetCommand(w, i, kind, n)
      PROVE  DInv'
  <2>1. /\ Begin(w, kind, i, n, "activate") /\ ((kind = "RESET") = (n = None))
        /\ UNCHANGED <<device, world, active, answered, lastSt, at>>
        /\ ~sent[i].given /\ sent' = [sent EXCEPT ![i] = [given |-> TRUE, net |-> n]]
    BY <1>1 DEF NetCommand, loopVars
  <2>2. Reported'
    BY <2>1 DEF Begin, Reported, device
  <2> QED BY <1>0, <2>1, <2>2, BeginsNews
<1>2. ASSUME NEW w \in Tasks, NEW kind \in {"SET", "RESET"}, NEW n \in Nets \cup {None},
             PortalRequest(w, kind, n)
      PROVE  DInv'
  <2>1. /\ Begin(w, kind, None, n, "ssid")
        /\ UNCHANGED <<device, world, active, answered, lastSt, at, sent>>
    BY <1>2 DEF PortalRequest, loopVars, history
  <2>2. Reported'
    BY <2>1 DEF Begin, Reported, device
  <2> QED BY <1>0, <2>1, <2>2, BeginsNews
<1>3. ASSUME NEW w \in Workers, Scan(w) PROVE DInv'
  BY <1>0, <1>3, BeginsNews DEF Scan, history, loopVars
<1>4. CASE ResetButton
  <2>1. /\ Begin(Loop, "RESET", None, None, "ssid")
        /\ UNCHANGED <<device, world, active, answered, lastSt, at, sent>>
    BY <1>4 DEF ResetButton, loopVars, history
  <2>2. Reported'
    BY <2>1 DEF Begin, Reported, device
  <2> QED BY <1>0, <2>1, <2>2, BeginsNews
<1> QED BY <1>1, <1>2, <1>3, <1>4

(* A step of the job in hand, which is the only one.                          *)
LEMMA StepNews ==
  ASSUME TInv, LInv, DInv, NEW w \in Workers, Step(w)
  PROVE  DInv'
<1>0. job[w] # NoJob /\ job[w] \in Jobs /\ JobOK(job[w])
  BY Zenon DEF TInv, TypeOK, Step, Activate, WriteSsid, WritePsk, SaveFails, ChangeState, Stamp,
     SwitchRadio, Reply, InHand
<1>1. /\ \A o \in Workers : o # w => job[o] = NoJob
      /\ JobNews(job[w]) /\ LoopsOwn(w) /\ Given /\ DoneIsOwn
      /\ Seen(Starting(job[w])) /\ Waits(OwnJob(job[w])) /\ JobInv(job[w])
      /\ st = "CONNECTING" => last = shown \/ Resetting(job[w])
  BY <1>0, NewsInHand, InHandFacts
<1>2. \A s \in {"ssid", "psk", "state", "stamp", "radio", "answer"} : s \in Steps
  BY DEF Steps
<1>3. /\ job[w].kind \in Kinds /\ job[w].id \in Ids \cup {None}
      /\ \A a \in answered : a.id \in Ids
  BY <1>0, JobFields DEF TInv, TypeOK
<1>4. ASSUME NEW s \in Steps, Continue(w, s)
      PROVE  /\ job'[w] # NoJob /\ job'[w].kind = job[w].kind /\ job'[w].net = job[w].net
             /\ job'[w].id = job[w].id /\ job'[w].before = job[w].before
             /\ job'[w].step = s /\ \A o \in Workers : o # w => job'[o] = NoJob
  BY <1>0, <1>1, <1>4, Continued
<1>5. Finish(w) => \A o \in Workers : job'[o] = NoJob
  BY <1>1, Finished
<1>6. CASE Activate(w)
  <2>1. /\ job[w].step = "activate" /\ active' = job[w].id
        /\ UNCHANGED <<st, shown, age, link, at, lastSt, sent, answered>>
    BY <1>6 DEF Activate, InHand, device, world, loopVars
  <2>2. /\ job'[w] # NoJob /\ job'[w].kind = job[w].kind /\ job'[w].net = job[w].net
        /\ job'[w].id = job[w].id /\ job'[w].before = job[w].before
        /\ job'[w].step = "ssid" /\ \A o \in Workers : o # w => job'[o] = NoJob
    BY <1>2, <1>4, <1>6 DEF Activate
  <2>3. JobNews(job[w])' /\ LoopsOwn(w)'
    BY <1>1, <2>1, <2>2 DEF JobNews, LoopsOwn, Before, Reported
  <2>4. Seen(Starting(job[w]))'
    BY <1>1, <2>1 DEF JobNews, Before, Reported, Seen
  <2>5. Given' /\ DoneIsOwn'
    BY <1>1, <2>1 DEF Given, DoneIsOwn, Answered, JobNews
  <2>6. Waits(OwnJob(job[w]))'
    BY <1>1, <2>1, <2>2 DEF Waits, Live, Answered, OwnJob, JobNews
  <2> QED BY <2>2, <2>3, <2>4, <2>5, <2>6, NewsOfOne
<1>7. CASE WriteSsid(w) \/ WritePsk(w)
  <2> DEFINE s == IF WriteSsid(w) THEN "psk" ELSE "state"
  <2>1. /\ job[w].step \in {"ssid", "psk"} /\ s \in Steps /\ Continue(w, s) /\ s \in {"psk", "state"}
        /\ UNCHANGED <<st, shown, age, link, at, lastSt, active, sent, answered>>
    <3>1. CASE WriteSsid(w)
      BY <1>2, <3>1 DEF WriteSsid, InHand, device, world, loopVars, history
    <3>2. CASE ~WriteSsid(w)
      BY <1>2, <1>7, <3>2 DEF WritePsk, InHand, device, world, loopVars
    <3> QED BY <3>1, <3>2
  <2> HIDE DEF s
  <2>2. /\ job'[w] # NoJob /\ job'[w].kind = job[w].kind /\ job'[w].net = job[w].net
        /\ job'[w].id = job[w].id /\ job'[w].before = job[w].before
        /\ job'[w].step = s /\ \A o \in Workers : o # w => job'[o] = NoJob
    BY <1>4, <2>1
  <2>3. JobNews(job[w])' /\ LoopsOwn(w)'
    BY <1>1, <2>1, <2>2 DEF JobNews, LoopsOwn, Before, Reported
  <2>4. Seen(Starting(job[w]))'
    BY <1>1, <2>1 DEF JobNews, Before, Reported, Seen
  <2>5. /\ Given' /\ DoneIsOwn' /\ (Live' <=> Live) /\ Own' = Own
        /\ Answered(active, "DONE")' <=> Answered(active, "DONE")
    BY <1>1, <2>1, SameAnswers DEF Answered
  <2>6. Waits(OwnJob(job[w]))'
    BY <1>1, <2>1, <2>2, <2>5 DEF Waits, Awaits, Reported, OwnJob
  <2> QED BY <2>2, <2>3, <2>4, <2>5, <2>6, NewsOfOne
<1>8. CASE SaveFails(w)
  <2>1. /\ job[w].step = "psk" /\ Finish(w)
        /\ answered' = (IF job[w].id = None THEN answered
             ELSE answered \cup {[id |-> job[w].id, as |-> "ERR", st |-> st, net |-> None]})
        /\ UNCHANGED <<st, shown, age, link, at, lastSt, active, sent>>
    BY <1>8 DEF SaveFails, device, world, loopVars
  <2>2. /\ answered \subseteq answered'
        /\ \A a \in answered' \ answered :
             a.id = job[w].id /\ a.as = "ERR" /\ job[w].id # None
        /\ job[w].id # None => \E a \in answered' : a.id = job[w].id /\ a.as = "ERR"
    <3> DEFINE r == [id |-> job[w].id, as |-> "ERR", st |-> st, net |-> None]
    <3>1. r.id = job[w].id /\ r.as = "ERR"
      OBVIOUS
    <3>2. answered' = answered \/ (answered' = answered \cup {r} /\ job[w].id # None)
      BY <2>1
    <3>3. job[w].id # None => r \in answered'
      BY <2>1
    <3> HIDE DEF r
    <3>4. answered \subseteq answered' /\ \A a \in answered' \ answered : a = r /\ job[w].id # None
      BY <3>2
    <3> QED BY <3>1, <3>3, <3>4
  <2>3. Given'
    BY <1>1, <2>1, <2>2 DEF Given, JobNews
  <2>4. DoneIsOwn'
    <3>1. \A i : Answered(i, "ERR") => Answered(i, "ERR")'
      BY <2>2 DEF Answered
    <3>2. \A d \in answered' : d.as = "DONE" => d \in answered
      BY <2>2
    <3> QED BY <1>1, <2>1, <3>1, <3>2 DEF DoneIsOwn
  <2>5. Seen(FALSE)'
    BY <1>1, <2>1 DEF JobNews, Before, Reported, Seen
  <2>6. Waits(FALSE)'
    <3>1. Live' => Live /\ job[w].id # active
      BY <2>1, <2>2 DEF Live, Answered
    <3>2. Answered(active, "DONE")' => Answered(active, "DONE")
      BY <2>1, <2>2 DEF Answered
    <3> QED BY <1>1, <2>1, <3>1, <3>2 DEF Waits, OwnJob, Awaits, Own, Reported
  <2> QED BY <1>5, <2>1, <2>3, <2>4, <2>5, <2>6, NewsOfNone
<1>10. CASE Stamp(w)
  <2>1. /\ job[w].step = "stamp" /\ age' = 0
        /\ UNCHANGED <<st, shown, link, at, lastSt, active, sent, answered>>
    BY <1>10 DEF Stamp, InHand, world, loopVars, history
  <2>2. /\ job'[w] # NoJob /\ job'[w].kind = job[w].kind /\ job'[w].net = job[w].net
        /\ job'[w].id = job[w].id /\ job'[w].before = job[w].before
        /\ job'[w].step = "radio" /\ \A o \in Workers : o # w => job'[o] = NoJob
    BY <1>2, <1>4, <1>10 DEF Stamp
  <2>3. JobNews(job[w])' /\ LoopsOwn(w)'
    BY <1>1, <2>1, <2>2 DEF JobNews, LoopsOwn, Before, Reported
  <2>4. Seen(Starting(job[w]))'
    BY <1>1, <2>1, <2>2 DEF Seen, Fresh, Starting
  <2>5. /\ Given' /\ DoneIsOwn' /\ (Live' <=> Live) /\ Own' = Own
        /\ Answered(active, "DONE")' <=> Answered(active, "DONE")
    BY <1>1, <2>1, SameAnswers DEF Answered
  <2>6. Waits(OwnJob(job[w]))'
    BY <1>1, <2>1, <2>2, <2>5 DEF Waits, Awaits, Reported, OwnJob
  <2> QED BY <2>2, <2>3, <2>4, <2>5, <2>6, NewsOfOne
<1>11. CASE SwitchRadio(w)
  <2>1. /\ job[w].step = "radio" /\ link' = LinkAfter(job[w])
        /\ IF job[w].id = None THEN Finish(w) ELSE Continue(w, "answer")
        /\ UNCHANGED <<st, shown, age, at, lastSt, active, sent, answered>>
    BY <1>11 DEF SwitchRadio, InHand, loopVars, history
  <2>2. Seen(FALSE)'
    BY <1>1, <2>1 DEF Seen, Fresh, Starting, LinkAfter
  <2>3. /\ Given' /\ DoneIsOwn' /\ (Live' <=> Live) /\ Own' = Own
        /\ Answered(active, "DONE")' <=> Answered(active, "DONE")
    BY <1>1, <2>1, SameAnswers DEF Answered
  <2>4. CASE job[w].id = None
    <3>1. Waits(FALSE)'
      BY <1>1, <2>1, <2>3, <2>4 DEF Waits, Awaits, Reported, OwnJob, Live
    <3> QED BY <1>5, <2>1, <2>2, <2>3, <2>4, <3>1, NewsOfNone
  <2>5. CASE job[w].id # None
    <3>1. /\ job'[w] # NoJob /\ job'[w].kind = job[w].kind /\ job'[w].net = job[w].net
          /\ job'[w].id = job[w].id /\ job'[w].before = job[w].before
          /\ job'[w].step = "answer" /\ \A o \in Workers : o # w => job'[o] = NoJob
      BY <1>2, <1>4, <2>1, <2>5
    <3>2. JobNews(job[w])' /\ LoopsOwn(w)'
      BY <1>1, <2>1, <2>5, <3>1 DEF JobNews, LoopsOwn, JobInv, Before
    <3>3. Seen(Starting(job[w]))'
      BY <2>2 DEF Seen
    <3>4. Waits(OwnJob(job[w]))'
      BY <1>1, <2>1, <2>3, <3>1 DEF Waits, Awaits, Reported, OwnJob
    <3> QED BY <2>3, <3>1, <3>2, <3>3, <3>4, NewsOfOne
  <2> QED BY <2>4, <2>5
<1>9. CASE ChangeState(w)
  <2>1. /\ job[w].step = "state" /\ st' = Target(job[w])
        /\ shown' = (IF job[w].kind = "SET" THEN job[w].net ELSE last)
        /\ UNCHANGED <<age, link, at, lastSt, active, sent, answered>>
    BY <1>9 DEF ChangeState, InHand, world, loopVars
  <2> DEFINE s == IF job[w].kind = "SET" THEN "stamp" ELSE "radio"
  <2>2. /\ job'[w] # NoJob /\ job'[w].kind = job[w].kind /\ job'[w].net = job[w].net
        /\ job'[w].id = job[w].id /\ job'[w].before = job[w].before
        /\ job'[w].step = s /\ \A o \in Workers : o # w => job'[o] = NoJob
    <3>1. s \in Steps /\ Continue(w, s)
      BY <1>2, <1>9 DEF ChangeState
    <3> HIDE DEF s
    <3> QED BY <1>4, <3>1
  <2>3. job[w].kind # "LIST" /\ st = lastSt /\ at # "tell"
    BY <1>0, <1>1, <2>1 DEF JobOK, JobNews, Before, Reported
  <2>4. JobNews(job[w])' /\ LoopsOwn(w)'
    BY <1>1, <2>1, <2>2 DEF JobNews, LoopsOwn, Before
  <2>5. Seen(Starting(job[w]))'
    <3>1. st' = "CONNECTED" => at \in {"button", "look"}
      BY <1>1, <2>1 DEF Target, LoopsOwn
    <3>2. st' = "CONNECTING" => Starting(job[w])'
      <4>1. st' = "CONNECTING" => job[w].kind = "SET"
        BY <2>1 DEF Target
      <4> QED BY <2>2, <4>1 DEF Starting
    <3> QED BY <2>1, <2>3, <3>1, <3>2 DEF Seen
  <2>6. /\ Given' /\ DoneIsOwn' /\ (Live' <=> Live) /\ Own' = Own
        /\ Answered(active, "DONE")' <=> Answered(active, "DONE")
    BY <1>1, <2>1, SameAnswers DEF Answered
  <2>7. ASSUME Live PROVE Awaits' \/ OwnJob(job[w])'
    <3>0. active # None /\ (Awaits \/ OwnJob(job[w]))
      BY <1>1, <2>7 DEF Live, Waits
    <3>1. Awaits => st = "CONNECTING" /\ Own # None /\ shown = Own
      BY <2>3 DEF Awaits, Reported
    <3>2. OwnJob(job[w]) =>
            /\ Own = job[w].net /\ (job[w].kind = "RESET") = (job[w].net = None)
            /\ job[w].id = active /\ (job[w].kind = "RESET" => job[w].before = st)
      BY <1>1, <2>1, <3>0 DEF OwnJob, JobNews, Own, Before
    <3>3. CASE job[w].kind = "SET"
      <4>1. st # "CONNECTING" /\ st' = "CONNECTING" /\ shown' = job[w].net
        BY <1>1, <2>1, <3>3 DEF JobInv, Before, Target
      <4> QED BY <2>6, <3>0, <3>1, <3>2, <3>3, <4>1 DEF Awaits
    <3>4. CASE job[w].kind \in {"RESET", "FALL"}
      <4>1. st' = "AP"
        BY <2>1, <3>4 DEF Target
      <4>2. st # "AP" => Awaits'
        BY <2>1, <2>3, <4>1 DEF Awaits, Reported
      <4>3. st = "AP" => OwnJob(job[w]) /\ job[w].kind = "RESET"
        <5>1. job[w].kind = "FALL" => job[w].id = None
          BY <1>0 DEF JobOK
        <5> QED BY <3>0, <3>1, <3>2, <3>4, <5>1
      <4>4. st = "AP" => OwnJob(job[w])'
        BY <2>1, <2>2, <3>2, <4>1, <4>3 DEF OwnJob
      <4> QED BY <4>2, <4>4
    <3>5. CASE job[w].kind = "RISE"
      <4>1. job[w].id = None /\ st = "CONNECTING" /\ last = shown /\ st' = "CONNECTED"
        BY <1>0, <1>1, <2>1, <3>5 DEF JobOK, JobInv, Resetting, Target
      <4>2. shown' = Own /\ Own # None
        BY <2>1, <3>0, <3>1, <3>2, <3>5, <4>1
      <4> QED BY <2>1, <2>3, <2>6, <4>1, <4>2 DEF Awaits, Reported
    <3> QED BY <1>3, <2>3, <3>3, <3>4, <3>5 DEF Kinds
  <2>8. Waits(OwnJob(job[w]))'
    BY <1>1, <2>6, <2>7 DEF Waits
  <2> QED BY <2>2, <2>4, <2>5, <2>6, <2>8, NewsOfOne
<1>12. CASE Reply(w)
  <2> DEFINE r == [id |-> job[w].id, as |-> IF AnswerReset(job[w]) THEN "DONE" ELSE "ACK",
                   st |-> st, net |-> shown]
  <2>1. /\ job[w].step = "answer" /\ Finish(w) /\ answered' = answered \cup {r}
        /\ active' = ActiveAfter(job[w])
        /\ UNCHANGED <<st, shown, age, link, at, lastSt, sent>>
    BY <1>12 DEF Reply, InHand, device, world, loopVars
  <2>2. /\ r.id = job[w].id /\ r.st = st
        /\ r.as = (IF AnswerReset(job[w]) THEN "DONE" ELSE "ACK")
    OBVIOUS
  <2> HIDE DEF r
  <2>3. \A i : Answered(i, "ERR")' <=> Answered(i, "ERR")
    BY <2>1, <2>2 DEF Answered
  <2>4. /\ job[w].id # None /\ sent[job[w].id] = [given |-> TRUE, net |-> job[w].net]
        /\ AnswerReset(job[w]) => st = "AP" /\ job[w].net = None
    BY <1>1, <2>1 DEF JobNews, AnswerReset
  <2>5. Given'
    BY <1>1, <2>1, <2>2, <2>4 DEF Given, ActiveAfter
  <2>6. DoneIsOwn'
    <3>1. r.as = "DONE" => sent[r.id].net = None /\ r.st = "AP"
      BY <2>2, <2>4
    <3> QED BY <1>1, <2>1, <2>3, <3>1 DEF DoneIsOwn
  <2>7. Seen(FALSE)'
    BY <1>1, <2>1 DEF Seen, Fresh, Starting
  <2>8. Waits(FALSE)'
    <3>1. CASE AnswerReset(job[w])
      BY <2>1, <3>1 DEF ActiveAfter, Waits, Live
    <3>2. CASE ~AnswerReset(job[w])
      <4>1. active' = active /\ ~OwnJob(job[w])
        BY <2>1, <3>2 DEF ActiveAfter, OwnJob, AnswerReset
      <4>2. (Answered(active, "DONE")' <=> Answered(active, "DONE")) /\ (Live' <=> Live)
        BY <2>1, <2>2, <2>3, <3>2, <4>1 DEF Answered, Live
      <4> QED BY <1>1, <2>1, <4>1, <4>2 DEF Waits, Awaits, Own, Reported
    <3> QED BY <3>1, <3>2
  <2> QED BY <1>5, <2>1, <2>5, <2>6, <2>7, <2>8, NewsOfNone
<1> QED BY <1>6, <1>7, <1>8, <1>9, <1>10, <1>11, <1>12 DEF Step

(* A step of the loop or of the world that keeps the jobs.                    *)
LEMMA SameJobs ==
  ASSUME DInv, job' = job,
         \A w \in Workers : job[w] # NoJob => (JobNews(job[w]) => JobNews(job[w])') /\ LoopsOwn(w)',
         Seen(\E w \in Workers : job[w] # NoJob /\ Starting(job[w]))',
         UNCHANGED <<active, sent, answered, shown, st>>, Reported' => Reported
  PROVE  DInv'
<1>1. /\ Given' /\ DoneIsOwn' /\ (Live' <=> Live) /\ Own' = Own
      /\ Answered(active, "DONE")' <=> Answered(active, "DONE")
  BY SameAnswers DEF DInv, Answered
<1>2. \A w \in Workers : OwnJob(job[w])' <=> OwnJob(job[w])
  BY DEF OwnJob
<1>3. Awaits => Awaits'
  BY <1>1 DEF Awaits
<1>4. Waits(\E w \in Workers : job[w] # NoJob /\ OwnJob(job[w]))'
  BY <1>1, <1>2, <1>3 DEF DInv, Waits
<1> QED BY <1>1, <1>4 DEF DInv

LEMMA LoopNews ==
  ASSUME Locked, TInv, DInv, SerialDone \/ NetLoop \/ ButtonUp \/ Look \/ Tell
  PROVE  DInv'
<1>0. /\ Seen(\E w \in Workers : job[w] # NoJob /\ Starting(job[w]))
      /\ \A w \in Workers : job[w] # NoJob => JobNews(job[w]) /\ LoopsOwn(w)
      /\ Loop \in Workers
  BY DEF DInv, Workers
<1>1. ASSUME NetLoop, Transition # None PROVE DInv'
  <2>1. /\ Begin(Loop, Transition, None, None, "state") /\ at = "net" /\ at' = "button"
        /\ UNCHANGED <<device, world, active, answered, lastSt, sent>>
    BY <1>1 DEF NetLoop, Move, Next_, history
  <2>2. Transition \in {"FALL", "RISE"} /\ st # "AP" /\ (st = "CONNECTING" => TimedOut \/ link)
    BY <1>1 DEF Transition
  <2>3. /\ {"FALL", "RISE"} \subseteq Kinds /\ "state" \in Steps
        /\ None \in Ids \cup {None} /\ None \in Nets \cup {None}
    BY DEF Kinds, Steps
  <2> HIDE DEF Transition
  <2>4. \A w \in Workers : job[w] = NoJob
    BY <2>1 DEF Begin
  <2>5. Reported'
    <3>1. st \in States /\ ~(Fresh /\ (TimedOut \/ link))
      BY OnboardingAssumption DEF Fresh, TimedOut, TInv, TypeOK
    <3>2. st = lastSt
      BY <1>0, <2>1, <2>2, <2>4, <3>1 DEF Seen, States
    <3> QED BY <2>1, <3>2 DEF Reported, device
  <2>6. Transition \in Kinds
    BY <2>2, <2>3
  <2> QED BY <1>0, <2>1, <2>2, <2>3, <2>5, <2>6, BeginsNews
<1>2. CASE (NetLoop /\ Transition = None) \/ SerialDone \/ ButtonUp
  <2>1. /\ job' = job /\ job[Loop] = NoJob /\ at' = Next_[at] /\ at \in {"serial", "net", "button"}
        /\ UNCHANGED <<active, sent, answered, shown, st, lastSt, age, link>>
    BY <1>2 DEF NetLoop, SerialDone, ButtonUp, Move, device, world, history
  <2>2. at' # "tell" /\ (at = "button" => at' = "look")
    BY <2>1 DEF Next_
  <2>3. \A w \in Workers : job[w] # NoJob => (JobNews(job[w]) => JobNews(job[w])') /\ LoopsOwn(w)'
    BY <1>0, <2>1, <2>2 DEF JobNews, Reported, LoopsOwn
  <2>4. Seen(\E w \in Workers : job[w] # NoJob /\ Starting(job[w]))'
    BY <1>0, <2>1, <2>2 DEF Seen, Fresh, Starting
  <2>5. Reported' => Reported
    BY <2>1, <2>2 DEF Reported
  <2> QED BY <2>1, <2>3, <2>4, <2>5, SameJobs
<1>3. CASE Look
  <2>1. /\ job' = job /\ at = "look" /\ at' = (IF st # lastSt THEN "tell" ELSE "serial") /\ lastSt' = st
        /\ UNCHANGED <<active, sent, answered, shown, st, age, link>>
    BY <1>3 DEF Look, device, world, history
  <2>2. \A w \in Workers : job[w] # NoJob => (JobNews(job[w]) => JobNews(job[w])') /\ LoopsOwn(w)'
    BY <1>0, <2>1 DEF JobNews, Reported, LoopsOwn
  <2>3. Seen(\E w \in Workers : job[w] # NoJob /\ Starting(job[w]))'
    BY <2>1 DEF Seen
  <2>4. Reported' => Reported
    BY <2>1 DEF Reported
  <2> QED BY <2>1, <2>2, <2>3, <2>4, SameJobs
<1>4. CASE Tell
  <2>1. /\ job' = job /\ at = "tell" /\ at' = "serial" /\ st = lastSt
        /\ UNCHANGED <<sent, shown, st, lastSt, age, link>>
    BY <1>0, <1>4 DEF Tell, Move, Next_, device, world, Seen
  <2>2. \A w \in Workers : job[w] # NoJob => ~Before(job[w]) /\ job[w].kind \notin {"FALL", "RISE"}
    BY <1>0, <2>1 DEF JobNews, Reported, LoopsOwn
  <2>3. \A w \in Workers : job[w] # NoJob => JobNews(job[w])' /\ LoopsOwn(w)'
    BY <1>0, <2>1, <2>2 DEF JobNews, Before, LoopsOwn
  <2>4. Seen(\E w \in Workers : job[w] # NoJob /\ Starting(job[w]))'
    BY <2>1 DEF Seen
  <2>5. Live => ~Answered(active, "DONE")
                /\ \/ st = "AP" /\ ~Reported
                   \/ Own # None /\ shown = Own
                   \/ st = "AP" /\ Own = None
    <3>1. ASSUME NEW w \in Workers, job[w] # NoJob, OwnJob(job[w]), active # None
          PROVE  st = "AP" /\ Own = None
      <4>1. st = "AP" /\ job[w].kind = "RESET" /\ job[w].id = active
        BY <2>2, <3>1 DEF OwnJob, Before
      <4>2. sent[job[w].id] = [given |-> TRUE, net |-> job[w].net] /\ job[w].net = None
        BY <1>0, <3>1, <4>1 DEF JobNews
      <4> QED BY <4>1, <4>2 DEF Own
    <3>2. Live => ~Answered(active, "DONE")
                  /\ (Awaits \/ \E w \in Workers : job[w] # NoJob /\ OwnJob(job[w]))
      BY DEF DInv, Waits
    <3>3. Live => active # None
      BY DEF Live
    <3> QED BY <3>1, <3>2, <3>3 DEF Awaits
  <2>6. CASE active # None /\ EndsCommand
    <3> DEFINE r == [id |-> active, as |-> "DONE", st |-> lastSt, net |-> shown]
    <3>1. answered' = answered \cup {r} /\ active' = None
      BY <1>4, <2>6 DEF Tell
    <3>2. r.id = active /\ r.as = "DONE" /\ r.st = st /\ r.net = shown
      BY <2>1
    <3> HIDE DEF r
    <3>3. \A i : Answered(i, "ERR")' <=> Answered(i, "ERR")
      BY <3>1, <3>2 DEF Answered
    <3>4. Given'
      BY <2>1, <2>6, <3>1, <3>2 DEF DInv, Given
    <3>5. ~Answered(r.id, "ERR") =>
            IF sent[r.id].net = None THEN r.st = "AP"
            ELSE r.st = "CONNECTED" => r.net = sent[r.id].net
      BY <2>5, <2>6, <3>2 DEF Live, Own
    <3>6. DoneIsOwn'
      BY <2>1, <3>1, <3>3, <3>5 DEF DInv, DoneIsOwn
    <3>7. Waits(\E w \in Workers : job[w] # NoJob /\ OwnJob(job[w]))'
      BY <3>1 DEF Waits, Live
    <3> QED BY <2>1, <2>3, <2>4, <3>4, <3>6, <3>7 DEF DInv
  <2>7. CASE ~(active # None /\ EndsCommand)
    <3>1. UNCHANGED <<active, answered>>
      BY <1>4, <2>7 DEF Tell
    <3>2. /\ Given' /\ DoneIsOwn' /\ (Live' <=> Live) /\ Own' = Own
          /\ Answered(active, "DONE")' <=> Answered(active, "DONE")
      BY <2>1, <3>1, SameAnswers DEF DInv, Answered
    <3>3. Live => st = "CONNECTING"
      BY <2>1, <2>7 DEF Live, EndsCommand
    <3>4. Waits(\E w \in Workers : job[w] # NoJob /\ OwnJob(job[w]))'
      <4>1. Live => Awaits'
        BY <2>1, <2>5, <3>2, <3>3 DEF Awaits
      <4>2. Live => ~Answered(active, "DONE")
        BY <2>5
      <4> QED BY <3>2, <4>1, <4>2 DEF Waits
    <3> QED BY <2>1, <2>3, <2>4, <3>2, <3>4 DEF DInv
  <2> QED BY <2>6, <2>7
<1> QED BY <1>1, <1>2, <1>3, <1>4

LEMMA WorldNews == ASSUME DInv, Associate \/ LoseLink \/ Elapse \/ PowerCycle PROVE DInv'
<1>1. CASE Associate \/ LoseLink \/ Elapse
  <2>1. /\ UNCHANGED <<active, sent, answered, shown, st, at, lastSt>> /\ job' = job
        /\ st = lastSt \/ (~link' /\ age' = age)
    BY <1>1 DEF Associate, LoseLink, Elapse, LoopKeepsUp, device, loopVars, history
  <2>2. \A w \in Workers : job[w] # NoJob => (JobNews(job[w]) => JobNews(job[w])') /\ LoopsOwn(w)'
    BY <2>1 DEF DInv, JobNews, Reported, LoopsOwn
  <2>3. Seen(\E w \in Workers : job[w] # NoJob /\ Starting(job[w]))'
    BY <2>1 DEF DInv, Seen, Fresh, Starting
  <2>4. Reported' => Reported
    BY <2>1 DEF Reported
  <2> QED BY <2>1, <2>2, <2>3, <2>4, SameJobs
<1>2. CASE PowerCycle
  <2>1. /\ lastSt' = st' /\ answered' = {} /\ active' = None
        /\ \A w \in Workers : job'[w] = NoJob
    BY <1>2 DEF PowerCycle, Boot
  <2>2. Seen(FALSE)' /\ Waits(FALSE)' /\ Given' /\ DoneIsOwn'
    BY <2>1 DEF Seen, Waits, Live, Given, DoneIsOwn
  <2> QED BY <2>1, <2>2, NewsOfNone
<1> QED BY <1>1, <1>2

LEMMA NextDInv == Locked /\ TInv /\ LInv /\ DInv /\ [Next]_vars => DInv'
<1> SUFFICES ASSUME Locked, TInv, LInv, DInv, [Next]_vars PROVE DInv'
  OBVIOUS
<1>1. CASE UNCHANGED vars
  <2>1. /\ UNCHANGED <<active, sent, answered, shown, st, at, lastSt, age, link>> /\ job' = job
    BY <1>1 DEF vars, device, world, loopVars, history
  <2>2. \A w \in Workers : job[w] # NoJob => (JobNews(job[w]) => JobNews(job[w])') /\ LoopsOwn(w)'
    BY <2>1 DEF DInv, JobNews, Reported, LoopsOwn
  <2>3. Seen(\E w \in Workers : job[w] # NoJob /\ Starting(job[w]))'
    BY <2>1 DEF DInv, Seen, Fresh, Starting
  <2>4. Reported' => Reported
    BY <2>1 DEF Reported
  <2> QED BY <2>1, <2>2, <2>3, <2>4, SameJobs
<1>2. CASE Next
  <2>1. CASE LoopStep
    BY <2>1, LoopNews, StepNews DEF LoopStep, Workers
  <2>2. ASSUME NEW w \in Tasks, Step(w) PROVE DInv'
    BY <2>2, StepNews DEF Workers
  <2> QED BY <1>2, <2>1, <2>2, RequestNews, WorldNews DEF Next
<1> QED BY <1>1, <1>2

(* A DONE that the loop sends under the active id reports the command of that   *)
(* id: a SET never the network of another request, a RESET never a connection,  *)
(* also where the portal, the reset button, timeouts, lost links and losses of  *)
(* power come between (loop of main.cpp, the NET handlers).                    *)
THEOREM DoneReportsItsOwn == ASSUME Locked PROVE Spec => []DoneIsOwn
<1>1. TInv /\ LInv /\ DInv /\ [Next]_vars => TInv' /\ LInv' /\ DInv'
  BY NextTInv, NextLInv, NextDInv
<1>2. DInv => DoneIsOwn
  BY DEF DInv
<1> QED BY <1>1, <1>2, InitTInv, InitLInv, InitDInv, PTL DEF Spec
=============================================================================

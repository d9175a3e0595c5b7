---------------------------- MODULE PresenceProofs ----------------------------
(***************************************************************************)
(* Proofs about the MQTT connection and the stored settings, for any        *)
(* fields, values, back-off and number of updates, with writes that fail    *)
(* and callbacks at any moment.                                             *)
(***************************************************************************)
EXTENDS Presence, SequenceTheorems, TLAPS

-----------------------------------------------------------------------------
(* The store.                                                               *)

(* What an update has still to write is the end of the list of keys; the       *)
(* fields before it say what it wrote, the others what the RAM copy says,      *)
(* unless a write failed or power did.                                       *)
Left ==
  /\ toWrite \in Seq(Fields) /\ Len(toWrite) <= Len(Keys)
  /\ \A i \in 1..Len(toWrite) : toWrite[i] = Keys[Len(Keys) - Len(toWrite) + i]

Waiting == {toWrite[i] : i \in 1..Len(toWrite)}

Kept == intended # Unknown =>
          \A f \in Fields : flash[f] = IF toWrite # <<>> /\ f \notin Waiting
                                       THEN merged[f] ELSE current[f]

StoreInv ==
  /\ current \in Configs /\ flash \in Configs /\ merged \in Configs
  /\ revision \in 0..MaxUpdates
  /\ intended \in Configs \cup {Unknown}
  /\ toWrite # <<>> => revision < MaxUpdates
  /\ Left /\ OldOrNew /\ Kept

LEMMA KeysAreFields ==
  /\ Keys \in Seq(Fields) /\ Len(Keys) \in Nat
  /\ \A f \in Fields : \E i \in 1..Len(Keys) : f = Keys[i]
  /\ \A i, j \in 1..Len(Keys) : Keys[i] = Keys[j] => i = j
<1>1. Keys \in Seq(STRING) /\ Len(Keys) \in Nat /\ DOMAIN Keys = 1..Len(Keys)
  BY StoreAssumption
<1>2. \A i \in 1..Len(Keys) : Keys[i] \in Fields
  BY <1>1 DEF Fields, ToSet
<1>3. Keys \in Seq(Fields)
  BY <1>1, <1>2, SeqDef
<1> QED BY <1>1, <1>3, StoreAssumption DEF Fields, ToSet, IsInjective

LEMMA StoreInitInv == StoreInit => StoreInv
<1> SUFFICES ASSUME StoreInit PROVE StoreInv
  OBVIOUS
<1>1. Default \in Values /\ Defaults \in Configs
  BY DEF Values, Defaults, Configs
<1>2. Left
  BY KeysAreFields DEF StoreInit, Left
<1> QED BY <1>1, <1>2, StoreAssumption DEF StoreInit, StoreInv, OldOrNew, Kept

LEMMA BeginKeeps ==
  ASSUME StoreInv, NEW u \in Updates, BeginUpdate(u)
  PROVE  StoreInv'
<1>1. merged' \in Configs
  BY DEF BeginUpdate, Merged, Updates, Configs, StoreInv
<1>2. Left'
  BY KeysAreFields DEF BeginUpdate, Left
<1>3. \A f \in Fields : f \in Waiting'
  BY KeysAreFields DEF BeginUpdate, Waiting
<1>4. Kept'
  <2> SUFFICES ASSUME intended' # Unknown, NEW f \in Fields
               PROVE  flash'[f] = IF toWrite' # <<>> /\ f \notin Waiting'
                                  THEN merged'[f] ELSE current'[f]
    BY DEF Kept
  <2> QED BY <1>3 DEF BeginUpdate, StoreInv, Kept
<1> QED BY <1>1, <1>2, <1>4 DEF BeginUpdate, StoreInv, OldOrNew

LEMMA WriteKeeps ==
  ASSUME StoreInv, NEW written \in BOOLEAN, WriteKey(written)
  PROVE  StoreInv'
<1> DEFINE n == Len(toWrite)
           first == Head(toWrite)
<1>0. Len(Keys) \in Nat
  BY KeysAreFields
<1>1. n \in Nat \ {0} /\ toWrite \in Seq(Fields) /\ n <= Len(Keys)
  BY DEF WriteKey, StoreInv, Left
<1>2. /\ first = toWrite[1] /\ first \in Fields
      /\ toWrite' = Tail(toWrite) /\ toWrite' \in Seq(Fields) /\ Len(toWrite') = n - 1
      /\ \A i \in 1..(n - 1) : toWrite'[i] = toWrite[i + 1]
  BY <1>1, HeadTailProperties DEF WriteKey, KeysLeft
<1>3. Left'
  <2>1. ASSUME NEW i \in 1..(n - 1)
        PROVE  toWrite'[i] = Keys[Len(Keys) - (n - 1) + i]
    <3>1. i + 1 \in 1..n /\ Len(Keys) - n + (i + 1) = Len(Keys) - (n - 1) + i
      BY <1>0, <1>1
    <3> QED BY <1>2, <3>1 DEF StoreInv, Left
  <2>2. n - 1 <= Len(Keys)
    BY <1>0, <1>1
  <2> HIDE DEF n
  <2>3. 1..Len(toWrite') = 1..(n - 1)
    BY <1>2
  <2> QED BY <1>2, <2>1, <2>2, <2>3 DEF Left
<1>4. \A f \in Fields : f \in Waiting' <=> f \in Waiting /\ f # first
  <2>1. \A i, j \in 1..n : toWrite[i] = toWrite[j] => i = j
    <3> SUFFICES ASSUME NEW i \in 1..n, NEW j \in 1..n, toWrite[i] = toWrite[j]
                 PROVE  i = j
      OBVIOUS
    <3>1. Keys[Len(Keys) - n + i] = Keys[Len(Keys) - n + j]
      BY DEF StoreInv, Left
    <3> HIDE DEF n
    <3>2. Len(Keys) - n + i \in 1..Len(Keys) /\ Len(Keys) - n + j \in 1..Len(Keys)
      BY <1>0, <1>1
    <3>3. Len(Keys) - n + i = Len(Keys) - n + j
      BY <3>1, <3>2, KeysAreFields
    <3> QED BY <1>0, <1>1, <3>3
  <2>2. ASSUME NEW f \in Waiting' PROVE f \in Waiting /\ f # first
    <3>1. PICK i \in 1..(n - 1) : f = toWrite[i + 1]
      BY <1>2, <2>2 DEF Waiting
    <3>2. i + 1 \in 1..n /\ 1 \in 1..n /\ i + 1 # 1
      BY <1>1
    <3> QED BY <1>2, <2>1, <3>1, <3>2 DEF Waiting
  <2>3. ASSUME NEW f \in Waiting, f # first PROVE f \in Waiting'
    <3>1. PICK i \in 1..n : f = toWrite[i]
      BY <2>3 DEF Waiting
    <3>2. i - 1 \in 1..(n - 1) /\ i = (i - 1) + 1
      BY <1>1, <1>2, <2>3, <3>1
    <3> QED BY <1>2, <3>1, <3>2 DEF Waiting
  <2> QED BY <2>2, <2>3
<1>5. flash' \in Configs /\ (written => \A f \in Fields :
                               flash'[f] = IF f = first THEN merged[f] ELSE flash[f])
  BY <1>2 DEF WriteKey, StoreInv, Configs
<1>6. first \in Waiting
  BY <1>1, <1>2 DEF Waiting
<1>7. CASE toWrite' = <<>>
  <2>1. Waiting' = {}
    BY <1>7 DEF Waiting
  <2>2. current' = merged /\ revision' = revision + 1 /\ merged' = Defaults
    BY <1>2, <1>7 DEF WriteKey, KeysLeft
  <2>3. Defaults \in Configs
    BY DEF Defaults, Configs, Values
  <2>4. intended' # Unknown => written /\ intended # Unknown /\ intended' = merged
    BY <1>2, <1>7 DEF WriteKey, KeysLeft
  <2>5. Kept'
    <3> SUFFICES ASSUME intended' # Unknown, NEW f \in Fields PROVE flash'[f] = current'[f]
      BY <1>7 DEF Kept
    <3>1. f # first => f \notin Waiting
      BY <1>4, <2>1
    <3> QED BY <1>1, <1>5, <2>2, <2>4, <3>1 DEF StoreInv, Kept
  <2>6. revision' \in 0..MaxUpdates
    BY <1>1, <2>2, StoreAssumption DEF StoreInv, WriteKey
  <2>7. OldOrNew' /\ intended' \in Configs \cup {Unknown}
    BY <2>2, <2>4 DEF StoreInv, OldOrNew
  <2> QED BY <1>3, <1>5, <1>7, <2>2, <2>3, <2>5, <2>6, <2>7 DEF StoreInv
<1>8. CASE toWrite' # <<>>
  <2>1. UNCHANGED <<current, revision, merged>>
    BY <1>2, <1>8 DEF WriteKey, KeysLeft
  <2>2. intended' # Unknown => written /\ intended' = intended
    BY <1>2, <1>8 DEF WriteKey, KeysLeft
  <2>3. Kept'
    <3> SUFFICES ASSUME intended' # Unknown, NEW f \in Fields
                 PROVE  flash'[f] = IF f \notin Waiting' THEN merged'[f] ELSE current'[f]
      BY <1>8 DEF Kept
    <3> QED BY <1>1, <1>4, <1>5, <1>6, <2>1, <2>2 DEF StoreInv, Kept
  <2> QED BY <1>3, <1>5, <2>1, <2>2, <2>3 DEF StoreInv, OldOrNew, WriteKey
<1> QED BY <1>7, <1>8

LEMMA ReloadKeeps ==
  ASSUME StoreInv, Reload
  PROVE  StoreInv'
<1>1. Defaults \in Configs
  BY DEF Defaults, Configs, Values
<1>2. Left'
  BY KeysAreFields DEF Reload, Left
<1>3. intended' # Unknown => intended' = intended /\ flash = current
  <2> SUFFICES ASSUME intended' # Unknown PROVE intended' = intended /\ flash = current
    OBVIOUS
  <2>1. intended' = intended /\ toWrite \in {<<>>, Keys}
    BY DEF Reload
  <2>2. toWrite = Keys => \A f \in Fields : f \in Waiting
    BY KeysAreFields DEF Waiting
  <2>3. \A f \in Fields : flash[f] = current[f]
    BY <2>1, <2>2 DEF StoreInv, Kept
  <2> QED BY <2>1, <2>3 DEF StoreInv, Configs
<1>4. OldOrNew' /\ Kept'
  BY <1>3 DEF Reload, StoreInv, OldOrNew, Kept
<1> QED BY <1>1, <1>2, <1>4, StoreAssumption DEF Reload, StoreInv

-----------------------------------------------------------------------------
(* The connection.                                                          *)

(* The loop never notes a revision that is yet to come; one it has noted, or   *)
(* is about to, was applied.                                                *)
Noted ==
  /\ seen <= revision /\ read <= revision
  /\ at \in {"apply", "note"} => seen < revision
  /\ at \notin {"apply", "note"} /\ seen = revision => server = current
  /\ at = "note" /\ read = revision => server = current

(* A session that is, or will be, up has the settings given to the library.    *)
SessionInv == client \in {"trying", "up"} /\ ~crossed => session = server

IInv == TypeOK /\ StoreInv /\ Noted /\ SessionInv

LEMMA InitIInv == Init => IInv
<1> SUFFICES ASSUME Init PROVE IInv
  OBVIOUS
<1>1. StoreInv
  BY StoreInitInv DEF Init
<1>2. Defaults \in Configs /\ 0 \in 0..MaxUpdates /\ InitialDelay \in InitialDelay..MaxDelay
      /\ 0 \in 0..MaxDelay
  BY StoreAssumption, PresenceAssumption DEF Defaults, Configs, Values
<1>3. StoreTypeOK
  BY <1>1 DEF StoreInv, StoreTypeOK, Left
<1>4. TypeOK
  BY <1>2, <1>3 DEF Init, TypeOK
<1>5. Noted
  BY DEF Init, StoreInit, Noted
<1>6. SessionInv
  BY DEF Init, SessionInv
<1> QED BY <1>1, <1>4, <1>5, <1>6 DEF IInv

(* What the connection does leaves the store alone.                            *)
LEMMA StoreAlone ==
  ASSUME StoreInv, UNCHANGED storeVars
  PROVE  StoreInv' /\ StoreTypeOK'
BY DEF StoreInv, storeVars, StoreTypeOK, Left, Waiting, OldOrNew, Kept

(* One pass of the loop.                                                     *)
LEMMA LoopKeeps == ASSUME IInv, LoopStep PROVE IInv'
<1> USE DEF IInv, TypeOK, Noted, SessionInv, passVars, linkVars, retryVars, readyVars
<1>0. StoreInv' /\ StoreTypeOK' /\ UNCHANGED <<current, revision>>
  <2>1. UNCHANGED storeVars
    BY DEF LoopStep, ReadRevision, ApplyConfig, NoteRevision, Announce, Offline, Connect, Mark, Pass
  <2> QED BY <2>1, StoreAlone DEF storeVars
<1>a. 0 \in 0..MaxUpdates /\ InitialDelay \in InitialDelay..MaxDelay /\ 0 \in 0..MaxDelay
      /\ revision \in 0..MaxUpdates /\ MaxUpdates \in Nat
  BY StoreAssumption, PresenceAssumption DEF StoreInv
<1>1. CASE ReadRevision
  BY <1>0, <1>1, <1>a DEF ReadRevision
<1>2. CASE ApplyConfig
  BY <1>0, <1>2, <1>a DEF ApplyConfig, Calm, StoreInv
<1>3. CASE NoteRevision
  BY <1>0, <1>3, <1>a DEF NoteRevision, SeenRead
<1>4. CASE \E accepted \in BOOLEAN : Announce(accepted)
  <2>1. due' \in BOOLEAN /\ ready' \in BOOLEAN
    BY <1>4, Zenon DEF Announce
  <2>2. /\ at = "ready" /\ at' = "net"
        /\ UNCHANGED <<linkVars, seen, read, retryVars, present, crossed>>
    BY <1>4 DEF Announce
  <2> QED BY <1>0, <2>1, <2>2
<1>5. CASE Offline
  BY <1>0, <1>5, <1>a DEF Offline, Calm
<1>6. CASE Connect
  BY <1>0, <1>6, <1>a DEF Connect
<1>7. CASE Mark
  BY <1>0, <1>7, <1>a DEF Mark
<1>8. CASE Pass
  BY <1>0, <1>8, <1>a DEF Pass
<1> QED BY <1>1, <1>2, <1>3, <1>4, <1>5, <1>6, <1>7, <1>8 DEF LoopStep

(* The callbacks, and the network and time.                                   *)
LEMMA CallbacksKeep ==
  ASSUME IInv, OnConnect \/ OnDisconnect \/ ScheduleReconnect \/ NetChanges \/ Elapse
  PROVE  IInv'
<1> USE DEF IInv, TypeOK, Noted, SessionInv, passVars, linkVars, retryVars, readyVars
<1>0. StoreInv' /\ StoreTypeOK' /\ UNCHANGED <<current, revision>>
  <2>1. UNCHANGED storeVars
    BY DEF OnConnect, OnDisconnect, ScheduleReconnect, NetChanges, Elapse
  <2> QED BY <2>1, StoreAlone DEF storeVars
<1>a. InitialDelay \in InitialDelay..MaxDelay /\ 0 \in 0..MaxDelay
      /\ InitialDelay \in Nat /\ MaxDelay \in Nat /\ Defaults \in Configs
  BY PresenceAssumption DEF Defaults, Configs, Values
<1>1. CASE OnConnect
  BY <1>0, <1>1, <1>a DEF OnConnect, DueOnConnect
<1>2. CASE OnDisconnect
  BY <1>0, <1>2, <1>a DEF OnDisconnect
<1>3. CASE ScheduleReconnect
  <2>1. NextDelay \in InitialDelay..MaxDelay
    BY <1>a DEF NextDelay
  <2>2. delay' \in InitialDelay..MaxDelay /\ wait' \in 0..MaxDelay
    BY <1>3, <1>a, <2>1 DEF ScheduleReconnect
  <2>3. lost' = FALSE /\ UNCHANGED <<linkVars, passVars, attempted, readyVars, crossed>>
    BY <1>3 DEF ScheduleReconnect
  <2>4. TypeOK'
    BY <1>0, <2>2, <2>3
  <2>5. Noted' /\ SessionInv'
    BY <1>0, <2>3
  <2> QED BY <1>0, <2>4, <2>5
<1>4. CASE NetChanges
  BY <1>0, <1>4 DEF NetChanges
<1>5. CASE Elapse
  BY <1>0, <1>5, <1>a DEF Elapse
<1> QED BY <1>1, <1>2, <1>3, <1>4, <1>5

(* Updates and losses of power.                                               *)
LEMMA WorldKeeps == ASSUME IInv, UpdateSettings \/ PowerCycle PROVE IInv'
<1>1. CASE UpdateSettings
  <2>1. StoreInv'
    BY <1>1, BeginKeeps, WriteKeeps DEF UpdateSettings, StoreStep, IInv
  <2>2. StoreTypeOK'
    BY <2>1 DEF StoreInv, StoreTypeOK, Left
  <2>3. (revision' = revision /\ current' = current) \/ revision' = revision + 1
    BY <1>1 DEF UpdateSettings, BeginUpdate, StoreStep, WriteKey
  <2>4. revision \in Nat /\ seen \in Nat /\ read \in Nat
    BY StoreAssumption DEF IInv, StoreInv, TypeOK
  <2> QED BY <1>1, <2>1, <2>2, <2>3, <2>4
          DEF UpdateSettings, IInv, TypeOK, Noted, SessionInv, passVars, linkVars, retryVars, readyVars
<1>2. CASE PowerCycle
  <2>1. StoreInv'
    BY <1>2, ReloadKeeps DEF PowerCycle, IInv
  <2>2. StoreTypeOK'
    BY <2>1 DEF StoreInv, StoreTypeOK, Left
  <2>3. Defaults \in Configs /\ 0 \in 0..MaxUpdates /\ InitialDelay \in InitialDelay..MaxDelay
        /\ 0 \in 0..MaxDelay /\ flash \in Configs
    BY StoreAssumption, PresenceAssumption DEF Defaults, Configs, Values, IInv, StoreInv
  <2>4. TypeOK'
    BY <1>2, <2>2, <2>3 DEF PowerCycle, TypeOK
  <2>5. Noted'
    BY <1>2 DEF PowerCycle, Reload, Noted
  <2>6. SessionInv'
    BY <1>2 DEF PowerCycle, SessionInv
  <2> QED BY <2>1, <2>4, <2>5, <2>6 DEF IInv
<1> QED BY <1>1, <1>2

LEMMA NextIInv == IInv /\ [Next]_vars => IInv'
<1> SUFFICES ASSUME IInv, [Next]_vars PROVE IInv'
  OBVIOUS
<1>1. CASE UNCHANGED vars
  <2>1. StoreInv' /\ StoreTypeOK'
    BY <1>1, StoreAlone DEF IInv, vars
  <2> QED BY <1>1, <2>1
          DEF vars, storeVars, passVars, linkVars, retryVars, readyVars, IInv, TypeOK, Noted, SessionInv
<1>2. CASE Next
  BY <1>2, LoopKeeps, CallbacksKeep, WorldKeeps DEF Next
<1> QED BY <1>1, <1>2

(* The revision noted, the session and what memory, flash and the rest of an   *)
(* update hold are as IInv says in every behaviour (MqttPresenceClient::loop,  *)
(* MqttConfigStore::persistLocked).                                          *)
THEOREM Inductive == Spec => []IInv
BY InitIInv, NextIInv, PTL DEF Spec

(* Settings, connection and revision keep to their ranges; the back-off stays   *)
(* between its first and its longest delay (scheduleReconnect).               *)
THEOREM TypeCorrect == Spec => []TypeOK
<1>1. IInv => TypeOK
  BY DEF IInv
<1> QED BY <1>1, Inductive, PTL

(* The node runs on the settings of the last completed update, a failed write   *)
(* or a loss of power between two keys apart (persistLocked, loadLocked).      *)
THEOREM NeverMixed == Spec => []OldOrNew
<1>1. IInv => OldOrNew
  BY DEF IInv, StoreInv
<1> QED BY <1>1, Inductive, PTL

(* A connection that is up is one to the settings the loop has seen, if they    *)
(* did not change in the middle of its attempt (maybeRefreshBrokerConfig).     *)
THEOREM SettingsFollowed == Spec => []FollowsSettings
<1>1. IInv => FollowsSettings
  BY DEF IInv, Noted, SessionInv, FollowsSettings
<1> QED BY <1>1, Inductive, PTL
===============================================================================

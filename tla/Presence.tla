------------------------------- MODULE Presence -------------------------------
(***************************************************************************)
(* The MQTT connection: lib/mqtt_presence/src/MqttPresenceClient.cpp, with  *)
(* the settings of ConfigStore it follows.  The loop task starts attempts  *)
(* and watches the settings; the client's callbacks run on its own task,   *)
(* between any two steps of the loop.                                       *)
(***************************************************************************)
EXTENDS ConfigStore

CONSTANTS
  InitialDelay, MaxDelay,  \* the back-off, in units of time
  MarkedInTime             \* FALSE: the code.  TRUE: no callback of an attempt
                           \* runs before the loop has marked the attempt

ASSUME PresenceAssumption ==
  /\ InitialDelay \in Nat \ {0} /\ MaxDelay \in Nat /\ InitialDelay <= MaxDelay
  /\ MarkedInTime \in BOOLEAN

VARIABLES
  net,        \* the network state is CONNECTED
  client,     \* the library: "down", "trying", "up", "closing"
  session,    \* settings of the attempt or connection; without one Defaults
  server,     \* broker_host_ and the others, given to setServer
  seen,       \* last_config_revision_
  at,         \* where the loop is in its pass
  read,       \* the revision it has read
  attempted,  \* connect_attempted_
  wait,       \* time to next_reconnect_ms_; 0: none
  delay,      \* reconnect_backoff_ms_
  lost,       \* onDisconnect has yet to schedule the next attempt
  present,    \* logic_.connected_
  due,        \* logic_.publish_pending_ or immediate_requested_
  ready,      \* history: the broker shows this session as ready
  crossed     \* history: the settings changed in the middle of an attempt

linkVars == <<net, client, session, server>>
passVars == <<seen, at, read>>
retryVars == <<attempted, wait, delay, lost>>
readyVars == <<present, due, ready>>
vars == <<storeVars, linkVars, passVars, retryVars, readyVars, crossed>>

TypeOK ==
  /\ StoreTypeOK
  /\ net \in BOOLEAN
  /\ client \in {"down", "trying", "up", "closing"}
  /\ session \in Configs /\ server \in Configs
  /\ seen \in 0..MaxUpdates /\ read \in 0..MaxUpdates
  /\ at \in {"config", "apply", "note", "ready", "net", "mark"}
  /\ attempted \in BOOLEAN /\ wait \in 0..MaxDelay /\ delay \in InitialDelay..MaxDelay
  /\ lost \in BOOLEAN
  /\ present \in BOOLEAN /\ due \in BOOLEAN /\ ready \in BOOLEAN
  /\ crossed \in BOOLEAN

Init ==
  /\ StoreInit
  /\ net = FALSE /\ client = "down" /\ session = Defaults /\ server = Defaults
  /\ seen = 0 /\ at = "config" /\ read = 0
  /\ attempted = FALSE /\ wait = 0 /\ delay = InitialDelay /\ lost = FALSE
  /\ present = FALSE /\ due = TRUE /\ ready = FALSE /\ crossed = FALSE

Calm == attempted' = FALSE /\ wait' = 0 /\ delay' = InitialDelay /\ UNCHANGED lost

-----------------------------------------------------------------------------
(* One pass of loop(): the settings, the ready message, the connection.     *)

ReadRevision ==
  /\ at = "config" /\ toWrite = <<>>
  /\ IF revision # seen THEN read' = revision /\ at' = "apply"
                        ELSE UNCHANGED read /\ at' = "ready"
  /\ UNCHANGED <<storeVars, linkVars, seen, retryVars, readyVars, crossed>>

(* applyBrokerConfig closes a connection that is up; an attempt under way is  *)
(* not stopped, and the library ignores the next connect().                   *)
ApplyConfig ==
  /\ at = "apply" /\ toWrite = <<>>
  /\ server' = current
  /\ client' = IF client = "up" THEN "closing" ELSE client
  /\ crossed' = (crossed \/ client = "trying")
  /\ Calm
  /\ at' = "note"
  /\ UNCHANGED <<storeVars, net, session, seen, read, readyVars>>

(* The revision noted is the one read before the settings.                   *)
SeenLatest == revision   \* mutant: the revision is read again after the settings
SeenRead == read

NoteRevision ==
  /\ at = "note" /\ at' = "ready"
  /\ seen' = SeenRead /\ read' = 0
  /\ UNCHANGED <<storeVars, linkVars, retryVars, readyVars, crossed>>

(* publishReady, directly to the library, which may have no room; it is due   *)
(* again whenever motion, power or the address has changed.                   *)
Announce(accepted) ==
  /\ at = "ready" /\ at' = "net"
  /\ \E changed \in BOOLEAN :
       IF present /\ (due \/ changed)
       THEN LET out == client = "up" /\ accepted
            IN  ready' = (ready \/ out) /\ due' = ~out
       ELSE UNCHANGED <<ready, due>>
  /\ UNCHANGED <<storeVars, linkVars, seen, read, retryVars, present, crossed>>

Offline ==
  /\ at = "net" /\ ~net /\ at' = "config"
  /\ Calm
  /\ UNCHANGED <<storeVars, linkVars, seen, read, readyVars, crossed>>

MayConnectOnce == ~attempted /\ wait = 0 /\ delay = InitialDelay   \* mutant
MayConnect == ~attempted /\ wait = 0

(* client_.connect() is ignored by the library unless it is down.             *)
Connect ==
  /\ at = "net" /\ net /\ client # "up" /\ MayConnect
  /\ IF client = "down"
     THEN client' = "trying" /\ session' = server /\ crossed' = FALSE
     ELSE UNCHANGED <<client, session, crossed>>
  /\ at' = "mark"
  /\ UNCHANGED <<storeVars, net, server, seen, read, retryVars, readyVars>>

Mark ==
  /\ at = "mark" /\ at' = "config"
  /\ attempted' = TRUE /\ wait' = 0
  /\ UNCHANGED <<storeVars, linkVars, seen, read, delay, lost, readyVars, crossed>>

Pass ==
  /\ at = "net" /\ net /\ (client = "up" \/ ~MayConnect)
  /\ at' = "config"
  /\ UNCHANGED <<storeVars, linkVars, seen, read, retryVars, readyVars, crossed>>

LoopStep ==
  \/ ReadRevision \/ ApplyConfig \/ NoteRevision \/ Offline \/ Connect \/ Mark \/ Pass
  \/ \E accepted \in BOOLEAN : Announce(accepted)

-----------------------------------------------------------------------------
(* The client's callbacks.                                                  *)

CallbackRuns == ~lost /\ (MarkedInTime => at # "mark")

DueAsBefore == due   \* mutant: only the first connection is announced
DueOnConnect == TRUE

OnConnect ==
  /\ client = "trying" /\ CallbackRuns
  /\ client' = "up"
  /\ attempted' = TRUE /\ wait' = 0 /\ delay' = InitialDelay
  /\ present' = TRUE /\ due' = DueOnConnect /\ ready' = FALSE
  /\ UNCHANGED <<storeVars, net, session, server, passVars, lost, crossed>>

(* The attempt fails, the connection is lost, or it is closed as asked.       *)
OnDisconnect ==
  /\ client # "down" /\ CallbackRuns
  /\ client' = "down" /\ session' = Defaults
  /\ present' = FALSE /\ ready' = FALSE
  /\ attempted' = FALSE /\ lost' = TRUE /\ crossed' = FALSE
  /\ UNCHANGED <<storeVars, net, server, passVars, wait, delay, due>>

NextDelay == IF 2 * delay < MaxDelay THEN 2 * delay ELSE MaxDelay

ScheduleReconnect ==
  /\ lost /\ lost' = FALSE
  /\ IF net THEN wait' = delay /\ delay' = NextDelay
     ELSE wait' = 0 /\ delay' = InitialDelay
  /\ UNCHANGED <<storeVars, linkVars, passVars, attempted, readyVars, crossed>>

-----------------------------------------------------------------------------
(* The world.                                                               *)

NetChanges ==
  /\ net' = ~net
  /\ UNCHANGED <<storeVars, client, session, server, passVars, retryVars, readyVars, crossed>>

Elapse ==
  /\ wait > 0 /\ wait' = wait - 1
  /\ UNCHANGED <<storeVars, linkVars, passVars, attempted, delay, lost, readyVars, crossed>>

UpdateSettings ==
  /\ \/ \E u \in Updates : BeginUpdate(u)
     \/ StoreStep
  /\ UNCHANGED <<linkVars, passVars, retryVars, readyVars, crossed>>

(* Power fails: setup() runs begin() before anything else.                    *)
PowerCycle ==
  /\ Reload
  /\ net' = FALSE /\ client' = "down" /\ session' = Defaults /\ server' = flash
  /\ seen' = 0 /\ at' = "config" /\ read' = 0
  /\ attempted' = FALSE /\ wait' = 0 /\ delay' = InitialDelay /\ lost' = FALSE
  /\ present' = FALSE /\ due' = TRUE /\ ready' = FALSE /\ crossed' = FALSE

Next ==
  \/ LoopStep
  \/ OnConnect \/ OnDisconnect \/ ScheduleReconnect
  \/ NetChanges \/ Elapse \/ UpdateSettings \/ PowerCycle

Spec == Init /\ [][Next]_vars

(* The loop and the client's task run, time passes, an update that has begun *)
(* ends, the library ends what it has begun, and not every attempt fails.    *)
Fairness ==
  /\ WF_vars(LoopStep) /\ WF_vars(ScheduleReconnect) /\ WF_vars(Elapse)
  /\ WF_vars(StoreStep /\ UpdateSettings)
  /\ WF_vars(client = "closing" /\ OnDisconnect)
  /\ SF_vars(OnConnect) /\ SF_vars(Announce(TRUE) /\ due /\ present)

FairSpec == Spec /\ Fairness

-----------------------------------------------------------------------------
(* Properties.                                                              *)

(* While the network stays up the node comes back to the broker, however      *)
(* attempts fail, settings change and callbacks fall between the steps of     *)
(* the loop (loop 303-329, callbacks 410-452).                                *)
Reconnects == (<>[]net /\ <>[][~PowerCycle]_vars) => []<>(client = "up")

(* A connection that is up is one to the current settings as far as the loop  *)
(* has seen them, unless they changed in the middle of the attempt            *)
(* (maybeRefreshBrokerConfig 554-561, applyBrokerConfig 521-552).             *)
FollowsSettings ==
  client = "up" /\ at = "config" /\ seen = revision /\ toWrite = <<>> /\ ~crossed
    => session = current

(* Every connection that lasts is announced by a ready message, though the    *)
(* library may refuse it (handleConnected 100-111, loop 80-98).               *)
Announced == (client = "up" /\ ~ready) ~> (ready \/ client # "up")

=============================================================================

------------------------------ MODULE ConfigStore ------------------------------
(***************************************************************************)
(* The broker settings: lib/mqtt_config/src/MqttConfigStore.cpp and the    *)
(* MQTT:SET_CONFIG command (CommandHandlers.cpp 1182-1262).  An update     *)
(* holds the store's mutex while it writes one key after the other to the  *)
(* flash; power may fail between two of them, and a key may not be         *)
(* written.  A field that has its default value has no key.                *)
(***************************************************************************)
EXTENDS Naturals, Sequences, SequencesExt

CONSTANTS
  Keys,        \* the fields, in the order persistLocked writes them
  Overrides,   \* values an operator gives a field
  Default,     \* the value of secrets.h, for every field
  MaxUpdates,  \* bound on revision_: updates since power came on
  KeysCanFail  \* TRUE: a write to the flash may fail

Fields  == ToSet(Keys)
Values  == Overrides \cup {Default}
Configs == [Fields -> Values]

ASSUME StoreAssumption ==
  /\ Keys \in Seq(STRING) /\ IsInjective(Keys)
  /\ Default \notin Overrides /\ MaxUpdates \in Nat /\ KeysCanFail \in BOOLEAN

VARIABLES
  current,   \* current_, the copy in RAM
  revision,  \* revision_
  flash,     \* field -> value of its key; no key reads as the default
  merged,    \* the settings an update is writing
  toWrite,   \* keys it still has to write; <<>> between updates
  intended   \* history: the settings of the last update that was completed;
             \* Unknown once a write failed, or power failed between two

storeVars == <<current, revision, flash, merged, toWrite, intended>>

Unknown == <<>>

Defaults == [f \in Fields |-> Default]

StoreTypeOK ==
  /\ current \in Configs /\ flash \in Configs /\ merged \in Configs
  /\ revision \in 0..MaxUpdates
  /\ toWrite \in Seq(Fields) /\ Len(toWrite) <= Len(Keys)
  /\ intended \in Configs \cup {Unknown}

StoreInit ==
  /\ current = Defaults /\ flash = Defaults /\ merged = Defaults
  /\ revision = 0 /\ toWrite = <<>> /\ intended = Defaults

(* ApplyUpdate: some fields get a value or their default (mergeUpdate), the   *)
(* others keep what the RAM copy says.                                       *)
Updates == UNION {[S -> Values] : S \in SUBSET Fields \ {{}}}
Merged(u) == [f \in Fields |-> IF f \in DOMAIN u THEN u[f] ELSE current[f]]

BeginUpdate(u) ==
  /\ toWrite = <<>> /\ revision < MaxUpdates
  /\ merged' = Merged(u)
  /\ toWrite' = Keys
  /\ UNCHANGED <<current, revision, flash, intended>>

(* persistLocked ignores the result of putString and remove.  The lock is     *)
(* released, and the update announced, after the last key.                    *)
KeysLeftSkip == IF Len(toWrite) > 1 THEN SubSeq(toWrite, 3, Len(toWrite)) ELSE <<>>   \* mutant
KeysLeft == Tail(toWrite)

WriteKey(written) ==
  /\ toWrite # <<>>
  /\ written \/ KeysCanFail
  /\ flash' = IF written THEN [flash EXCEPT ![Head(toWrite)] = merged[Head(toWrite)]] ELSE flash
  /\ toWrite' = KeysLeft
  /\ IF KeysLeft = <<>>
     THEN current' = merged /\ revision' = revision + 1 /\ merged' = Defaults
     ELSE UNCHANGED <<current, revision, merged>>
  /\ intended' = IF ~written \/ intended = Unknown THEN Unknown
                 ELSE IF KeysLeft = <<>> THEN merged ELSE intended

StoreStep == \E written \in BOOLEAN : WriteKey(written)

(* Power fails and comes back: loadLocked reads the keys there are.           *)
Reload ==
  /\ current' = flash /\ revision' = 0
  /\ toWrite' = <<>> /\ merged' = Defaults
  /\ intended' = IF toWrite \in {<<>>, Keys} THEN intended ELSE Unknown
  /\ UNCHANGED flash

-----------------------------------------------------------------------------
(* Properties.                                                              *)

(* The node runs on the settings of the last completed update, also after a   *)
(* loss of power: merging an update with the RAM copy, writing and reloading   *)
(* never mix two, unless a write or the power failed between two keys         *)
(* (221-244, 335-402).                                                        *)
OldOrNew == intended # Unknown => current = intended

=============================================================================

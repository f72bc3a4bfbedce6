---------------------------- MODULE SettingsStore ----------------------------
(***************************************************************************)
(* The settings store (lib/settings/settings_store.hpp): live settings, a  *)
(* shadow of the storage, and a save that writes or erases one register    *)
(* after the other behind the save gate, over a key/value storage          *)
(* (hardware/zephyr_common/zephyr_settings_storage.cpp).                   *)
(*                                                                         *)
(* The store lock makes every public operation one at a time; a storage    *)
(* access may fail, and the power may go, between any two registers.       *)
(***************************************************************************)
EXTENDS Naturals

CONSTANTS
    N,        \* registers of ForEachRegister(), in its order
    Values,   \* decoded register values
    Factory,  \* SettingsProfile::factory_settings
    Valid,    \* the settings Validate() accepts
    Absent,   \* no entry in the storage
    Bad       \* an entry that DecodeRegisterValue() refuses

Registers == 1..N

ASSUME StoreAssumption ==
    /\ N \in Nat
    /\ Factory \in [Registers -> Values]
    /\ Valid \subseteq [Registers -> Values]
    /\ Factory \in Valid
    /\ Absent \notin Values /\ Bad \notin Values /\ Absent # Bad

VARIABLES
    live,          \* settings_
    stored,        \* stored_, the shadow of the storage
    eraseDefaults, \* erase_defaults_
    flash,         \* the storage: one entry per register
    cursor,        \* 0: no save; i: ForEachRegister() of SaveChanged() is at i
    gate,          \* the save gate is held
    stage,         \* state of the power stage the gate looks at
    status,        \* result of the last SaveToFlash()
    up             \* Load() has succeeded

vars == <<live, stored, eraseDefaults, flash, cursor, gate, stage, status, up>>

StageStates == {"kDisabled", "kEnabled", "kFault"}
Entries == Values \cup {Absent, Bad}

\* The value LoadAll() and DecodeRegisterValue() give to a register.
Decoded(entry, r) == IF entry \in Values THEN entry ELSE Factory[r]

Image == [r \in Registers |-> Decoded(flash[r], r)]

Undecodable == \E r \in Registers : flash[r] = Bad

\* Any earlier firmware may have written the storage.
Init ==
    /\ flash \in [Registers -> Entries]
    /\ live = Factory /\ stored = Factory
    /\ eraseDefaults = FALSE
    /\ cursor = 0 /\ gate = FALSE
    /\ stage = "kDisabled"
    /\ status = "none"
    /\ up = FALSE

-----------------------------------------------------------------------------
\* Mutant: the shadow starts as the live settings instead of what was read.
Load_ShadowsLive ==
    /\ ~up
    /\ up' = TRUE
    /\ live' = IF ~Undecodable /\ Image \in Valid THEN Image ELSE Factory
    /\ stored' = live'
    /\ eraseDefaults' = Undecodable
    /\ UNCHANGED <<flash, cursor, gate, stage, status>>

\* Load(); a storage error leaves the factory settings and stops the boot.
Load ==
    /\ ~up
    /\ up' = TRUE
    /\ stored' = Image
    /\ eraseDefaults' = Undecodable
    /\ live' = IF ~Undecodable /\ Image \in Valid THEN Image ELSE Factory
    /\ UNCHANGED <<flash, cursor, gate, stage, status>>

\* Commit() of a candidate that Validate() accepts; another changes nothing.
Commit(candidate) ==
    /\ up /\ cursor = 0
    /\ live' = candidate
    /\ UNCHANGED <<stored, eraseDefaults, flash, cursor, gate, stage, status, up>>

\* Update() and the typed setters.
Update == \E candidate \in Valid : Commit(candidate)

ResetToFactoryDefaults == Commit(Factory)

-----------------------------------------------------------------------------
(* SaveToFlash(): SaveChanged() under the lock                              *)

SaveToFlash ==
    /\ up /\ cursor = 0
    /\ cursor' = 1
    /\ status' = "running"
    /\ UNCHANGED <<live, stored, eraseDefaults, flash, gate, stage, up>>

\* Mutant: undecodable entries behind factory values are not visited.
MustSave_ChangedOnly(r) == live[r] # stored[r]

\* The register differs from the shadow, or may hide an undecodable entry.
MustSave(r) == live[r] # stored[r] \/ (eraseDefaults /\ live[r] = Factory[r])

\* TryBegin() before the first write; held from then on.
GateOpen == gate \/ stage = "kDisabled"

SaveSkip ==
    /\ cursor \in Registers
    /\ ~MustSave(cursor)
    /\ cursor' = cursor + 1
    /\ UNCHANGED <<live, stored, eraseDefaults, flash, gate, stage, status, up>>

\* Erase() at factory value, Write() otherwise; then the shadow follows.
SaveRegister ==
    /\ cursor \in Registers
    /\ MustSave(cursor)
    /\ GateOpen
    /\ gate' = TRUE
    /\ flash' = [flash EXCEPT ![cursor] =
                     IF live[cursor] = Factory[cursor] THEN Absent ELSE live[cursor]]
    /\ stored' = [stored EXCEPT ![cursor] = live[cursor]]
    /\ cursor' = cursor + 1
    /\ UNCHANGED <<live, eraseDefaults, stage, status, up>>

\* The rest of the registers is passed over, the gate is given back.
SaveStops(result) ==
    /\ cursor' = 0
    /\ gate' = FALSE
    /\ status' = result
    /\ UNCHANGED <<live, stored, flash, stage, up>>

\* Mutant: a refused gate is no error.
SaveBlocked_Succeeds ==
    /\ cursor \in Registers
    /\ MustSave(cursor)
    /\ ~GateOpen
    /\ SaveStops("success")
    /\ UNCHANGED eraseDefaults

SaveBlocked ==
    /\ cursor \in Registers
    /\ MustSave(cursor)
    /\ ~GateOpen
    /\ SaveStops("kPersistBlocked")
    /\ UNCHANGED eraseDefaults

SaveFails ==
    /\ cursor \in Registers
    /\ MustSave(cursor)
    /\ GateOpen
    /\ SaveStops("kIoError")
    /\ UNCHANGED eraseDefaults

SaveEnd ==
    /\ cursor = N + 1
    /\ SaveStops("success")
    /\ eraseDefaults' = FALSE

SaveStep == SaveSkip \/ SaveRegister \/ SaveBlocked \/ SaveFails \/ SaveEnd

-----------------------------------------------------------------------------
\* Enable() fails while the gate is held; trips and Disable() do not ask.
StageChanges ==
    /\ up
    /\ stage' \in StageStates
    /\ stage' = "kEnabled" => ~gate
    /\ UNCHANGED <<live, stored, eraseDefaults, flash, cursor, gate, status, up>>

PowerCycle ==
    /\ up' = FALSE
    /\ live' = Factory /\ stored' = Factory
    /\ eraseDefaults' = FALSE
    /\ cursor' = 0 /\ gate' = FALSE
    /\ stage' = "kDisabled"
    /\ status' = "none"
    /\ UNCHANGED flash

Next ==
    \/ Load \/ Update \/ ResetToFactoryDefaults \/ SaveToFlash \/ SaveStep
    \/ StageChanges \/ PowerCycle

\* A save that started runs to its end unless the power goes.
Spec == Init /\ [][Next]_vars
FairSpec == Spec /\ WF_vars(SaveStep)

-----------------------------------------------------------------------------
(* Properties                                                              *)

\* Every member keeps its type.
TypeOK ==
    /\ live \in [Registers -> Values]
    /\ stored \in [Registers -> Values]
    /\ eraseDefaults \in BOOLEAN
    /\ flash \in [Registers -> Entries]
    /\ cursor \in 0..(N + 1)
    /\ gate \in BOOLEAN
    /\ stage \in StageStates
    /\ status \in {"none", "running", "success", "kPersistBlocked", "kIoError"}
    /\ up \in BOOLEAN

\* stored_ is "what the storage holds": after every failed, blocked or retried save
\* and after every boot it equals what a boot would read, and an entry that cannot
\* be decoded is remembered by erase_defaults_.
ShadowMirrorsStorage ==
    up => stored = Image /\ (Undecodable => eraseDefaults)

\* A save that reported success left the storage with exactly the live settings,
\* undecodable leftovers removed: the next boot starts with them.
SuccessIsDurable ==
    [][status = "running" /\ status' = "success" => Image = live /\ ~Undecodable]_vars

\* "Registers saved before an error stay saved": a save in progress has the
\* registers before its cursor, and no later boot can find a value that is neither
\* the old nor the live one.
SavedStaysSaved ==
    cursor > 0 => \A r \in Registers : r < cursor => Image[r] = live[r]

\* Flash is never written while the outputs are released: the gate is taken before
\* the first write and held to the last one.
NoWriteWhileEnabled == [][flash' # flash => stage # "kEnabled"]_vars

\* The store keeps the contract of DurableSettings.
Contract == INSTANCE DurableSettings WITH saved <- Image
KeepsContract == Contract!Spec

-----------------------------------------------------------------------------
(* Statement of the documentation that the code does not keep              *)

\* UnsavedCount(): the "Number of registers SaveToFlash() would write or erase".
UnsavedCountIsWhatSaveTouches ==
    up => {r \in Registers : live[r] # stored[r]} = {r \in Registers : MustSave(r)}
=============================================================================

------------------------- MODULE SettingsStoreProofs -------------------------
(***************************************************************************)
(* Proofs about SettingsStore for any number of registers, any values and  *)
(* any validation: the shadow mirrors the storage, success is durable, no  *)
(* write happens with the outputs released, and the store implements       *)
(* DurableSettings.                                                        *)
(***************************************************************************)
EXTENDS SettingsStore, TLAPS

\* Save in progress, lock and report belong together.
SaveInv ==
    /\ cursor > 0 <=> status = "running"
    /\ cursor > 0 => up
    /\ gate => cursor > 0

\* The held gate keeps the stage from being enabled.
GateInv == gate => stage # "kEnabled"

\* The registers before the cursor are in the storage, undecodable ones replaced.
PrefixInv ==
    \A r \in Registers : r < cursor => Image[r] = live[r] /\ flash[r] # Bad

IInv ==
    /\ TypeOK
    /\ live \in Valid
    /\ SaveInv
    /\ GateInv
    /\ ShadowMirrorsStorage
    /\ PrefixInv

-----------------------------------------------------------------------------
\* What a boot reads is a settings record, whatever the storage holds.
LEMMA ImageType ==
    ASSUME TypeOK PROVE Image \in [Registers -> Values]
  BY StoreAssumption DEF TypeOK, Image, Decoded, Registers, Entries

\* A register written or erased by a save reads back as its live value, and no
\* other register of the image changes.
LEMMA SavedReadsBack ==
    ASSUME TypeOK, SaveRegister
    PROVE  /\ Image' = [Image EXCEPT ![cursor] = live[cursor]]
           /\ flash'[cursor] # Bad
           /\ \A r \in Registers : r # cursor => flash'[r] = flash[r]
<1>1. flash' = [flash EXCEPT ![cursor] =
                  IF live[cursor] = Factory[cursor] THEN Absent ELSE live[cursor]]
  BY DEF SaveRegister
<1>2. cursor \in Registers /\ live[cursor] \in Values
  BY DEF SaveRegister, TypeOK
<1>3. flash'[cursor] # Bad /\ Decoded(flash'[cursor], cursor) = live[cursor]
  BY <1>1, <1>2, StoreAssumption DEF TypeOK, Decoded
<1>4. \A r \in Registers : r # cursor => flash'[r] = flash[r]
  BY <1>1 DEF TypeOK
<1>5. Image' = [Image EXCEPT ![cursor] = live[cursor]]
  BY <1>2, <1>3, <1>4 DEF Image, Decoded
<1>6. QED
  BY <1>3, <1>4, <1>5

\* The initial states satisfy the inductive invariant: nothing is loaded.
LEMMA InitIInv == Init => IInv
<1> SUFFICES ASSUME Init PROVE IInv
  OBVIOUS
<1>1. TypeOK
  <2>1. cursor \in 0..(N + 1)
    BY StoreAssumption DEF Init
  <2>2. stage \in StageStates
    BY DEF Init, StageStates
  <2>3. QED
    BY <2>1, <2>2, StoreAssumption DEF Init, TypeOK
<1>2. PrefixInv
  BY StoreAssumption DEF Init, PrefixInv, Registers
<1>3. QED
  BY <1>1, <1>2, StoreAssumption
  DEF Init, IInv, SaveInv, GateInv, ShadowMirrorsStorage

\* Every operation, every storage access and a power cycle preserve it.
LEMMA StepIInv == IInv /\ [Next]_vars => IInv'
<1> SUFFICES ASSUME IInv, [Next]_vars PROVE IInv'
  OBVIOUS
<1>0. TypeOK /\ N \in Nat /\ Image \in [Registers -> Values]
  BY ImageType, StoreAssumption DEF IInv
<1> USE DEF Registers
<1>1. CASE Load
  <2>1. Image' = Image /\ (Undecodable <=> Undecodable')
    BY <1>1 DEF Load, Image, Undecodable
  <2>2. cursor = 0
    BY <1>0, <1>1 DEF Load, IInv, SaveInv, TypeOK
  <2>3. TypeOK' /\ live' \in Valid
    BY <1>0, <1>1, StoreAssumption DEF Load, TypeOK, Undecodable
  <2>4. ShadowMirrorsStorage'
    BY <1>1, <2>1 DEF Load, ShadowMirrorsStorage
  <2>5. QED
    BY <1>0, <1>1, <2>2, <2>3, <2>4
    DEF Load, IInv, SaveInv, GateInv, PrefixInv
<1>2. ASSUME NEW candidate \in Valid, Commit(candidate) PROVE IInv'
  <2>1. Image' = Image /\ Undecodable' = Undecodable /\ cursor' = 0
    BY <1>2 DEF Commit, Image, Undecodable
  <2>2. TypeOK' /\ live' \in Valid
    BY <1>2, StoreAssumption DEF Commit, IInv, TypeOK
  <2>3. QED
    BY <1>0, <1>2, <2>1, <2>2
    DEF Commit, IInv, SaveInv, GateInv, ShadowMirrorsStorage, PrefixInv
<1>3. CASE SaveToFlash
  <2>1. Image' = Image /\ Undecodable' = Undecodable
    BY <1>3 DEF SaveToFlash, Image, Undecodable
  <2>2. TypeOK'
    BY <1>0, <1>3 DEF SaveToFlash, TypeOK
  <2>3. PrefixInv'
    BY <1>3 DEF SaveToFlash, PrefixInv
  <2>4. QED
    BY <1>0, <1>3, <2>1, <2>2, <2>3
    DEF SaveToFlash, IInv, SaveInv, GateInv, ShadowMirrorsStorage
<1>4. CASE SaveSkip
  <2>1. Image' = Image /\ Undecodable' = Undecodable
    BY <1>4 DEF SaveSkip, Image, Undecodable
  <2>2. TypeOK'
    BY <1>0, <1>4 DEF SaveSkip, TypeOK
  <2>3. stored = Image
    BY <1>0, <1>4 DEF SaveSkip, IInv, SaveInv, ShadowMirrorsStorage
  <2>4. Image[cursor] = live[cursor]
    BY <1>4, <2>3 DEF SaveSkip, MustSave
  <2>5. flash[cursor] # Bad
    <3> SUFFICES ASSUME flash[cursor] = Bad PROVE FALSE
      OBVIOUS
    <3>1. eraseDefaults
      BY <1>0, <1>4 DEF SaveSkip, IInv, SaveInv, ShadowMirrorsStorage, Undecodable
    <3>2. Image[cursor] = Factory[cursor]
      BY <1>4, StoreAssumption DEF SaveSkip, Image, Decoded
    <3>3. QED
      BY <1>4, <2>4, <3>1, <3>2 DEF SaveSkip, MustSave
  <2>6. PrefixInv'
    BY <1>0, <1>4, <2>1, <2>4, <2>5 DEF SaveSkip, IInv, PrefixInv
  <2>7. QED
    BY <1>0, <1>4, <2>1, <2>2, <2>6
    DEF SaveSkip, IInv, SaveInv, GateInv, ShadowMirrorsStorage
<1>5. CASE SaveRegister
  <2>1. /\ Image' = [Image EXCEPT ![cursor] = live[cursor]]
        /\ flash'[cursor] # Bad
        /\ \A r \in Registers : r # cursor => flash'[r] = flash[r]
    BY <1>0, <1>5, SavedReadsBack
  <2>2. TypeOK'
    BY <1>0, <1>5, StoreAssumption DEF SaveRegister, TypeOK, Entries
  <2>3. ShadowMirrorsStorage'
    BY <1>0, <1>5, <2>1
    DEF SaveRegister, IInv, SaveInv, ShadowMirrorsStorage, Undecodable
  <2>4. PrefixInv'
    BY <1>0, <1>5, <2>1 DEF SaveRegister, IInv, PrefixInv
  <2>5. GateInv'
    BY <1>5 DEF SaveRegister, GateOpen, IInv, GateInv
  <2>6. QED
    BY <1>0, <1>5, <2>2, <2>3, <2>4, <2>5 DEF SaveRegister, IInv, SaveInv
<1>6. CASE SaveBlocked \/ SaveFails \/ SaveEnd
  <2>1. Image' = Image /\ Undecodable' = Undecodable /\ cursor' = 0
    BY <1>6 DEF SaveBlocked, SaveFails, SaveEnd, SaveStops, Image, Undecodable
  <2>2. TypeOK'
    <3>1. cursor' \in 0..(N + 1)
      BY <1>0, <2>1
    <3>2. status' \in {"success", "kPersistBlocked", "kIoError"} /\ gate' = FALSE
      BY <1>6 DEF SaveBlocked, SaveFails, SaveEnd, SaveStops
    <3>3. eraseDefaults' \in BOOLEAN
      BY <1>0, <1>6 DEF SaveBlocked, SaveFails, SaveEnd, TypeOK
    <3>4. QED
      BY <1>0, <1>6, <3>1, <3>2, <3>3
      DEF SaveBlocked, SaveFails, SaveEnd, SaveStops, TypeOK
  <2>3. SaveEnd => ~Undecodable
    BY <1>0 DEF SaveEnd, IInv, PrefixInv, Undecodable
  <2>4. ShadowMirrorsStorage'
    BY <1>6, <2>1, <2>3
    DEF SaveBlocked, SaveFails, SaveEnd, SaveStops, IInv, ShadowMirrorsStorage
  <2>5. QED
    BY <1>0, <1>6, <2>1, <2>2, <2>4
    DEF SaveBlocked, SaveFails, SaveEnd, SaveStops, IInv, SaveInv, GateInv, PrefixInv
<1>7. CASE StageChanges
  <2>1. Image' = Image /\ Undecodable' = Undecodable
    BY <1>7 DEF StageChanges, Image, Undecodable
  <2>2. TypeOK'
    BY <1>0, <1>7 DEF StageChanges, TypeOK
  <2>3. QED
    BY <1>0, <1>7, <2>1, <2>2
    DEF StageChanges, IInv, SaveInv, GateInv, ShadowMirrorsStorage, PrefixInv
<1>8. CASE PowerCycle
  <2>1. TypeOK'
    <3>1. cursor' \in 0..(N + 1)
      BY <1>0, <1>8 DEF PowerCycle
    <3>2. stage' \in StageStates
      BY <1>8 DEF PowerCycle, StageStates
    <3>3. QED
      BY <1>0, <1>8, <3>1, <3>2, StoreAssumption DEF PowerCycle, TypeOK
  <2>2. PrefixInv'
    BY <1>8, StoreAssumption DEF PowerCycle, PrefixInv
  <2>3. QED
    BY <1>8, <2>1, <2>2, StoreAssumption
    DEF PowerCycle, IInv, SaveInv, GateInv, ShadowMirrorsStorage
<1>9. CASE UNCHANGED vars
  <2>1. Image' = Image /\ Undecodable' = Undecodable
    BY <1>9 DEF vars, Image, Undecodable
  <2>2. QED
    BY <1>9, <2>1 DEF vars, IInv, TypeOK, SaveInv, GateInv, ShadowMirrorsStorage,
                      PrefixInv
<1>10. QED
  BY <1>1, <1>2, <1>3, <1>4, <1>5, <1>6, <1>7, <1>8, <1>9, StoreAssumption
  DEF Next, Update, ResetToFactoryDefaults, SaveStep

-----------------------------------------------------------------------------
\* The inductive invariant holds in every reachable state of the store.
THEOREM Inductive == Spec => []IInv
  BY InitIInv, StepIInv, PTL DEF Spec

\* Every member of the store keeps its type.
THEOREM TypeCorrect == Spec => []TypeOK
<1>1. IInv => TypeOK
  BY DEF IInv
<1>2. QED
  BY <1>1, Inductive, PTL

\* The shadow equals what a boot would read after any sequence of saves, failures,
\* retries and boots, for any number of registers.
THEOREM ShadowCorrect == Spec => []ShadowMirrorsStorage
<1>1. IInv => ShadowMirrorsStorage
  BY DEF IInv
<1>2. QED
  BY <1>1, Inductive, PTL

\* The registers a save has passed stay saved, whatever ends the save.
THEOREM PrefixSaved == Spec => []SavedStaysSaved
<1>1. IInv => SavedStaysSaved
  BY DEF IInv, PrefixInv, SavedStaysSaved
<1>2. QED
  BY <1>1, Inductive, PTL

\* A save that reports success leaves exactly the live settings in the storage.
THEOREM DurableSuccess == Spec => SuccessIsDurable
<1>1. ASSUME IInv, [Next]_vars, status = "running", status' = "success"
      PROVE  Image = live /\ ~Undecodable
  <2>1. SaveEnd
    BY <1>1 DEF Next, vars, Load, Update, ResetToFactoryDefaults, Commit, SaveToFlash,
         SaveStep, SaveSkip, SaveRegister, SaveBlocked, SaveFails, SaveStops,
         StageChanges, PowerCycle
  <2>2. \A r \in Registers : r < cursor
    BY <2>1, StoreAssumption DEF SaveEnd, Registers
  <2>3. \A r \in Registers : Image[r] = live[r] /\ flash[r] # Bad
    BY <1>1, <2>2 DEF IInv, PrefixInv
  <2>4. Image \in [Registers -> Values] /\ live \in [Registers -> Values]
    BY <1>1, ImageType DEF IInv, TypeOK
  <2>5. Image = live
    BY <2>3, <2>4
  <2>6. QED
    BY <2>3, <2>5 DEF Undecodable
<1>2. IInv /\ [Next]_vars
        => [status = "running" /\ status' = "success" => Image = live /\ ~Undecodable]_vars
  BY <1>1
<1>3. QED
  BY <1>2, Inductive, PTL DEF Spec, SuccessIsDurable

\* No register is written or erased while the outputs are released.
THEOREM WritesWithOutputsOff == Spec => NoWriteWhileEnabled
<1>1. ASSUME IInv, [Next]_vars, flash' # flash PROVE stage # "kEnabled"
  <2>1. SaveRegister
    BY <1>1 DEF Next, vars, Load, Update, ResetToFactoryDefaults, Commit, SaveToFlash,
         SaveStep, SaveSkip, SaveBlocked, SaveFails, SaveEnd, SaveStops, StageChanges,
         PowerCycle
  <2>2. QED
    BY <1>1, <2>1 DEF SaveRegister, GateOpen, IInv, GateInv
<1>2. IInv /\ [Next]_vars => [flash' # flash => stage # "kEnabled"]_vars
  BY <1>1
<1>3. QED
  BY <1>2, Inductive, PTL DEF Spec, NoWriteWhileEnabled

-----------------------------------------------------------------------------
\* The store implements the contract: a register access is a SaveOne, the end of a
\* save a Report, and the bookkeeping in between is invisible.
THEOREM Refinement == Spec => KeepsContract
<1>1. Init => Contract!Init
  <2> SUFFICES ASSUME Init PROVE Contract!Init
    OBVIOUS
  <2>1. TypeOK
    BY InitIInv DEF IInv
  <2>2. QED
    BY <2>1, ImageType DEF Init, Contract!Init
<1>2. IInv /\ [Next]_vars => [Contract!Next]_(Contract!vars)
  <2> SUFFICES ASSUME IInv, [Next]_vars PROVE [Contract!Next]_(Contract!vars)
    OBVIOUS
  <2> USE DEF Contract!Next, Contract!vars
  <2>0. TypeOK /\ N \in Nat /\ Image \in [Registers -> Values]
    BY ImageType, StoreAssumption DEF IInv
  <2>1. CASE Load
    <3>1. Image' = Image
      BY <2>1 DEF Load, Image
    <3>2. QED
      BY <2>1, <3>1 DEF Load, Contract!Boot
  <2>2. ASSUME NEW candidate \in Valid, Commit(candidate)
        PROVE  Contract!Change
    BY <2>2 DEF Commit, Contract!Change, Image
  <2>3. CASE SaveToFlash
    BY <2>3 DEF SaveToFlash, Contract!Save, Image
  <2>4. CASE SaveSkip
    BY <2>4 DEF SaveSkip, Image
  <2>5. CASE SaveRegister
    <3>1. Image' = [Image EXCEPT ![cursor] = live[cursor]] /\ cursor \in Registers
      BY <2>0, <2>5, SavedReadsBack DEF SaveRegister
    <3>2. status = "running"
      BY <2>5 DEF SaveRegister, IInv, SaveInv, Registers
    <3>3. QED
      BY <2>5, <3>1, <3>2 DEF SaveRegister, Contract!SaveOne
  <2>6. CASE SaveBlocked \/ SaveFails
    <3>1. status = "running" /\ Image' = Image
      BY <2>6 DEF SaveBlocked, SaveFails, SaveStops, IInv, SaveInv, Registers, Image
    <3>2. QED
      BY <2>6, <3>1
      DEF SaveBlocked, SaveFails, SaveStops, Contract!Report, Contract!Reports
  <2>7. CASE SaveEnd
    <3>1. status = "running" /\ Image' = Image
      BY <2>0, <2>7 DEF SaveEnd, SaveStops, IInv, SaveInv, Image
    <3>2. \A r \in Registers : Image[r] = live[r]
      BY <2>0, <2>7 DEF SaveEnd, IInv, PrefixInv, Registers
    <3>3. Image = live
      BY <2>0, <3>2 DEF TypeOK
    <3>4. QED
      BY <2>7, <3>1, <3>3 DEF SaveEnd, SaveStops, Contract!Report, Contract!Reports
  <2>8. CASE StageChanges
    BY <2>8 DEF StageChanges, Image
  <2>9. CASE PowerCycle
    BY <2>9 DEF PowerCycle, Contract!Crash, Image
  <2>10. CASE UNCHANGED vars
    BY <2>10 DEF vars, Image
  <2>11. QED
    BY <2>1, <2>2, <2>3, <2>4, <2>5, <2>6, <2>7, <2>8, <2>9, <2>10, StoreAssumption
    DEF Next, Update, ResetToFactoryDefaults, SaveStep
<1>3. QED
  BY <1>1, <1>2, Inductive, PTL DEF Spec, KeepsContract, Contract!Spec
=============================================================================

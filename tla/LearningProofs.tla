--------------------------- MODULE LearningProofs ---------------------------
(***************************************************************************)
(* Proofs about LearningLifecycle for every heap and every bound.  TLC       *)
(* checks the same properties in MCLearning, and the liveness property,     *)
(* which is out of reach here.  The last part is the refinement of          *)
(* AtomicStore.                                                            *)
(***************************************************************************)
EXTENDS LearningLifecycle, TLAPS

-----------------------------------------------------------------------------
(***************************************************************************)
(* Types.  Each step touches a few of the parts of TypeOK; a part whose      *)
(* variables a step leaves alone needs no argument.                        *)
(***************************************************************************)

\* A fresh object is one of the heap's, and not one in use.
LEMMA FreshIsFree ==
  ASSUME Free # {}
  PROVE  Fresh \in Free /\ Fresh \in Object
  BY DEF Fresh, Free

\* Items put into an object leave the heap a heap.
LEMMA HoldingType ==
  ASSUME HeapTypes, NEW o, NEW items \in SUBSET Item
  PROVE  Holding(o, items) \in [Object -> SUBSET Item]
  BY DEF Holding, HeapTypes

\* Fetching the key keeps the two key counters counters.
LEMMA KeyType ==
  ASSUME DiskTypes
  PROVE  /\ TheKey \in Nat
         /\ GetOrCreateKey => key' \in Nat /\ lastKey' \in Nat
  BY DEF DiskTypes, TheKey, GetOrCreateKey

\* Loading a model gives a heap and keys.
LEMMA FreshModelType ==
  ASSUME HeapTypes, DiskTypes, NEW o, NEW on, FreshModel(o, on)
  PROVE  /\ mem' \in [Object -> SUBSET Item]
         /\ key' \in Nat /\ lastKey' \in Nat
<1>1. {} \in SUBSET Item /\ file.items \in SUBSET Item
  BY DEF DiskTypes, Blob
<1>2. CASE on
  <2>1. LoadInto(o)
    BY <1>2 DEF FreshModel
  <2>2. mem' \in [Object -> SUBSET Item]
    BY <1>1, <2>1, HoldingType DEF LoadInto
  <2>3. key' \in Nat /\ lastKey' \in Nat
    BY <2>1, KeyType DEF LoadInto, DiskTypes
  <2>4. QED
    BY <2>2, <2>3
<1>3. CASE ~on
  BY <1>1, <1>3, HoldingType DEF FreshModel, DiskTypes
<1>4. QED
  BY <1>2, <1>3

LEMMA BlobType == NoBlob \in Blob
  BY DEF Blob, NoBlob

\* Parts of TypeOK whose variables stay as they are.
LEMMA FlagsKept ==
  ASSUME FlagTypes, UNCHANGED <<pref, everOn, enabled, open, invited, cleared, asked>>
  PROVE  FlagTypes'
  BY DEF FlagTypes
LEMMA DiskKept ==
  ASSUME DiskTypes, UNCHANGED <<disk, writer>>
  PROVE  DiskTypes'
  BY DEF DiskTypes, disk
LEMMA HeapKept ==
  ASSUME HeapTypes, UNCHANGED <<heap, pendingSave>>
  PROVE  HeapTypes'
  BY DEF HeapTypes, heap
LEMMA JobsKept ==
  ASSUME JobTypes, UNCHANGED <<jobs, warm>>
  PROVE  JobTypes'
  BY DEF JobTypes, jobs
LEMMA CountsKept ==
  ASSUME CountTypes, UNCHANGED <<wipe, used, forgotten, fields, disturbances>>
  PROVE  CountTypes'
  BY DEF CountTypes

\* Dying leaves the types as they are.
LEMMA TypesWhenMemoryGoes ==
  ASSUME TypeOK, MemoryGone,
         writer' = Idle \/ writer' = writer, wipe' = NoWipe \/ wipe' = wipe,
         disturbances' \in Nat
  PROVE  TypeOK'
<1>1. FlagTypes'
  BY DEF TypeOK, MemoryGone, FlagTypes
<1>2. DiskTypes'
  BY BlobType DEF TypeOK, MemoryGone, DiskTypes, disk, Idle
<1>3. HeapTypes'
  BY DEF TypeOK, MemoryGone, HeapTypes
<1>4. JobTypes' /\ ModelThere'
  BY DEF TypeOK, MemoryGone, JobTypes, ModelThere
<1>5. CountTypes'
  BY DEF TypeOK, MemoryGone, CountTypes, NoWipe
<1>6. QED
  BY <1>1, <1>2, <1>3, <1>4, <1>5 DEF TypeOK

LEMMA TypesInit == Init => TypeOK
<1> SUFFICES ASSUME Init
             PROVE  TypeOK
  OBVIOUS
<1>1. FlagTypes
  BY DEF Init, FlagTypes
<1>2. DiskTypes
  BY BlobType DEF Init, DiskTypes, Idle
<1>3. HeapTypes /\ JobTypes /\ ModelThere
  BY DEF Init, HeapTypes, JobTypes, ModelThere
<1>4. CountTypes
  BY DEF Init, CountTypes, NoWipe
<1>5. QED
  BY <1>1, <1>2, <1>3, <1>4 DEF TypeOK

LEMMA TypesOfWarmUp ==
  ASSUME TypeOK, WarmReadsPref \/ WarmLoads \/ WarmPublishes
  PROVE  TypeOK'
<1> USE DEF TypeOK
<1>1. CASE WarmReadsPref
  <2>1. FlagTypes' /\ JobTypes' /\ ModelThere'
    BY <1>1 DEF WarmReadsPref, FlagTypes, JobTypes, ModelThere, jobs, heap, settings, focus
  <2>2. QED
    BY <1>1, <2>1, DiskKept, HeapKept, CountsKept
    DEF WarmReadsPref, disk, heap, saving, settings, focus
<1>2. CASE WarmLoads
  <2>1. Fresh \in Object /\ Fresh # 0
    BY <1>2, FreshIsFree, ObjectAssumption DEF WarmLoads
  <2>2. mem' \in [Object -> SUBSET Item] /\ key' \in Nat /\ lastKey' \in Nat
    BY <1>2, FreshModelType DEF WarmLoads
  <2>3. HeapTypes' /\ DiskTypes'
    BY <1>2, <2>1, <2>2 DEF WarmLoads, HeapTypes, DiskTypes, saving
  <2>4. JobTypes' /\ ModelThere'
    BY <1>2, <2>1 DEF WarmLoads, JobTypes, ModelThere, jobs
  <2>5. QED
    BY <1>2, <2>3, <2>4, FlagsKept, CountsKept DEF WarmLoads, settings, focus
<1>3. CASE WarmPublishes
  <2>1. JobTypes' /\ ModelThere'
    BY <1>3 DEF WarmPublishes, JobTypes, ModelThere, ToBuild, heap
  <2>2. QED
    BY <1>3, <2>1, FlagsKept, DiskKept, HeapKept, CountsKept
    DEF WarmPublishes, saving, settings, focus
<1>4. QED
  BY <1>1, <1>2, <1>3

LEMMA TypesOfRefresh ==
  ASSUME TypeOK, NEW r \in refreshes,
         Check(r) \/ CheckDisk(r) \/ Load(r) \/ Assign(r)
  PROVE  TypeOK'
<1> USE DEF TypeOK
<1>1. CASE Check(r)
  <2>1. JobTypes' /\ ModelThere'
    BY <1>1 DEF Check, Moved, JobTypes, ModelThere, heap, control
  <2>2. QED
    BY <1>1, <2>1, FlagsKept, DiskKept, HeapKept, CountsKept
    DEF Check, saving, control, settings, focus
<1>2. CASE CheckDisk(r)
  <2>1. HeapTypes'
    BY <1>2 DEF CheckDisk, HeapTypes, saving
  <2>2. JobTypes' /\ ModelThere'
    BY <1>2 DEF CheckDisk, Moved, JobTypes, ModelThere, control
  <2>3. FlagTypes'
    BY <1>2 DEF CheckDisk, FlagTypes, HasStoredData, control, settings, focus
  <2>4. QED
    BY <1>2, <2>1, <2>2, <2>3, DiskKept, CountsKept
    DEF CheckDisk, saving, settings, focus
<1>3. CASE Load(r)
  <2>1. Fresh \in Object /\ Fresh # 0
    BY <1>3, FreshIsFree, ObjectAssumption DEF Load
  <2>2. mem' \in [Object -> SUBSET Item] /\ key' \in Nat /\ lastKey' \in Nat
    BY <1>3, FreshModelType DEF Load
  <2>3. HeapTypes' /\ DiskTypes'
    BY <1>3, <2>2 DEF Load, HeapTypes, DiskTypes, saving
  <2>4. JobTypes' /\ ModelThere'
    BY <1>3, <2>1 DEF Load, Moved, JobTypes, ModelThere, control
  <2>5. QED
    BY <1>3, <2>3, <2>4, FlagsKept, CountsKept DEF Load, control, settings, focus
<1>4. CASE Assign(r)
  <2>1. r.obj \in Object /\ r.obj # 0
    BY <1>4 DEF Assign, JobTypes
  <2>2. HeapTypes' /\ JobTypes' /\ ModelThere'
    BY <1>4, <2>1 DEF Assign, HeapTypes, JobTypes, ModelThere, ToBuild, saving, control
  <2>3. QED
    BY <1>4, <2>2, FlagsKept, DiskKept, CountsKept
    DEF Assign, saving, control, settings, focus
<1>5. QED
  BY <1>1, <1>2, <1>3, <1>4

LEMMA TypesOfEngine ==
  ASSUME TypeOK, NEW b \in rebuilds, Build(b) \/ Install(b)
  PROVE  TypeOK'
<1> USE DEF TypeOK
<1>1. CASE Build(b)
  <2>1. userModel \in Object /\ userModel # 0
    BY DEF ModelThere, HeapTypes
  <2>2. JobTypes' /\ ModelThere'
    BY <1>1, <2>1 DEF Build, JobTypes, ModelThere, heap, control
  <2>3. QED
    BY <1>1, <2>2, FlagsKept, DiskKept, HeapKept, CountsKept
    DEF Build, saving, control, settings, focus
<1>2. CASE Install(b)
  <2>1. HeapTypes'
    BY <1>2 DEF Install, HeapTypes, JobTypes, saving
  <2>2. JobTypes' /\ ModelThere'
    BY <1>2 DEF Install, JobTypes, ModelThere, control
  <2>3. QED
    BY <1>2, <2>1, <2>2, FlagsKept, DiskKept, CountsKept
    DEF Install, saving, control, settings, focus
<1>3. QED
  BY <1>1, <1>2

LEMMA TypesOfLesson ==
  ASSUME TypeOK, NEW l \in learns, RunLearn(l)
  PROVE  TypeOK'
<1> USE DEF TypeOK
<1>1. l.item \in Item /\ l.obj \in Object
  BY DEF JobTypes
<1>2. HeapTypes'
  BY <1>1 DEF RunLearn, HeapTypes
<1>3. JobTypes' /\ ModelThere'
  BY DEF RunLearn, JobTypes, ModelThere, control
<1>4. QED
  BY <1>2, <1>3, FlagsKept, DiskKept, CountsKept DEF RunLearn, control, settings, focus

LEMMA TypesOfSave ==
  ASSUME TypeOK, Seal \/ OpenTmp \/ FillTmp \/ Rename
  PROVE  TypeOK'
<1> USE DEF TypeOK
<1>1. CASE Seal
  <2>1. mem[pendingSave] \in SUBSET Item
    BY <1>1 DEF Seal, HeapTypes
  <2>2. writer'.data \in Blob
    BY <1>1, <2>1, KeyType DEF Seal, Blob
  <2>3. DiskTypes'
    BY <1>1, <2>2, KeyType DEF Seal, DiskTypes
  <2>4. HeapTypes'
    BY <1>1 DEF Seal, HeapTypes, heap
  <2>5. ModelThere'
    BY <1>1 DEF Seal, ModelThere, heap, jobs, control
  <2>6. QED
    BY <1>1, <2>3, <2>4, <2>5, FlagsKept, JobsKept, CountsKept
    DEF Seal, control, settings, focus
<1>2. CASE OpenTmp \/ FillTmp \/ Rename
  <2>1. DiskTypes'
    <3>1. CASE OpenTmp
      BY <3>1 DEF OpenTmp, DiskTypes, Blob
    <3>2. CASE FillTmp
      BY <3>2, BlobType DEF FillTmp, DiskTypes
    <3>3. CASE Rename
      BY <3>3, BlobType DEF Rename, DiskTypes, Idle
    <3>4. QED
      BY <1>2, <3>1, <3>2, <3>3
  <2>2. ModelThere'
    BY <1>2 DEF OpenTmp, FillTmp, Rename, ModelThere, heap, jobs, control
  <2>3. QED
    BY <1>2, <2>1, <2>2, FlagsKept, HeapKept, JobsKept, CountsKept
    DEF OpenTmp, FillTmp, Rename, control, settings, focus
<1>3. QED
  BY <1>1, <1>2

LEMMA TypesOfWipe ==
  ASSUME TypeOK, WipeFile \/ WipeTmp \/ WipeKey
  PROVE  TypeOK'
<1> USE DEF TypeOK
<1>1. DiskTypes'
  BY BlobType DEF WipeFile, WipeTmp, WipeKey, DiskTypes, saving
<1>2. CountTypes'
  BY DEF WipeFile, WipeTmp, WipeKey, CountTypes, NoWipe, focus
<1>3. ModelThere'
  BY DEF WipeFile, WipeTmp, WipeKey, ModelThere, heap, jobs, control
<1>4. QED
  BY <1>1, <1>2, <1>3, FlagsKept, HeapKept, JobsKept
  DEF WipeFile, WipeTmp, WipeKey, saving, control, settings, focus

LEMMA TypesOfUser ==
  ASSUME TypeOK, User
  PROVE  TypeOK'
<1> USE DEF TypeOK
<1>1. ASSUME NEW kind \in Kinds, NEW changed \in BOOLEAN, StartInput(kind, changed)
      PROVE  TypeOK'
  <2>1. FlagTypes'
    BY <1>1 DEF StartInput, FlagTypes, settings
  <2>2. JobTypes' /\ ModelThere'
    <3> DEFINE differs == pref # enabled
               job == [no |-> fields, phase |-> "check", on |-> pref,
                       toggled |-> differs, obj |-> 0]
    <3>1. differs \in BOOLEAN
      OBVIOUS
    <3>2. refreshes' = refreshes \/ (warm = "ready" /\ refreshes' = refreshes \cup {job})
      BY <1>1 DEF StartInput
    <3>3. \/ rebuilds' = rebuilds
          \/ warm = "ready" /\ rebuilds' = rebuilds \cup {ToBuild("dictionary", fields)}
      BY <1>1 DEF StartInput
    <3>4. warm' = warm /\ learns' = learns /\ userModel' = userModel
      BY <1>1 DEF StartInput, heap
    <3>5. fields \in Nat /\ pref \in BOOLEAN
      BY DEF CountTypes, FlagTypes
    <3> HIDE DEF differs
    <3>6. QED
      BY <3>1, <3>2, <3>3, <3>4, <3>5 DEF JobTypes, ModelThere, ToBuild
  <2>3. CountTypes'
    BY <1>1 DEF StartInput, CountTypes, settings
  <2>4. QED
    BY <1>1, <2>1, <2>2, <2>3, DiskKept, HeapKept DEF StartInput, saving
<1>2. CASE FinishInput
  <2>1. FlagTypes' /\ ModelThere'
    BY <1>2 DEF FinishInput, FlagTypes, ModelThere, heap, jobs, control, settings
  <2>2. QED
    BY <1>2, <2>1, DiskKept, HeapKept, JobsKept, CountsKept
    DEF FinishInput, saving, control, settings
<1>3. CASE Learn
  <2>1. userModel \in Object
    BY <1>3 DEF Learn, ModelThere, HeapTypes
  <2>2. used + 1 \in Item /\ used + 1 \in Nat
    BY <1>3, BoundsAssumption DEF Learn, CountTypes, Item
  <2>3. JobTypes' /\ ModelThere'
    BY <1>3, <2>1, <2>2 DEF Learn, JobTypes, ModelThere, heap, control
  <2>4. CountTypes'
    BY <1>3, <2>2 DEF Learn, CountTypes, settings, focus
  <2>5. QED
    BY <1>3, <2>3, <2>4, FlagsKept, DiskKept, HeapKept
    DEF Learn, saving, control, settings, focus
<1>4. CASE Toggle
  <2>1. FlagTypes'
    BY <1>4 DEF Toggle, FlagTypes, control, focus
  <2>2. CountTypes' /\ ModelThere'
    BY <1>4 DEF Toggle, Disturb, CountTypes, ModelThere, heap, jobs, control, focus
  <2>3. QED
    BY <1>4, <2>1, <2>2, DiskKept, HeapKept, JobsKept DEF Toggle, saving, control
<1>5. CASE Forget
  <2>1. FlagTypes'
    BY <1>5 DEF Forget, FlagTypes, control, focus
  <2>2. CountTypes' /\ ModelThere'
    BY <1>5 DEF Forget, Disturb, CountTypes, ModelThere, heap, jobs, control, focus
  <2>3. QED
    BY <1>5, <2>1, <2>2, DiskKept, HeapKept, JobsKept DEF Forget, saving, control
<1>6. QED
  BY <1>1, <1>2, <1>3, <1>4, <1>5 DEF User

LEMMA TypesStep == TypeOK /\ [Next]_vars => TypeOK'
<1> SUFFICES ASSUME TypeOK, [Next]_vars
             PROVE  TypeOK'
  OBVIOUS
<1>1. CASE Coroutines
  <2>1. CASE RenameFails
    BY <2>1, TypesWhenMemoryGoes DEF RenameFails, ProcessDies, TypeOK, CountTypes
  <2>2. QED
    BY <1>1, <2>1, TypesOfWarmUp, TypesOfRefresh, TypesOfEngine, TypesOfLesson,
       TypesOfSave, TypesOfWipe
    DEF Coroutines
<1>2. CASE User
  BY <1>2, TypesOfUser
<1>3. CASE Crash \/ Destroy
  BY <1>3, TypesWhenMemoryGoes
  DEF Crash, Destroy, ProcessDies, Disturb, TypeOK, CountTypes
<1>4. CASE UNCHANGED vars
  <2>1. ModelThere'
    BY <1>4 DEF vars, TypeOK, ModelThere, heap, jobs, control
  <2>2. QED
    BY <1>4, <2>1, FlagsKept, DiskKept, HeapKept, JobsKept, CountsKept
    DEF vars, TypeOK, saving, control, settings, focus
<1>5. QED
  BY <1>1, <1>2, <1>3, <1>4 DEF Next

\* Types are preserved by every step of every thread, and no job ever works on
\* a model that is not there.
THEOREM LifecycleTypeCorrect == Spec => []TypeOK
<1>1. QED
  BY TypesInit, TypesStep, PTL DEF Spec

-----------------------------------------------------------------------------
(***************************************************************************)
(* A file is never seen half-written.  What is on its way to it is whole:   *)
(* the sealed blob, and the temporary file once it has been filled.  It may *)
(* be gone by then, if a wipe was faster, and it may be half-written before. *)
(***************************************************************************)
OnlyWholeBlobsMove ==
    /\ FileIsWhole
    /\ writer.phase # "idle" => writer.data.whole
    /\ writer.phase = "written" => (Exists(tmp) => tmp.whole)

LEMMA WholeInit == Init => OnlyWholeBlobsMove
  BY DEF Init, OnlyWholeBlobsMove, FileIsWhole, Exists, Idle, NoBlob

\* Dying, at whatever point, leaves the disk as it is.
LEMMA WholeWhenMemoryGoes ==
  ASSUME OnlyWholeBlobsMove, MemoryGone, writer' = Idle \/ writer' = writer
  PROVE  OnlyWholeBlobsMove'
  BY DEF MemoryGone, OnlyWholeBlobsMove, FileIsWhole, Exists, disk, Idle

LEMMA WholeStep == TypeOK /\ OnlyWholeBlobsMove /\ [Next]_vars => OnlyWholeBlobsMove'
<1> SUFFICES ASSUME TypeOK, OnlyWholeBlobsMove, [Next]_vars
             PROVE  OnlyWholeBlobsMove'
  OBVIOUS
<1>1. CASE UNCHANGED <<file, tmp, writer>>
  BY <1>1 DEF OnlyWholeBlobsMove, FileIsWhole, Exists
<1>2. CASE Seal
  BY <1>2 DEF Seal, OnlyWholeBlobsMove, FileIsWhole, Exists
<1>3. CASE OpenTmp
  <2>1. writer'.phase = "writing" /\ writer'.data = writer.data /\ file' = file
    BY <1>3 DEF OpenTmp, TypeOK
  <2>2. QED
    BY <1>3, <2>1 DEF OpenTmp, OnlyWholeBlobsMove, FileIsWhole, Exists
<1>4. CASE FillTmp
  <2>1. writer'.phase = "written" /\ writer'.data = writer.data /\ file' = file
    BY <1>4 DEF FillTmp, TypeOK
  <2>2. QED
    BY <1>4, <2>1 DEF FillTmp, OnlyWholeBlobsMove, FileIsWhole, Exists, NoBlob
<1>5. CASE Rename
  BY <1>5 DEF Rename, OnlyWholeBlobsMove, FileIsWhole, Exists, Idle, NoBlob
<1>6. CASE RenameFails \/ Crash \/ Destroy
  BY <1>6, WholeWhenMemoryGoes DEF RenameFails, Crash, Destroy, ProcessDies
<1>7. CASE WipeFile \/ WipeTmp
  BY <1>7 DEF WipeFile, WipeTmp, OnlyWholeBlobsMove, FileIsWhole, Exists, NoBlob, saving
<1>8. CASE WarmReadsPref \/ WarmLoads \/ WarmPublishes
  BY <1>1, <1>8 DEF WarmReadsPref, WarmLoads, WarmPublishes, disk, saving
<1>9. CASE \E l \in learns : RunLearn(l)
  BY <1>1, <1>9 DEF RunLearn, disk
<1>10. CASE \E r \in refreshes : Check(r) \/ CheckDisk(r) \/ Load(r) \/ Assign(r)
  BY <1>1, <1>10 DEF Check, CheckDisk, Load, Assign, disk, saving
<1>11. CASE \E b \in rebuilds : Build(b) \/ Install(b)
  BY <1>1, <1>11 DEF Build, Install, disk, saving
<1>12. CASE WipeKey
  BY <1>1, <1>12 DEF WipeKey, saving
<1>13. CASE User
  BY <1>1, <1>13 DEF User, StartInput, FinishInput, Learn, Toggle, Forget, disk, saving
<1>14. CASE UNCHANGED vars
  BY <1>1, <1>14 DEF vars, disk, saving
<1>15. QED
  BY <1>2, <1>3, <1>4, <1>5, <1>6, <1>7, <1>8, <1>9, <1>10, <1>11, <1>12, <1>13, <1>14
  DEF Next, Coroutines

\* UserModelRepository's atomic write: whatever dies, and whenever, no reader
\* of the file ever finds half a blob in it.
THEOREM AtomicWrite == Spec => []FileIsWhole
<1>1. OnlyWholeBlobsMove => FileIsWhole
  BY DEF OnlyWholeBlobsMove
<1>2. QED
  BY <1>1, WholeInit, WholeStep, LifecycleTypeCorrect, PTL DEF Spec

-----------------------------------------------------------------------------
(***************************************************************************)
(* Before the first opt-in nothing in the process holds a lesson, so there  *)
(* is never a reason to save, and no reason to make a key.                 *)
(***************************************************************************)
Untouched ==
    /\ pref = FALSE /\ enabled = FALSE
    /\ used = 0 /\ learns = {}
    /\ pendingSave = 0 /\ writer.phase = "idle"
    /\ file = NoBlob /\ tmp = NoBlob
    /\ key = 0 /\ lastKey = 0

NothingBeforeOptIn == ~everOn => Untouched

LEMMA UntouchedStep ==
  TypeOK /\ NothingBeforeOptIn /\ [Next]_vars => NothingBeforeOptIn'
<1> SUFFICES ASSUME TypeOK, NothingBeforeOptIn, [Next]_vars, ~everOn'
             PROVE  Untouched'
  BY DEF NothingBeforeOptIn
<1>1. ~everOn /\ pref' = pref /\ ~Toggle
  <2>1. CASE Toggle
    <3>1. everOn' = (everOn \/ ~pref)
      BY <2>1 DEF Toggle
    <3>2. ~everOn /\ pref
      BY <3>1
    <3>3. QED
      BY <3>2 DEF NothingBeforeOptIn, Untouched
  <2>2. CASE ~Toggle
    <3>1. UNCHANGED <<everOn, pref>>
      BY <2>2 DEF Next, Coroutines, User, vars, settings, WarmReadsPref, WarmLoads,
         WarmPublishes, RunLearn, Check, CheckDisk, Load, Assign, Build, Install, Seal,
         OpenTmp, FillTmp, Rename, RenameFails, WipeFile, WipeTmp, WipeKey, StartInput,
         FinishInput, Learn, Forget, Crash, Destroy, ProcessDies, MemoryGone
    <3>2. QED
      BY <2>2, <3>1
  <2>3. QED
    BY <2>1, <2>2
<1> USE <1>1 DEF Untouched, NothingBeforeOptIn, disk, heap, jobs, saving, control
<1>2. CASE WarmReadsPref \/ WarmPublishes
  BY <1>2 DEF WarmReadsPref, WarmPublishes
<1>3. CASE WarmLoads
  BY <1>3 DEF WarmLoads, FreshModel
<1>4. CASE \E r \in refreshes : Check(r) \/ CheckDisk(r) \/ Assign(r)
  BY <1>4 DEF Check, CheckDisk, Assign
<1>5. CASE \E r \in refreshes : Load(r)
  BY <1>5 DEF Load, FreshModel, LoadInto, Exists, NoBlob
<1>6. CASE \E b \in rebuilds : Build(b) \/ Install(b)
  BY <1>6 DEF Build, Install
<1>7. CASE \E l \in learns : RunLearn(l)
  BY <1>7
<1>8. CASE Seal \/ OpenTmp \/ FillTmp \/ Rename \/ RenameFails
  BY <1>8 DEF Seal, OpenTmp, FillTmp, Rename, RenameFails
<1>9. CASE WipeFile \/ WipeTmp \/ WipeKey
  BY <1>9 DEF WipeFile, WipeTmp, WipeKey
<1>10. CASE \E kind \in Kinds, changed \in BOOLEAN : StartInput(kind, changed)
  BY <1>10 DEF StartInput
<1>11. CASE FinishInput \/ Learn \/ Forget
  BY <1>11 DEF FinishInput, Learn, Forget
<1>12. CASE Crash \/ Destroy
  BY <1>12 DEF Crash, Destroy, ProcessDies, MemoryGone, Idle
<1>13. CASE UNCHANGED vars
  BY <1>13 DEF vars
<1>14. QED
  BY <1>2, <1>3, <1>4, <1>5, <1>6, <1>7, <1>8, <1>9, <1>10, <1>11, <1>12, <1>13
  DEF Next, Coroutines, User

\* The opt-in: without it, nothing is learned, nothing is written and no key
\* is made, in any interleaving and across any number of restarts.
THEOREM OptInFirst == Spec => []NoTraceWithoutOptIn
<1>1. Init => NothingBeforeOptIn
  BY DEF Init, NothingBeforeOptIn, Untouched, Idle
<1>2. NothingBeforeOptIn => NoTraceWithoutOptIn
  BY DEF NothingBeforeOptIn, Untouched, NoTraceWithoutOptIn, Exists, NoBlob
<1>3. QED
  BY <1>1, <1>2, UntouchedStep, LifecycleTypeCorrect, PTL DEF Spec

-----------------------------------------------------------------------------
(***************************************************************************)
(* The switch.  While a field is open, learning is on only if the field was  *)
(* entered with it on; and a keyboard that is still loading will read the    *)
(* switch, once, in a field that counts as invited.                        *)
(***************************************************************************)
OnlyInvitedFields == open /\ (enabled \/ warm # "ready") => invited

LEMMA InvitedStep == TypeOK /\ OnlyInvitedFields /\ [Next]_vars => OnlyInvitedFields'
<1> SUFFICES ASSUME TypeOK, OnlyInvitedFields, [Next]_vars
             PROVE  OnlyInvitedFields'
  OBVIOUS
<1>0. ASSUME UNCHANGED <<enabled, warm, open, invited>>
      PROVE  OnlyInvitedFields'
  BY <1>0 DEF OnlyInvitedFields
<1>1. CASE WarmReadsPref \/ WarmLoads \/ WarmPublishes
  BY <1>1 DEF WarmReadsPref, WarmLoads, WarmPublishes, OnlyInvitedFields, focus
<1>2. CASE \E l \in learns : RunLearn(l)
  BY <1>0, <1>2 DEF RunLearn, control, focus
<1>3. CASE \E r \in refreshes : Check(r) \/ CheckDisk(r) \/ Load(r) \/ Assign(r)
  BY <1>0, <1>3 DEF Check, CheckDisk, Load, Assign, control, focus
<1>4. CASE \E b \in rebuilds : Build(b) \/ Install(b)
  BY <1>0, <1>4 DEF Build, Install, control, focus
<1>5. CASE Seal \/ OpenTmp \/ FillTmp \/ Rename \/ WipeFile \/ WipeTmp \/ WipeKey
  BY <1>0, <1>5 DEF Seal, OpenTmp, FillTmp, Rename, WipeFile, WipeTmp, WipeKey,
                    control, focus
<1>6. CASE RenameFails \/ Crash \/ Destroy
  BY <1>6 DEF RenameFails, Crash, Destroy, ProcessDies, MemoryGone, OnlyInvitedFields
<1>7. ASSUME NEW kind \in Kinds, NEW changed \in BOOLEAN, StartInput(kind, changed)
      PROVE  OnlyInvitedFields'
  BY <1>7 DEF StartInput, OnlyInvitedFields
<1>8. CASE FinishInput
  BY <1>8 DEF FinishInput, OnlyInvitedFields
<1>9. CASE Learn \/ Toggle \/ Forget \/ UNCHANGED vars
  BY <1>0, <1>9 DEF Learn, Toggle, Forget, vars, control, focus
<1>10. QED
  BY <1>1, <1>2, <1>3, <1>4, <1>5, <1>6, <1>7, <1>8, <1>9 DEF Next, Coroutines, User

\* Turning learning off takes effect at the next field: no pair typed in a
\* field entered with learning off is learned, however the refreshes interleave.
THEOREM SwitchTakesEffect == Spec => LearnedOnlyWhenInvited
<1>1. Init => OnlyInvitedFields
  BY DEF Init, OnlyInvitedFields
<1>2. OnlyInvitedFields => [Learn => invited]_vars
  BY DEF OnlyInvitedFields, Learn
<1>3. QED
  BY <1>1, <1>2, InvitedStep, LifecycleTypeCorrect, PTL DEF Spec, LearnedOnlyWhenInvited

-----------------------------------------------------------------------------
(***************************************************************************)
(* The steps of saves and wipes are those of AtomicStore.  Keys are numbered *)
(* as they are made, so what was sealed under a key that is gone stays shut: *)
(* a new key is none of the old ones.                                      *)
(***************************************************************************)
KeysInOrder ==
    /\ key <= lastKey /\ file.key <= lastKey
    /\ writer.phase # "idle" =>
          /\ writer.data.whole
          /\ 1 <= writer.data.key /\ writer.data.key <= lastKey
          /\ writer.data.key # key => ~Opens(file, key)
    /\ writer.phase = "written" => tmp = NoBlob \/ tmp = writer.data

\* A key fetched is the one there is, or one after all others.
LEMMA KeyFetched ==
  ASSUME TypeOK, KeysInOrder, GetOrCreateKey
  PROVE  /\ key' = TheKey /\ key' \in Nat /\ lastKey' \in Nat
         /\ 1 <= key' /\ key' <= lastKey' /\ lastKey <= lastKey'
         /\ key = 0 => key' = lastKey + 1
         /\ key # 0 => key' = key /\ lastKey' = lastKey
<1>1. key \in Nat /\ lastKey \in Nat /\ key <= lastKey
  BY DEF TypeOK, DiskTypes, KeysInOrder
<1>2. QED
  BY <1>1 DEF GetOrCreateKey, TheKey

\* The numbers of the blobs on the disk and on their way there.
LEMMA KeyNumbers ==
  ASSUME TypeOK
  PROVE  /\ key \in Nat /\ lastKey \in Nat /\ file.key \in Nat /\ writer.data.key \in Nat
         /\ file.whole \in BOOLEAN /\ file.items \in SUBSET Item
         /\ writer.data.items \in SUBSET Item
  BY DEF TypeOK, DiskTypes, Blob

\* Fetching a key opens no blob and shuts none.
LEMMA FetchingOpensNothing ==
  ASSUME TypeOK, KeysInOrder, GetOrCreateKey, UNCHANGED <<file, tmp, writer>>
  PROVE  KeysInOrder' /\ Readable' = Readable /\ UnderWay' = UnderWay
<1>1. /\ key' \in Nat /\ lastKey' \in Nat
      /\ key' <= lastKey' /\ lastKey <= lastKey'
      /\ key = 0 => key' = lastKey + 1
      /\ key # 0 => key' = key
  BY KeyFetched
<1>2. /\ key \in Nat /\ lastKey \in Nat /\ file.key \in Nat /\ writer.data.key \in Nat
  BY KeyNumbers
<1>3. Opens(file, key') <=> Opens(file, key)
  BY <1>1, <1>2 DEF Opens, Exists, KeysInOrder
<1>4. writer.phase # "idle" => (writer.data.key = key' <=> writer.data.key = key)
  BY <1>1, <1>2 DEF KeysInOrder
<1>5. Readable' = Readable /\ UnderWay' = UnderWay
  BY <1>3, <1>4 DEF Readable, UnderWay
<1>6. file.key <= lastKey'
  BY <1>1, <1>2 DEF KeysInOrder
<1>7. writer.phase # "idle" => writer.data.key <= lastKey'
  BY <1>1, <1>2 DEF KeysInOrder
<1>8. KeysInOrder'
  BY <1>1, <1>3, <1>4, <1>6, <1>7 DEF KeysInOrder
<1>9. QED
  BY <1>5, <1>8

\* Steps that leave disk, save and wipe alone are no steps of the store.
LEMMA StoreWaits ==
  ASSUME KeysInOrder, UNCHANGED <<file, tmp, key, lastKey, writer, wipe>>
  PROVE  KeysInOrder' /\ UNCHANGED Store!storeVars
<1>1. KeysInOrder'
  BY DEF KeysInOrder, Opens, Exists
<1>2. QED
  BY <1>1 DEF Store!storeVars, Readable, UnderWay, Opens, Exists

LEMMA StoreLoads ==
  ASSUME TypeOK, KeysInOrder, WarmLoads \/ \E r \in refreshes : Load(r)
  PROVE  KeysInOrder' /\ UNCHANGED Store!storeVars
<1>1. UNCHANGED <<file, tmp, writer, wipe>>
  BY DEF WarmLoads, Load, saving, settings
<1>2. GetOrCreateKey \/ UNCHANGED <<key, lastKey>>
  BY DEF WarmLoads, Load, FreshModel, LoadInto
<1>3. CASE GetOrCreateKey
  BY <1>1, <1>3, FetchingOpensNothing DEF Store!storeVars
<1>4. CASE UNCHANGED <<key, lastKey>>
  BY <1>1, <1>4, StoreWaits
<1>5. QED
  BY <1>2, <1>3, <1>4

\* The blob sealed is the value the save is given.
LEMMA StoreSeals ==
  ASSUME TypeOK, KeysInOrder, Seal
  PROVE  KeysInOrder' /\ Store!BeginSave
<1>1. /\ writer.phase = "idle" /\ GetOrCreateKey
      /\ writer' = [phase |-> "sealed",
                    data |-> [items |-> mem[pendingSave], key |-> TheKey, whole |-> TRUE]]
      /\ UNCHANGED <<file, tmp, wipe>>
      /\ pendingSave # 0
  BY DEF Seal, settings
<1>2. mem[pendingSave] \in SUBSET Item
  BY <1>1 DEF TypeOK, HeapTypes
<1>3. /\ key' = TheKey /\ key' \in Nat /\ lastKey' \in Nat
      /\ 1 <= key' /\ key' <= lastKey' /\ lastKey <= lastKey'
      /\ key = 0 => key' = lastKey + 1
      /\ key # 0 => key' = key
  BY <1>1, KeyFetched
<1>4. key \in Nat /\ lastKey \in Nat /\ file.key \in Nat
  BY KeyNumbers
<1>5. /\ writer'.phase = "sealed" /\ writer'.data.whole
      /\ writer'.data.key = key' /\ writer'.data.items = mem[pendingSave]
  BY <1>1, <1>3
<1>6. Opens(file, key') <=> Opens(file, key)
  BY <1>3, <1>4 DEF Opens, Exists, KeysInOrder
<1>7. Readable' = Readable
  BY <1>1, <1>6 DEF Readable
<1>8. UnderWay = {} /\ UnderWay' = {mem[pendingSave]}
  BY <1>1, <1>5 DEF UnderWay
<1>9. file.key <= lastKey'
  BY <1>3, <1>4 DEF KeysInOrder
<1>10. KeysInOrder'
  BY <1>1, <1>3, <1>5, <1>9 DEF KeysInOrder
<1>11. QED
  BY <1>1, <1>2, <1>7, <1>8, <1>10 DEF Store!BeginSave

\* The temporary file is not what a reader reads.
LEMMA StoreWrites ==
  ASSUME TypeOK, KeysInOrder, OpenTmp \/ FillTmp
  PROVE  KeysInOrder' /\ UNCHANGED Store!storeVars
<1>1. /\ UNCHANGED <<file, key, lastKey, wipe>>
      /\ writer.phase # "idle" /\ writer'.phase # "idle" /\ writer'.data = writer.data
      /\ writer'.phase = "written" => tmp' = NoBlob \/ tmp' = writer.data
  BY DEF OpenTmp, FillTmp, settings, TypeOK, DiskTypes
<1>2. KeysInOrder'
  BY <1>1 DEF KeysInOrder, Opens, Exists
<1>3. Readable' = Readable /\ UnderWay' = UnderWay
  BY <1>1 DEF Readable, UnderWay, Opens, Exists
<1>4. QED
  BY <1>1, <1>2, <1>3 DEF Store!storeVars

\* The rename is the save; with the key gone meanwhile, it stores nothing.
LEMMA StoreRenames ==
  ASSUME TypeOK, KeysInOrder, Rename
  PROVE  KeysInOrder' /\ [Store!Next]_(Store!storeVars)
<1>1. /\ writer.phase = "written" /\ file' = writer.data /\ tmp' = NoBlob
      /\ writer' = Idle /\ UNCHANGED <<key, lastKey, wipe>>
  BY DEF Rename, settings, KeysInOrder, Exists, NoBlob
<1>2. /\ writer.data.whole /\ 1 <= writer.data.key /\ writer.data.key <= lastKey
      /\ writer.data.key # key => ~Opens(file, key)
  BY <1>1 DEF KeysInOrder
<1>3. writer.data.key \in Nat
  BY KeyNumbers
<1>4. writer'.phase = "idle" /\ UnderWay' = {}
  BY <1>1 DEF Idle, UnderWay
<1>5. KeysInOrder'
  BY <1>1, <1>2, <1>4 DEF KeysInOrder
<1>6. CASE writer.data.key = key
  <2>1. UnderWay = {writer.data.items}
    BY <1>1, <1>6 DEF UnderWay
  <2>2. Readable' = {writer.data.items}
    BY <1>1, <1>2, <1>3, <1>6 DEF Readable, Opens, Exists
  <2>3. Store!EndSave
    BY <1>1, <1>4, <2>1, <2>2 DEF Store!EndSave
  <2>4. QED
    BY <1>5, <2>3 DEF Store!Next
<1>7. CASE writer.data.key # key
  <2>1. UnderWay = {} /\ Readable = {}
    BY <1>2, <1>7 DEF UnderWay, Readable
  <2>2. Readable' = {}
    BY <1>1, <1>7 DEF Readable, Opens
  <2>3. QED
    BY <1>1, <1>4, <1>5, <2>1, <2>2 DEF Store!storeVars
<1>8. QED
  BY <1>6, <1>7

\* The file goes, then the temporary file, then the key, and with the key all
\* that was sealed with it.
LEMMA StoreForgets ==
  ASSUME TypeOK, KeysInOrder, WipeFile \/ WipeTmp \/ WipeKey
  PROVE  KeysInOrder' /\ [Store!Next]_(Store!storeVars)
<1>0. key \in Nat /\ lastKey \in Nat /\ file.key \in Nat /\ writer.data.key \in Nat
  BY KeyNumbers
<1>1. CASE WipeFile
  <2>1. /\ wipe.phase # "none" /\ wipe'.phase # "none"
        /\ file' = NoBlob /\ UNCHANGED <<tmp, key, lastKey, writer>>
    BY <1>1 DEF WipeFile, saving, TypeOK, CountTypes
  <2>2. ~Opens(file', key') /\ file'.key = 0
    BY <2>1 DEF Opens, Exists, NoBlob
  <2>3. KeysInOrder'
    BY <1>0, <2>1, <2>2 DEF KeysInOrder
  <2>4. Readable' = {} /\ UnderWay' = UnderWay
    BY <2>1, <2>2 DEF Readable, UnderWay
  <2>5. Store!Forget
    BY <2>1, <2>4 DEF Store!Forget
  <2>6. QED
    BY <2>3, <2>5 DEF Store!Next
<1>2. CASE WipeTmp
  <2>1. /\ wipe.phase # "none" /\ wipe'.phase # "none"
        /\ tmp' = NoBlob /\ UNCHANGED <<file, key, lastKey, writer>>
    BY <1>2 DEF WipeTmp, saving, TypeOK, CountTypes
  <2>2. KeysInOrder'
    BY <2>1 DEF KeysInOrder, Opens, Exists
  <2>3. Readable' = Readable /\ UnderWay' = UnderWay
    BY <2>1 DEF Readable, UnderWay, Opens, Exists
  <2>4. QED
    BY <2>1, <2>2, <2>3 DEF Store!storeVars
<1>3. CASE WipeKey
  <2>1. /\ wipe.phase # "none" /\ wipe'.phase = "none"
        /\ key' = 0 /\ UNCHANGED <<file, tmp, lastKey, writer>>
    BY <1>3 DEF WipeKey, saving, NoWipe
  <2>2. ~Opens(file', key')
    BY <2>1 DEF Opens, Exists
  <2>3. KeysInOrder'
    BY <1>0, <2>1, <2>2 DEF KeysInOrder
  <2>4. Readable' = {}
    BY <2>2 DEF Readable
  <2>5. UnderWay' = {}
    BY <1>0, <2>1 DEF UnderWay, KeysInOrder
  <2>6. Store!EndForget
    BY <2>1, <2>4, <2>5 DEF Store!EndForget
  <2>7. QED
    BY <2>3, <2>6 DEF Store!Next
<1>4. QED
  BY <1>1, <1>2, <1>3

\* A process that dies takes the save and the wipe with it, and nothing stored.
LEMMA StoreDies ==
  ASSUME KeysInOrder, ProcessDies
  PROVE  KeysInOrder' /\ Store!Die
<1>1. /\ UNCHANGED <<file, tmp, key, lastKey>>
      /\ writer'.phase = "idle" /\ wipe'.phase = "none"
  BY DEF ProcessDies, MemoryGone, disk, Idle, NoWipe
<1>2. KeysInOrder'
  BY <1>1 DEF KeysInOrder, Opens, Exists
<1>3. Readable' = Readable /\ UnderWay' = {}
  BY <1>1 DEF Readable, UnderWay, Opens, Exists
<1>4. QED
  BY <1>1, <1>2, <1>3 DEF Store!Die

LEMMA StoreStarts == Init => KeysInOrder /\ Store!Init
<1> SUFFICES ASSUME Init
             PROVE  KeysInOrder /\ Store!Init
  OBVIOUS
<1>1. KeysInOrder
  BY DEF Init, KeysInOrder, NoBlob, Idle
<1>2. Store!Init
  BY DEF Init, Store!Init, Readable, UnderWay, Opens, Exists, NoBlob, Idle, NoWipe
<1>3. QED
  BY <1>1, <1>2

LEMMA StoreStep ==
  TypeOK /\ KeysInOrder /\ [Next]_vars => KeysInOrder' /\ [Store!Next]_(Store!storeVars)
<1> SUFFICES ASSUME TypeOK, KeysInOrder, [Next]_vars
             PROVE  KeysInOrder' /\ [Store!Next]_(Store!storeVars)
  OBVIOUS
<1>0. ASSUME UNCHANGED <<file, tmp, key, lastKey, writer, wipe>>
      PROVE  KeysInOrder' /\ [Store!Next]_(Store!storeVars)
  BY <1>0, StoreWaits
<1>1. CASE WarmReadsPref \/ WarmPublishes
  BY <1>0, <1>1 DEF WarmReadsPref, WarmPublishes, disk, saving, settings
<1>2. CASE WarmLoads
  BY <1>2, StoreLoads
<1>3. CASE \E r \in refreshes : Load(r)
  BY <1>3, StoreLoads
<1>4. CASE \E r \in refreshes : Check(r) \/ CheckDisk(r) \/ Assign(r)
  BY <1>0, <1>4 DEF Check, CheckDisk, Assign, disk, saving, settings
<1>5. CASE \E l \in learns : RunLearn(l)
  BY <1>0, <1>5 DEF RunLearn, disk, settings
<1>6. CASE \E b \in rebuilds : Build(b) \/ Install(b)
  BY <1>0, <1>6 DEF Build, Install, disk, saving, settings
<1>7. CASE Seal
  BY <1>7, StoreSeals DEF Store!Next
<1>8. CASE OpenTmp \/ FillTmp
  BY <1>8, StoreWrites
<1>9. CASE Rename
  BY <1>9, StoreRenames
<1>10. CASE RenameFails \/ Crash
  BY <1>10, StoreDies DEF RenameFails, Crash, Store!Next
<1>11. CASE WipeFile \/ WipeTmp \/ WipeKey
  BY <1>11, StoreForgets
<1>12. CASE Destroy
  BY <1>0, <1>12 DEF Destroy, MemoryGone, disk
<1>13. CASE Forget
  <2>1. /\ wipe.phase = "none" /\ wipe'.phase = "file"
        /\ UNCHANGED <<file, tmp, key, lastKey, writer>>
    BY <1>13 DEF Forget, disk, saving
  <2>2. KeysInOrder'
    BY <2>1 DEF KeysInOrder, Opens, Exists
  <2>3. Readable' = Readable /\ UnderWay' = UnderWay
    BY <2>1 DEF Readable, UnderWay, Opens, Exists
  <2>4. Store!BeginForget
    BY <2>1, <2>3 DEF Store!BeginForget
  <2>5. QED
    BY <2>2, <2>4 DEF Store!Next
<1>14. CASE \E kind \in Kinds, changed \in BOOLEAN : StartInput(kind, changed)
  BY <1>0, <1>14 DEF StartInput, disk, saving, settings
<1>15. CASE FinishInput \/ Learn \/ Toggle
  BY <1>0, <1>15 DEF FinishInput, Learn, Toggle, disk, saving, settings
<1>16. CASE UNCHANGED vars
  BY <1>0, <1>16 DEF vars, disk, saving, settings
<1>17. QED
  BY <1>1, <1>2, <1>3, <1>4, <1>5, <1>6, <1>7, <1>8, <1>9, <1>10, <1>11, <1>12, <1>13,
     <1>14, <1>15, <1>16
  DEF Next, Coroutines, User

\* UserModelRepository.kt:34-37 and 94-101, for every heap and every bound: to a
\* reader the learned model is one value, replaced at once by what a save was
\* given, lost only to the button, and never read again once its key is gone.
THEOREM RepositoryIsAtomic == Spec => ImplementsStore
<1>1. Spec => [](TypeOK /\ KeysInOrder)
  <2>1. TypeOK /\ KeysInOrder /\ [Next]_vars => KeysInOrder'
    BY StoreStep
  <2>2. Init => KeysInOrder
    BY StoreStarts
  <2>3. QED
    BY <2>1, <2>2, LifecycleTypeCorrect, PTL DEF Spec
<1>2. QED
  BY <1>1, StoreStarts, StoreStep, PTL DEF Spec, ImplementsStore, Store!Spec
=============================================================================

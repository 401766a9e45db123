------------------------- MODULE LearningLifecycle -------------------------
(***************************************************************************)
(* Opting in, learning, saving, opting out and forgetting, across the       *)
(* threads of one process and across its deaths:                           *)
(*   CorrectionController.kt   the learning half: warmUp, learn and the     *)
(*                             two refreshes of onStartInput               *)
(*   UserModelRepository.kt    load, the debounced atomic save, wipe        *)
(*   KeystoreKeyProvider.kt    one key, created on demand, deleted by wipe  *)
(*   SettingsActivity.kt       the switch and the forget button            *)
(*                                                                         *)
(* scope.launch runs its block on a pool of threads: each job is a record   *)
(* and each of its steps, between two suspension points or two accesses to  *)
(* a field other threads write, an action.  What one completed pair of      *)
(* words teaches is an item, numbered in the order of typing; what a model  *)
(* does with items is UserNgram.  0 stands for null.                       *)
(***************************************************************************)
EXTENDS Integers, FiniteSets

CONSTANTS Object,       \* the UserNgramModel objects the heap has room for
          MaxItems,     \* bound: pairs the user completes
          MaxFields,    \* bound: fields the user enters
          MaxDisturbances   \* bound: uses of the switch, uses of the forget
                            \* button and deaths, all together

ASSUME ObjectAssumption == 0 \notin Object
ASSUME BoundsAssumption ==
    {MaxItems, MaxFields, MaxDisturbances} \subseteq Nat

Item == 1 .. MaxItems
Blob == [items : SUBSET Item, key : Nat, whole : BOOLEAN]
NoBlob == [items |-> {}, key |-> 0, whole |-> FALSE]

VARIABLES
    pref,       \* the stored opt-in
    file, tmp,  \* user_ngrams.bin and its .tmp
    key,        \* the Keystore key under the learning alias, by number
    lastKey,    \* the keys ever generated
    wipe,       \* how far the wipe has come
    mem,        \* what each model object has learned
    userModel,  \* the controller's model
    engine,     \* the model the engine was built with, 0 without an engine
    enabled,    \* learningEnabled
    warm,       \* how far warmUp has come
    learns,     \* launched and not yet run: record and schedule a save
    refreshes,  \* launched refreshLearningState jobs
    rebuilds,   \* engines to be built and installed, by the job that asked
    pendingSave,    \* the model the debounce timer will save
    writer,     \* the save past its delay, which nothing can cancel
    open,       \* the field in focus may be learned from
    \* History and bounds.
    everOn,     \* the user has opted in at some time
    invited,    \* learning was on, or the keyboard still loading, at this field's start
    used,       \* items typed so far
    forgotten,  \* items typed before a completed forget was asked for
    cleared,    \* a refresh took the model for wiped
    asked,      \* the forget button has been used
    fields, disturbances

disk     == <<file, tmp, key, lastKey>>
heap     == <<mem, userModel, engine>>
jobs     == <<learns, refreshes, rebuilds>>
saving   == <<pendingSave, writer>>
control  == <<enabled, warm>>
settings == <<pref, everOn, wipe, asked, forgotten>>
focus    == <<open, invited, fields>>
vars == <<disk, heap, jobs, saving, control, settings, focus, used, cleared, disturbances>>

Idle == [phase |-> "idle", data |-> NoBlob]
NoWipe == [phase |-> "none", upTo |-> 0]

Init ==
    /\ pref \in BOOLEAN /\ everOn = pref
    /\ file = NoBlob /\ tmp = NoBlob /\ key = 0 /\ lastKey = 0
    /\ wipe = NoWipe
    /\ mem = [o \in Object |-> {}] /\ userModel = 0 /\ engine = 0
    /\ enabled = FALSE /\ warm = "assets"
    /\ learns = {} /\ refreshes = {} /\ rebuilds = {}
    /\ pendingSave = 0 /\ writer = Idle
    /\ open = FALSE /\ invited = FALSE
    /\ used = 0 /\ forgotten = 0 /\ cleared = FALSE
    /\ asked = FALSE /\ fields = 0 /\ disturbances = 0

-----------------------------------------------------------------------------
(* The heap and the disk.                                                  *)

\* Objects something still refers to; the others may be reused.
InUse ==
    {userModel, engine, pendingSave} \cup {l.obj : l \in learns}
        \cup {r.obj : r \in refreshes} \cup {b.obj : b \in rebuilds}
Free == Object \ InUse
\* The heap with items in a fresh object o, and nothing in the other free ones.
Holding(o, items) ==
    [p \in Object |-> IF p = o THEN items ELSE IF p \in Free THEN {} ELSE mem[p]]
Fresh == CHOOSE o \in Free : TRUE

\* KeystoreKeyProvider.getOrCreate.
TheKey == IF key = 0 THEN lastKey + 1 ELSE key
GetOrCreateKey == key' = TheKey /\ lastKey' = IF key = 0 THEN TheKey ELSE lastKey

Exists(blob) == blob.key # 0
Opens(blob, k) == Exists(blob) /\ blob.whole /\ blob.key = k

\* UserModelRepository.load into a fresh object o.  A file that cannot be opened
\* is an empty model; the key is fetched, and so created, whenever there is a file.
LoadInto(o) ==
    /\ mem' = Holding(o, IF Opens(file, key) THEN file.items ELSE {})
    /\ IF Exists(file) THEN GetOrCreateKey ELSE UNCHANGED <<key, lastKey>>

\* The model a session starts from: the stored one, or none while opted out.
FreshModel(o, on) ==
    IF on THEN LoadInto(o)
    ELSE mem' = Holding(o, {}) /\ UNCHANGED <<key, lastKey>>

\* An engine that job number no of a kind has to build.
ToBuild(of, no) == [of |-> of, no |-> no, phase |-> "build", obj |-> 0]

-----------------------------------------------------------------------------
(* warmUp.                                                                 *)

WarmReadsPref ==
    /\ warm = "assets"
    /\ warm' = "load" /\ enabled' = pref
    /\ UNCHANGED <<disk, heap, jobs, saving, settings, focus, used, cleared, disturbances>>

WarmLoads ==
    /\ warm = "load"
    /\ Free # {}
    /\ FreshModel(Fresh, enabled) /\ userModel' = Fresh
    /\ warm' = "publish"
    /\ UNCHANGED <<file, tmp, engine, enabled, jobs, saving, settings, focus,
                   used, cleared, disturbances>>

\* From the moment the artifacts are there the refreshes may run; the engine
\* is still to be built.
WarmPublishes ==
    /\ warm = "publish"
    /\ warm' = "ready" /\ rebuilds' = rebuilds \cup {ToBuild("warmUp", 0)}
    /\ UNCHANGED <<disk, heap, enabled, learns, refreshes, saving, settings, focus,
                   used, cleared, disturbances>>

-----------------------------------------------------------------------------
(* The service.                                                            *)

\* Slip: the switch is not read again.
StartInputUnrefreshed(kind, changed) ==
    /\ fields < MaxFields
    /\ fields' = fields + 1
    /\ open' = (kind = "open")
    /\ invited' = (kind = "open" /\ (pref \/ warm # "ready"))
    /\ UNCHANGED <<disk, heap, jobs, saving, control, settings, used, cleared,
                   disturbances>>

\* onStartInput.  kind is ImeSession's; changed says that the dictionary on disk
\* is no longer the one in memory.  Both refreshes give up without artifacts.
StartInput(kind, changed) ==
    LET refreshed == kind # "secret" /\ warm = "ready"
    IN  /\ fields < MaxFields
        /\ fields' = fields + 1
        /\ open' = (kind = "open")
        /\ invited' = (kind = "open" /\ (pref \/ warm # "ready"))
        /\ enabled' = IF refreshed THEN pref ELSE enabled
        /\ rebuilds' = IF refreshed /\ changed
                       THEN rebuilds \cup {ToBuild("dictionary", fields)}
                       ELSE rebuilds
        /\ refreshes' = IF refreshed
                        THEN refreshes \cup {[no |-> fields, phase |-> "check", on |-> pref,
                                              toggled |-> pref # enabled, obj |-> 0]}
                        ELSE refreshes
        /\ UNCHANGED <<disk, heap, learns, saving, warm, settings, used, cleared, disturbances>>

FinishInput ==
    /\ open /\ open' = FALSE /\ invited' = FALSE
    /\ UNCHANGED <<disk, heap, jobs, saving, control, settings, fields,
                   used, cleared, disturbances>>

\* Slip: the opt-in is not checked.
LearnUnasked ==
    /\ open /\ warm = "ready"
    /\ used < MaxItems
    /\ used' = used + 1
    /\ learns' = learns \cup {[item |-> used + 1, obj |-> userModel]}
    /\ UNCHANGED <<disk, heap, refreshes, rebuilds, saving, control, settings, focus,
                   cleared, disturbances>>

\* learn, from the one call site ImeSession guards with mayLearn.
Learn ==
    /\ open /\ enabled /\ warm = "ready"
    /\ used < MaxItems
    /\ used' = used + 1
    /\ learns' = learns \cup {[item |-> used + 1, obj |-> userModel]}
    /\ UNCHANGED <<disk, heap, refreshes, rebuilds, saving, control, settings, focus,
                   cleared, disturbances>>

\* Slip: the save is left to the next lesson.
RunLearnUnsaved(l) ==
    /\ learns' = learns \ {l}
    /\ mem' = [mem EXCEPT ![l.obj] = @ \cup {l.item}]
    /\ UNCHANGED <<disk, userModel, engine, refreshes, rebuilds, saving, control,
                   settings, focus, used, cleared, disturbances>>

\* The coroutine of learn: record, recordWord, then scheduleSave, which cancels
\* the timer in progress and starts another.
RunLearn(l) ==
    /\ learns' = learns \ {l}
    /\ mem' = [mem EXCEPT ![l.obj] = @ \cup {l.item}]
    /\ pendingSave' = l.obj
    /\ UNCHANGED <<disk, userModel, engine, refreshes, rebuilds, writer, control,
                   settings, focus, used, cleared, disturbances>>

-----------------------------------------------------------------------------
(* refreshLearningState's coroutine.                                       *)

Moved(r, changes) == (refreshes \ {r}) \cup {changes}

\* hasStoredData.
HasStoredData == Exists(file) \/ key # 0

\* Is there anything in memory that could have been wiped?
Check(r) ==
    /\ r.phase = "check"
    /\ refreshes' = IF r.on /\ mem[userModel] # {}
                    THEN Moved(r, [r EXCEPT !.phase = "disk"])
                    ELSE IF r.toggled THEN Moved(r, [r EXCEPT !.phase = "load"])
                    ELSE refreshes \ {r}
    /\ UNCHANGED <<disk, heap, learns, rebuilds, saving, control, settings, focus,
                   used, cleared, disturbances>>

\* A model in memory without anything on disk is taken for a wiped one, and the
\* model that is in memory by now is cleared.
CheckDisk(r) ==
    LET wiped == ~HasStoredData
    IN  /\ r.phase = "disk"
        /\ refreshes' = IF r.toggled \/ wiped THEN Moved(r, [r EXCEPT !.phase = "load"])
                        ELSE refreshes \ {r}
        /\ mem' = IF wiped THEN [mem EXCEPT ![userModel] = {}] ELSE mem
        /\ cleared' = (cleared \/ wiped)
        /\ UNCHANGED <<disk, userModel, engine, learns, rebuilds, saving, control,
                       settings, focus, used, disturbances>>

Load(r) ==
    /\ r.phase = "load"
    /\ Free # {}
    /\ FreshModel(Fresh, r.on)
    /\ refreshes' = Moved(r, [r EXCEPT !.phase = "assign", !.obj = Fresh])
    /\ UNCHANGED <<file, tmp, userModel, engine, learns, rebuilds, saving, control,
                   settings, focus, used, cleared, disturbances>>

Assign(r) ==
    /\ r.phase = "assign"
    /\ userModel' = r.obj
    /\ refreshes' = refreshes \ {r}
    /\ rebuilds' = rebuilds \cup {ToBuild("learning", r.no)}
    /\ UNCHANGED <<disk, mem, engine, learns, saving, control, settings,
                   focus, used, cleared, disturbances>>

-----------------------------------------------------------------------------
(* The last lines of warmUp and of the two refreshes: an engine is built     *)
(* around the model of the moment, and takes the place of the current one.  *)

\* Slip: the engine is built around no model.
BuildBlank(b) ==
    /\ b.phase = "build"
    /\ rebuilds' = (rebuilds \ {b}) \cup {[b EXCEPT !.phase = "install"]}
    /\ UNCHANGED <<disk, heap, learns, refreshes, saving, control, settings, focus,
                   used, cleared, disturbances>>

Build(b) ==
    /\ b.phase = "build"
    /\ rebuilds' = (rebuilds \ {b}) \cup {[b EXCEPT !.phase = "install", !.obj = userModel]}
    /\ UNCHANGED <<disk, heap, learns, refreshes, saving, control, settings, focus,
                   used, cleared, disturbances>>

Install(b) ==
    /\ b.phase = "install"
    /\ engine' = b.obj
    /\ rebuilds' = rebuilds \ {b}
    /\ UNCHANGED <<disk, mem, userModel, learns, refreshes, saving, control, settings,
                   focus, used, cleared, disturbances>>

-----------------------------------------------------------------------------
(* saveNow, once the debounce delay is over.  The delay is far longer than a *)
(* save, so the next one does not start before this one ends.              *)

Seal ==
    /\ pendingSave # 0 /\ writer.phase = "idle"
    /\ GetOrCreateKey
    /\ writer' = [phase |-> "sealed",
                  data |-> [items |-> mem[pendingSave], key |-> TheKey, whole |-> TRUE]]
    /\ pendingSave' = 0
    /\ UNCHANGED <<file, tmp, heap, jobs, control, settings, focus, used, cleared, disturbances>>

\* Slip: the blob is written in place.
OpenInPlace ==
    /\ writer.phase = "sealed"
    /\ file' = [writer.data EXCEPT !.whole = FALSE]
    /\ tmp' = writer.data
    /\ writer' = [writer EXCEPT !.phase = "writing"]
    /\ UNCHANGED <<key, lastKey, heap, jobs, pendingSave, control, settings, focus,
                   used, cleared, disturbances>>

\* writeBytes opens the temporary file ...
OpenTmp ==
    /\ writer.phase = "sealed"
    /\ tmp' = [writer.data EXCEPT !.whole = FALSE]
    /\ writer' = [writer EXCEPT !.phase = "writing"]
    /\ UNCHANGED <<file, key, lastKey, heap, jobs, pendingSave, control, settings, focus,
                   used, cleared, disturbances>>

\* ... and fills it, if a wipe has not unlinked it.
FillTmp ==
    /\ writer.phase = "writing"
    /\ tmp' = IF Exists(tmp) THEN writer.data ELSE NoBlob
    /\ writer' = [writer EXCEPT !.phase = "written"]
    /\ UNCHANGED <<file, key, lastKey, heap, jobs, pendingSave, control, settings, focus,
                   used, cleared, disturbances>>

Rename ==
    /\ writer.phase = "written" /\ Exists(tmp)
    /\ file' = tmp /\ tmp' = NoBlob
    /\ writer' = Idle
    /\ UNCHANGED <<key, lastKey, heap, jobs, pendingSave, control, settings, focus,
                   used, cleared, disturbances>>

-----------------------------------------------------------------------------
(* The settings screen, in the same process.                               *)

Disturb == disturbances < MaxDisturbances /\ disturbances' = disturbances + 1

Toggle ==
    /\ Disturb
    /\ pref' = ~pref /\ everOn' = (everOn \/ ~pref)
    /\ UNCHANGED <<disk, heap, jobs, saving, control, wipe, asked, forgotten, focus,
                   used, cleared>>

\* The forget button: wipe() on the screen's own repository, whose pendingSave
\* is always null.
Forget ==
    /\ wipe.phase = "none" /\ Disturb
    /\ asked' = TRUE
    /\ wipe' = [phase |-> "file", upTo |-> used]
    /\ UNCHANGED <<disk, heap, jobs, saving, control, pref, everOn, forgotten, focus,
                   used, cleared>>

WipeFile ==
    /\ wipe.phase = "file"
    /\ file' = NoBlob
    /\ wipe' = [wipe EXCEPT !.phase = "tmp"]
    /\ UNCHANGED <<tmp, key, lastKey, heap, jobs, saving, control, pref, everOn, asked,
                   forgotten, focus, used, cleared, disturbances>>

WipeTmp ==
    /\ wipe.phase = "tmp"
    /\ tmp' = NoBlob
    /\ wipe' = [wipe EXCEPT !.phase = "key"]
    /\ UNCHANGED <<file, key, lastKey, heap, jobs, saving, control, pref, everOn, asked,
                   forgotten, focus, used, cleared, disturbances>>

\* Slip: the key outlives the wipe.
WipeSparingKey ==
    /\ wipe.phase = "key"
    /\ forgotten' = wipe.upTo
    /\ wipe' = NoWipe
    /\ UNCHANGED <<disk, heap, jobs, saving, control, pref, everOn, asked,
                   focus, used, cleared, disturbances>>

WipeKey ==
    /\ wipe.phase = "key"
    /\ key' = 0
    /\ forgotten' = wipe.upTo
    /\ wipe' = NoWipe
    /\ UNCHANGED <<file, tmp, lastKey, heap, jobs, saving, control, pref, everOn, asked,
                   focus, used, cleared, disturbances>>

-----------------------------------------------------------------------------
(* Endings.  What is in memory goes; the next keyboard starts with warmUp.   *)

MemoryGone ==
    /\ mem' = [o \in Object |-> {}] /\ userModel' = 0 /\ engine' = 0
    /\ enabled' = FALSE /\ warm' = "assets"
    /\ learns' = {} /\ refreshes' = {} /\ rebuilds' = {}
    /\ pendingSave' = 0
    /\ open' = FALSE /\ invited' = FALSE
    /\ UNCHANGED <<disk, pref, everOn, asked, forgotten, fields, used, cleared>>

ProcessDies == MemoryGone /\ writer' = Idle /\ wipe' = NoWipe

\* The process is killed, between any two steps.
Crash ==
    /\ Disturb
    /\ ProcessDies

\* onDestroy: the scope is cancelled; a save past its delay goes on.
Destroy ==
    /\ Disturb
    /\ MemoryGone /\ UNCHANGED <<writer, wipe>>

\* The wipe has taken the temporary file: saveNow throws, and nothing between
\* it and the thread's default handler catches.
RenameFails ==
    /\ writer.phase = "written" /\ ~Exists(tmp)
    /\ ProcessDies /\ UNCHANGED disturbances

-----------------------------------------------------------------------------
Kinds == {"open", "private", "secret"}

Coroutines ==
    \/ WarmReadsPref \/ WarmLoads \/ WarmPublishes
    \/ \E l \in learns : RunLearn(l)
    \/ \E r \in refreshes : Check(r) \/ CheckDisk(r) \/ Load(r) \/ Assign(r)
    \/ \E b \in rebuilds : Build(b) \/ Install(b)
    \/ Seal \/ OpenTmp \/ FillTmp \/ Rename \/ RenameFails
    \/ WipeFile \/ WipeTmp \/ WipeKey

User ==
    \/ \E kind \in Kinds, changed \in BOOLEAN : StartInput(kind, changed)
    \/ FinishInput
    \/ Learn
    \/ Toggle
    \/ Forget

Next == Coroutines \/ User \/ Crash \/ Destroy

\* The pool runs every job that is ready, the timer fires and the disk answers.
Spec == Init /\ [][Next]_vars /\ WF_vars(Coroutines)

-----------------------------------------------------------------------------
FlagTypes ==
    /\ pref \in BOOLEAN /\ everOn \in BOOLEAN /\ enabled \in BOOLEAN
    /\ open \in BOOLEAN /\ invited \in BOOLEAN
    /\ cleared \in BOOLEAN /\ asked \in BOOLEAN
DiskTypes ==
    /\ file \in Blob /\ tmp \in Blob /\ key \in Nat /\ lastKey \in Nat
    /\ writer \in [phase : {"idle", "sealed", "writing", "written"}, data : Blob]
HeapTypes ==
    /\ mem \in [Object -> SUBSET Item]
    /\ userModel \in Object \cup {0} /\ engine \in Object \cup {0}
    /\ pendingSave \in Object \cup {0}
JobTypes ==
    /\ warm \in {"assets", "load", "publish", "ready"}
    /\ learns \subseteq [item : Item, obj : Object]
    /\ refreshes \subseteq [no : Nat, phase : {"check", "disk", "load", "assign"},
                            on : BOOLEAN, toggled : BOOLEAN, obj : Object \cup {0}]
    /\ rebuilds \subseteq [of : {"warmUp", "dictionary", "learning"}, no : Nat,
                           phase : {"build", "install"}, obj : Object \cup {0}]
    /\ \A r \in refreshes : r.phase = "assign" => r.obj # 0
    /\ \A b \in rebuilds : b.phase = "install" => b.obj # 0
\* Nothing works on a model before warmUp has left one.
ModelThere ==
    /\ warm \in {"publish", "ready"} => userModel # 0
    /\ refreshes # {} \/ rebuilds # {} => userModel # 0
CountTypes ==
    /\ wipe \in [phase : {"none", "file", "tmp", "key"}, upTo : Nat]
    /\ used \in Nat /\ forgotten \in Nat /\ fields \in Nat /\ disturbances \in Nat

\* The types of the preferences, the disk, the heap, the jobs and the history.
TypeOK == FlagTypes /\ DiskTypes /\ HeapTypes /\ JobTypes /\ ModelThere /\ CountTypes

\* CorrectionController.kt:86 and KeystoreKeyProvider: until the user opts in,
\* nothing is learned, no byte is written and not even a key is created.
NoTraceWithoutOptIn ==
    ~everOn => /\ used = 0 /\ lastKey = 0
               /\ ~Exists(file) /\ ~Exists(tmp)

\* UserModelRepository.kt:34-37: whatever dies, and whenever, the file is never
\* half-written: it can be opened with the key it was sealed with.
FileIsWhole == Exists(file) => file.whole

\* CorrectionController.kt:372-375: the switch takes effect at the next field.
\* What is typed in a field is learned only if learning was on when the field
\* was entered, or the keyboard was still loading then.
LearnedOnlyWhenInvited == [][Learn => invited]_vars

\* UserModelRepository.kt:22-30: every pair learned reaches the file, if the
\* user leaves the switch and the button alone, the process lives on and the
\* model is not taken for wiped.
Disturbed == disturbances > 0 \/ cleared
LessonsReachTheFile ==
    \A i \in Item : used = i ~> (i \in file.items \/ Disturbed)

-----------------------------------------------------------------------------
\* The steps of saves and wipes are those of a store of one value.
Readable == IF Opens(file, key) THEN {file.items} ELSE {}
UnderWay ==
    IF writer.phase # "idle" /\ writer.data.key = key THEN {writer.data.items} ELSE {}

Store ==
    INSTANCE AtomicStore WITH
        Value      <- SUBSET Item,
        stored     <- Readable,
        saving     <- UnderWay,
        forgetting <- wipe.phase # "none"

\* UserModelRepository.kt:34-37 and 94-101: a save is seen whole or not at all,
\* what is stored is lost only to the button, and once the key is gone nothing
\* that was sealed before, stored or on its way, will ever be read.
ImplementsStore == Store!Spec

-----------------------------------------------------------------------------
\* CorrectionController.kt:387-390: the model in memory is cleared because the
\* user asked for it to be forgotten.
NoFalseForget == cleared => asked

\* UserModelRepository.kt:94-101: once a wipe is complete, nothing learned before
\* it was asked for can be read from the disk.
ForgetIsFinal == Opens(file, key) => \A i \in file.items : i > forgotten

\* CorrectionController.kt:377: learning off, and the rebuilding done, the engine
\* suggests from nothing that was learned.
OffMeansDropped ==
    (engine # 0 /\ ~enabled /\ refreshes = {} /\ rebuilds = {} /\ learns = {})
        => mem[engine] = {}
=============================================================================

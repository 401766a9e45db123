-------------------------- MODULE DictionaryStore --------------------------
(***************************************************************************)
(* The personal dictionary: the settings screen that edits it, the file    *)
(* and the key it is kept in, and the keyboard that reads it, in one       *)
(* process that may die:                                                   *)
(*   SettingsActivity.kt              the screen's list and its buttons    *)
(*   PersonalDictionaryRepository.kt  load, save, wipe                     *)
(*   CorrectionController.kt          the dictionary half of warmUp and of *)
(*                                    the refreshes of onStartInput        *)
(* Each edit launches a save of its own, and all saves go through one      *)
(* temporary file.  Paths name inodes, since a save that opened the        *)
(* temporary file still writes to it after another has renamed it.  0      *)
(* stands for no inode and for no key.                                     *)
(***************************************************************************)
EXTENDS Naturals, FiniteSets

CONSTANTS Word,         \* words the user may add
          Inode,        \* inodes the directory has room for
          MaxEdits,     \* bound: edits and wipes of the dictionary
          MaxFields,    \* bound: fields the user enters
          MaxVisits,    \* bound: visits to the settings screen
          MaxDeaths     \* bound: kills of the process and of the keyboard

ASSUME WordAssumption == IsFiniteSet(Word)
ASSUME InodeAssumption == Inode # {} /\ 0 \notin Inode
ASSUME BoundsAssumption == {MaxEdits, MaxFields, MaxVisits, MaxDeaths} \subseteq Nat

VARIABLES
    file, tmp,  \* the inodes of personal_dictionary.bin and of its .tmp
    data,       \* what each inode holds
    key,        \* the Keystore key, by number
    lastKey,    \* the keys ever generated
    screen,     \* the settings screen: closed, loading or open
    read,       \* what the screen's load has read, not yet shown
    shown,      \* the words of the screen's dictionary
    saves,      \* saves launched and not over
    wipes,      \* wipes confirmed and not over
    warm,       \* how far warmUp has come
    personal,   \* the controller's dictionary
    engine,     \* the dictionary the engine was built with
    refreshes,  \* launched refreshPersonalDictionary jobs
    rebuilds,   \* engines to be built for another reason
    \* History and bounds.
    stored,     \* what the last save or wipe that got through was to leave
    overlap,    \* an operation of the screen began before another was over
    raced,      \* two jobs of the keyboard were under way together
    settled,    \* nothing but the keyboard moved since the last field was entered
    edits, fields, visits, deaths

store    == <<file, tmp, data, key, lastKey>>
settings == <<screen, read, shown, wipes>>
keyboard == <<warm, personal, engine, refreshes, rebuilds>>
history  == <<stored, overlap, raced, settled>>
bounds   == <<edits, fields, visits, deaths>>
vars == <<store, settings, saves, keyboard, history, bounds>>

\* An inode holds the start of some sealed blob, or something that is none.
Content == [words : SUBSET Word, key : Nat, whole : BOOLEAN, length : Nat]
Blank == [words |-> {}, key |-> 0, whole |-> FALSE, length |-> 0]
\* The longer the list, the longer the blob.
Blob(words, k) == [words |-> words, key |-> k, whole |-> TRUE, length |-> Cardinality(words)]

Init ==
    /\ \/ /\ file = 0 /\ key = 0 /\ lastKey = 0 /\ stored = {}
          /\ data = [i \in Inode |-> Blank]
       \/ /\ file = (CHOOSE i \in Inode : TRUE) /\ key = 1 /\ lastKey = 1 /\ stored \in SUBSET Word
          /\ data = [i \in Inode |-> IF i = file THEN Blob(stored, 1) ELSE Blank]
    /\ tmp = 0
    /\ screen = "closed" /\ read = {} /\ shown = {} /\ saves = {} /\ wipes = {}
    /\ warm = "assets" /\ personal = {} /\ engine = {} /\ refreshes = {} /\ rebuilds = {}
    /\ overlap = FALSE /\ raced = FALSE /\ settled = FALSE
    /\ edits = 0 /\ fields = 0 /\ visits = 0 /\ deaths = 0

-----------------------------------------------------------------------------
(* The file and the key.                                                   *)

InUse == {file, tmp} \cup {s.ino : s \in saves}
Fresh == CHOOSE i \in Inode \ InUse : TRUE

\* Slip: the alias is not looked up first.
AnotherKey == lastKey + 1

\* KeystoreKeyProvider.getOrCreate.
TheKey == IF key = 0 THEN lastKey + 1 ELSE key
GetOrCreateKey == key' = TheKey /\ lastKey' = IF key = 0 THEN TheKey ELSE lastKey

Opens(i, k) == i # 0 /\ data[i].whole /\ data[i].key = k
\* load: a file that is missing or cannot be opened is an empty dictionary.
Loaded == IF Opens(file, key) THEN data[file].words ELSE {}
\* It fetches, and so creates, the key whenever there is a file.
LoadTouchesKey == IF file = 0 THEN UNCHANGED <<key, lastKey>> ELSE GetOrCreateKey

-----------------------------------------------------------------------------
(* The settings screen, on the main thread.                                *)

Busy == saves # {} \/ wipes # {} \/ screen \in {"loading", "read"}

Begins == overlap' = (overlap \/ Busy) /\ settled' = FALSE

\* The dictionary of the screen gives way to another: a save under way keeps
\* what it held.
Detached == {IF s.live THEN [s EXCEPT !.live = FALSE, !.words = shown] ELSE s : s \in saves}

\* The screen appears with an empty dictionary and launches a load.
OpenScreen ==
    /\ screen = "closed" /\ visits < MaxVisits
    /\ screen' = "loading" /\ read' = {} /\ shown' = {} /\ visits' = visits + 1
    /\ Begins
    /\ UNCHANGED <<store, saves, wipes, keyboard, stored, raced, edits, fields, deaths>>

ScreenReads ==
    /\ screen = "loading" /\ read' = Loaded
    /\ LoadTouchesKey
    /\ screen' = "read"
    /\ UNCHANGED <<file, tmp, data, shown, saves, wipes, keyboard, history, bounds>>

ScreenShows ==
    /\ screen = "read"
    /\ screen' = "open" /\ shown' = read /\ read' = {} /\ saves' = Detached
    /\ UNCHANGED <<store, wipes, keyboard, history, bounds>>

\* A button that changes the list launches a save.  It is there before the
\* load is.
Edit(words) ==
    /\ screen # "closed" /\ edits < MaxEdits
    /\ shown' = words /\ edits' = edits + 1
    /\ saves' = saves \cup {[no |-> edits, phase |-> "launched", live |-> FALSE,
                             words |-> {}, meant |-> words, key |-> 0, ino |-> 0]}
    /\ Begins
    /\ UNCHANGED <<store, screen, read, wipes, keyboard, stored, raced, fields, visits, deaths>>

Add(w) == Edit(shown \cup {w})
Remove(w) == w \in shown /\ Edit(shown \ {w})

\* The confirmed wipe.
AskWipe ==
    /\ screen # "closed" /\ shown # {} /\ edits < MaxEdits
    /\ wipes' = wipes \cup {[no |-> edits, phase |-> "asked", live |-> TRUE]}
    /\ edits' = edits + 1
    /\ Begins
    /\ UNCHANGED <<store, screen, read, shown, saves, keyboard, stored, raced,
                   fields, visits, deaths>>

\* The screen goes, on a rotation for one, and with it what has not started.
CloseScreen ==
    /\ screen # "closed"
    /\ screen' = "closed" /\ read' = {} /\ shown' = {}
    /\ saves' = {s \in Detached : s.phase # "launched"}
    /\ wipes' = {[w EXCEPT !.live = FALSE] : w \in {v \in wipes : v.phase \in {"file", "tmp"}}}
    /\ settled' = FALSE
    /\ UNCHANGED <<store, keyboard, stored, overlap, raced, bounds>>

-----------------------------------------------------------------------------
(* save.                                                                   *)

Moved(s, to) == saves' = (saves \ {s}) \cup {to}

\* The block runs on the main thread, takes the dictionary of the moment and
\* begins to serialise it on another thread.
Start(s) ==
    /\ s.phase = "launched"
    /\ Moved(s, [s EXCEPT !.phase = "reading", !.live = TRUE, !.words = shown])
    /\ UNCHANGED <<store, settings, keyboard, history, bounds>>

\* A tree set changed while it is read yields its old words, or its new ones.
Seal(s) ==
    /\ s.phase = "reading"
    /\ \E words \in {s.words} \cup IF s.live THEN {shown} ELSE {} :
          Moved(s, [s EXCEPT !.phase = "sealed", !.live = FALSE, !.words = words,
                             !.key = TheKey])
    /\ GetOrCreateKey
    /\ UNCHANGED <<file, tmp, data, settings, keyboard, history, bounds>>

\* Slip: the file itself is written.
OpenInPlace(s) ==
    /\ s.phase = "sealed"
    /\ tmp' = IF file # 0 THEN file ELSE Fresh
    /\ data' = [i \in Inode |-> IF i = tmp' \/ i \notin InUse THEN Blank ELSE data[i]]
    /\ Moved(s, [s EXCEPT !.phase = "opened", !.ino = tmp'])
    /\ UNCHANGED <<file, key, lastKey, settings, keyboard, history, bounds>>

\* writeBytes truncates the temporary file, or creates it, ...
OpenTmp(s) ==
    /\ s.phase = "sealed"
    /\ tmp # 0 \/ Inode \ InUse # {}
    /\ tmp' = IF tmp # 0 THEN tmp ELSE Fresh
    /\ data' = [i \in Inode |-> IF i = tmp' \/ i \notin InUse THEN Blank ELSE data[i]]
    /\ Moved(s, [s EXCEPT !.phase = "opened", !.ino = tmp'])
    /\ UNCHANGED <<file, key, lastKey, settings, keyboard, history, bounds>>

\* ... and writes from its start, over what another save has put there since.
FillTmp(s) ==
    LET blob == Blob(s.words, s.key)
        old == data[s.ino]
    IN  /\ s.phase = "opened"
        /\ data' = [data EXCEPT ![s.ino] =
                       IF old.length <= blob.length THEN blob
                       ELSE [Blank EXCEPT !.length = old.length]]
        /\ Moved(s, [s EXCEPT !.phase = "filled"])
        /\ UNCHANGED <<file, tmp, key, lastKey, settings, keyboard, history, bounds>>

Rename(s) ==
    /\ s.phase = "filled" /\ tmp # 0
    /\ file' = tmp /\ tmp' = 0
    /\ saves' = saves \ {s}
    /\ stored' = s.meant
    /\ UNCHANGED <<data, key, lastKey, settings, keyboard, overlap, raced, settled, bounds>>

-----------------------------------------------------------------------------
(* wipe, and the list it leaves.                                           *)

WipeMoved(w, phase) == wipes' = (wipes \ {w}) \cup {[w EXCEPT !.phase = phase]}

WipeFile(w) ==
    /\ w.phase = "asked"
    /\ WipeMoved(w, "file")
    /\ file' = 0 /\ stored' = {}
    /\ UNCHANGED <<tmp, data, key, lastKey, screen, read, shown, saves, keyboard,
                   overlap, raced, settled, bounds>>

WipeTmp(w) ==
    /\ w.phase = "file"
    /\ WipeMoved(w, "tmp")
    /\ tmp' = 0
    /\ UNCHANGED <<file, data, key, lastKey, screen, read, shown, saves, keyboard,
                   history, bounds>>

\* A screen that has gone is not told.
WipeKey(w) ==
    /\ w.phase = "tmp"
    /\ IF w.live THEN WipeMoved(w, "wiped") ELSE wipes' = wipes \ {w}
    /\ key' = 0
    /\ UNCHANGED <<file, tmp, data, lastKey, screen, read, shown, saves, keyboard,
                   history, bounds>>

\* Slip: the list is cleared and the dictionary kept.
WipeShowsNothing(w) ==
    /\ w.phase = "wiped"
    /\ wipes' = wipes \ {w}
    /\ UNCHANGED <<store, screen, read, shown, saves, keyboard, history, bounds>>

WipeShows(w) ==
    /\ w.phase = "wiped"
    /\ wipes' = wipes \ {w}
    /\ shown' = {} /\ saves' = Detached
    /\ UNCHANGED <<store, screen, read, keyboard, history, bounds>>

-----------------------------------------------------------------------------
(* The keyboard.  Its jobs run on a pool of threads; what they do with the *)
(* learned model is LearningLifecycle.                                     *)

AtRest == refreshes = {} /\ rebuilds = {}
Job(no, phase) == [no |-> no, phase |-> phase, words |-> {}]

WarmReads ==
    /\ warm = "assets"
    /\ warm' = "publish" /\ personal' = Loaded
    /\ LoadTouchesKey
    /\ UNCHANGED <<file, tmp, data, settings, saves, engine, refreshes, rebuilds,
                   history, bounds>>

WarmPublishes ==
    /\ warm = "publish"
    /\ warm' = "ready" /\ rebuilds' = rebuilds \cup {Job(0, "build")}
    /\ UNCHANGED <<store, settings, saves, personal, engine, refreshes, history, bounds>>

\* onStartInput in a field that may show suggestions; toggled says that the
\* refresh of the learning state has an engine to build as well.
StartInput(toggled) ==
    /\ fields < MaxFields /\ fields' = fields + 1
    /\ IF warm = "ready"
       THEN /\ refreshes' = refreshes \cup {Job(fields + 1, "read")}
            /\ rebuilds' = IF toggled THEN rebuilds \cup {Job(fields + 1, "build")}
                           ELSE rebuilds
            /\ raced' = (raced \/ toggled \/ ~AtRest)
            /\ settled' = (AtRest /\ ~Busy)
       ELSE UNCHANGED <<refreshes, rebuilds, raced, settled>>
    /\ UNCHANGED <<store, settings, saves, warm, personal, engine, stored, overlap,
                   edits, visits, deaths>>

RefreshReads(r) ==
    /\ r.phase = "read"
    /\ refreshes' = (refreshes \ {r}) \cup {[r EXCEPT !.phase = "compare", !.words = Loaded]}
    /\ LoadTouchesKey
    /\ UNCHANGED <<file, tmp, data, settings, saves, warm, personal, engine, rebuilds,
                   history, bounds>>

\* Slip: dictionaries of one size are taken for the same.
RefreshComparesSizes(r) ==
    /\ r.phase = "compare"
    /\ IF Cardinality(r.words) = Cardinality(personal)
       THEN refreshes' = refreshes \ {r} /\ UNCHANGED personal
       ELSE /\ personal' = r.words
            /\ refreshes' = (refreshes \ {r}) \cup {[r EXCEPT !.phase = "install"]}
    /\ UNCHANGED <<store, settings, saves, warm, engine, rebuilds, history, bounds>>

\* Nothing to do unless the dictionary has changed.
RefreshCompares(r) ==
    /\ r.phase = "compare"
    /\ IF r.words = personal
       THEN refreshes' = refreshes \ {r} /\ UNCHANGED personal
       ELSE /\ personal' = r.words
            /\ refreshes' = (refreshes \ {r}) \cup {[r EXCEPT !.phase = "install"]}
    /\ UNCHANGED <<store, settings, saves, warm, engine, rebuilds, history, bounds>>

RefreshInstalls(r) ==
    /\ r.phase = "install"
    /\ engine' = r.words /\ refreshes' = refreshes \ {r}
    /\ UNCHANGED <<store, settings, saves, warm, personal, rebuilds, history, bounds>>

\* Another job builds an engine around the dictionary of the moment, ...
Builds(b) ==
    /\ b.phase = "build"
    /\ rebuilds' = (rebuilds \ {b}) \cup {[b EXCEPT !.phase = "install", !.words = personal]}
    /\ UNCHANGED <<store, settings, saves, warm, personal, engine, refreshes, history, bounds>>

\* ... which takes the place of the current one.
Installs(b) ==
    /\ b.phase = "install"
    /\ engine' = b.words /\ rebuilds' = rebuilds \ {b}
    /\ UNCHANGED <<store, settings, saves, warm, personal, refreshes, history, bounds>>

-----------------------------------------------------------------------------
(* Endings.                                                                *)

KeyboardGone ==
    /\ warm' = "assets" /\ personal' = {} /\ engine' = {}
    /\ refreshes' = {} /\ rebuilds' = {}
    /\ raced' = FALSE /\ settled' = FALSE

ProcessDies ==
    /\ screen' = "closed" /\ read' = {} /\ shown' = {} /\ saves' = {} /\ wipes' = {}
    /\ KeyboardGone
    /\ UNCHANGED <<store, stored, overlap>>

Crash ==
    /\ deaths < MaxDeaths /\ deaths' = deaths + 1
    /\ ProcessDies /\ UNCHANGED <<edits, fields, visits>>

\* onDestroy of the keyboard: the screen, in the same process, goes on.
Destroy ==
    /\ deaths < MaxDeaths /\ deaths' = deaths + 1
    /\ KeyboardGone
    /\ UNCHANGED <<store, settings, saves, stored, overlap, edits, fields, visits>>

\* Another save has renamed the temporary file, or a wipe removed it; the
\* exception leaves a coroutine nobody watches.
RenameFails(s) ==
    /\ s.phase = "filled" /\ tmp = 0
    /\ ProcessDies /\ UNCHANGED bounds

\* A tree set changed while it is read may throw instead.
SealThrows(s) ==
    /\ s.phase = "reading" /\ s.live /\ s.words # shown
    /\ ProcessDies /\ UNCHANGED bounds

-----------------------------------------------------------------------------
Screen ==
    \/ OpenScreen \/ ScreenReads \/ ScreenShows \/ CloseScreen
    \/ \E w \in Word : Add(w) \/ Remove(w)
    \/ AskWipe
    \/ \E w \in wipes : WipeFile(w) \/ WipeTmp(w) \/ WipeKey(w) \/ WipeShows(w)
Saving ==
    \E s \in saves : \/ Start(s) \/ Seal(s) \/ OpenTmp(s) \/ FillTmp(s)
                     \/ Rename(s) \/ RenameFails(s) \/ SealThrows(s)
Keyboard ==
    \/ WarmReads \/ WarmPublishes
    \/ \E toggled \in BOOLEAN : StartInput(toggled)
    \/ \E r \in refreshes : RefreshReads(r) \/ RefreshCompares(r) \/ RefreshInstalls(r)
    \/ \E b \in rebuilds : Builds(b) \/ Installs(b)

Next == Screen \/ Saving \/ Keyboard \/ Crash \/ Destroy

Spec == Init /\ [][Next]_vars

-----------------------------------------------------------------------------
\* PersonalDictionaryRepository.kt:16-19: what can be read from the disk is what
\* the last save or wipe that got through was to leave, whatever died in
\* between, unless two operations of the screen overlapped.
SavedWordsSurvive == ~overlap => Loaded = stored

\* SettingsActivity.kt:57-58, "they can see exactly what is stored": when nothing
\* is under way and no operations overlapped, through visits, wipes and deaths.
ScreenTellsTheTruth == (~overlap /\ screen = "open" /\ ~Busy) => shown = Loaded

\* CorrectionController.kt:299-302: once a field has been entered with nothing
\* else under way, the keyboard's dictionary is the stored one, whatever happened
\* before; so is its engine's, unless two of its jobs were once under way together.
KeyboardFollows ==
    (settled /\ AtRest) =>
        /\ personal = Loaded
        /\ raced \/ engine = Loaded

\* What the disk yields, for AtomicStore, and what is on its way there.
Readable == IF Opens(file, key) THEN {data[file].words} ELSE {}
UnderWay == {s.meant : s \in saves}

Store ==
    INSTANCE AtomicStore WITH
        Value      <- SUBSET Word,
        stored     <- Readable,
        saving     <- UnderWay,
        forgetting <- \E w \in wipes : w.phase # "wiped"

\* PersonalDictionaryRepository.kt:16-19, step by step: what a reader finds changes
\* only as a save launched by a button ends, to what the list then showed, or in
\* a confirmed wipe, until two operations of the screen overlap.
ActsAsStore == Store!Init /\ [][overlap' \/ Store!Next]_(Store!storeVars)

\* PersonalDictionaryRepository.kt:16-17, "writes are atomic": the file is a whole
\* blob, even where edits follow each other quickly.
WritesAreAtomic == file # 0 => data[file].whole
=============================================================================

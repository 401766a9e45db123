-------------------------- MODULE DictionaryProofs --------------------------
(***************************************************************************)
(* As long as the operations of the screen do not overlap, at most one save *)
(* is under way and nothing else with it: what it seals is what it was      *)
(* launched for, the temporary file is its own, and the file and the key    *)
(* belong together whenever the process dies (Sound); the list is what is   *)
(* stored, or what the save under way is to store (Listed).  The types and  *)
(* the keyboard's half need no such condition: whatever overlaps, no blob   *)
(* was sealed with a key still to come (Valid), and a keyboard whose jobs   *)
(* never raced has one at a time, whose words are those the file still      *)
(* yields once a field was entered at rest (Orderly).  For every set of     *)
(* words, and any number of edits, visits, fields and deaths.               *)
(***************************************************************************)
EXTENDS DictionaryStore, FiniteSetTheorems, TLAPS

Save == [no : Nat, phase : {"launched", "reading", "sealed", "opened", "filled"},
         live : BOOLEAN, words : SUBSET Word, meant : SUBSET Word, key : Nat,
         ino : Inode \cup {0}]

Types ==
    /\ file \in Inode \cup {0} /\ tmp \in Inode \cup {0}
    /\ data \in [Inode -> Content]
    /\ key \in Nat /\ lastKey \in Nat /\ edits \in Nat
    /\ stored \in SUBSET Word /\ shown \in SUBSET Word /\ read \in SUBSET Word
    /\ saves \in SUBSET Save
    /\ overlap \in BOOLEAN

\* The file opens with the key and holds what it should.
Kept ==
    /\ file = 0 => stored = {}
    /\ file # 0 => /\ key # 0 /\ tmp # file
                   /\ data[file].whole /\ data[file].key = key
                   /\ data[file].words = stored

\* A save has the store and the list to itself.
Alone ==
    /\ \A s, t \in saves : s = t
    /\ saves # {} => wipes = {} /\ screen \notin {"loading", "read"}
    /\ \A w \in wipes : w.phase \in {"file", "tmp"} => file = 0

\* What a save holds at each of its steps.
Faithful(s) ==
    /\ s.phase = "launched" => ~s.live /\ shown = s.meant
    /\ s.phase # "launched" => s.words = s.meant
    /\ s.live => s.phase = "reading" /\ shown = s.meant
    /\ s.phase \in {"sealed", "opened", "filled"} => key # 0 /\ s.key = key
    /\ s.phase \in {"opened", "filled"} => tmp # 0 /\ s.ino = tmp
    /\ s.phase = "opened" => data[tmp].length = 0
    /\ s.phase = "filled" => /\ data[tmp].whole /\ data[tmp].key = key
                             /\ data[tmp].words = s.meant
SavesFaithful == \A s \in saves : Faithful(s)

Sound == Types /\ Kept /\ Alone /\ SavesFaithful
IInv == overlap = TRUE \/ Sound

touched == <<store, screen, read, shown, wipes, saves, stored, overlap, edits>>

LEMMA Start0 == Init => Sound
<1> SUFFICES ASSUME Init PROVE Sound
  OBVIOUS
<1>1. (CHOOSE i \in Inode : TRUE) \in Inode
  BY InodeAssumption
<1>2. \A words \in SUBSET Word : Blob(words, 1) \in Content
  <2> SUFFICES ASSUME NEW words \in SUBSET Word PROVE Blob(words, 1) \in Content
    OBVIOUS
  <2>1. Cardinality(words) \in Nat
    BY WordAssumption, FS_Subset, FS_CardinalityType
  <2>2. QED
    BY <2>1 DEF Blob, Content
<1>3. Blank \in Content
  BY DEF Blank, Content
<1>4. Types
  <2>1. CASE file = 0 /\ key = 0 /\ lastKey = 0 /\ stored = {}
             /\ data = [i \in Inode |-> Blank]
    BY <1>3, <2>1 DEF Init, Types
  <2>2. CASE /\ file = (CHOOSE i \in Inode : TRUE) /\ key = 1 /\ lastKey = 1 /\ stored \in SUBSET Word
             /\ data = [i \in Inode |-> IF i = file THEN Blob(stored, 1) ELSE Blank]
    <3>1. data \in [Inode -> Content]
      BY <1>2, <1>3, <2>2
    <3>2. file \in Inode
      BY <1>1, <2>2
    <3>3. QED
      BY <2>2, <3>1, <3>2 DEF Init, Types
  <2>3. QED
    BY <2>1, <2>2 DEF Init
<1>5. Kept
  BY <1>1, InodeAssumption DEF Init, Kept, Blob
<1>6. QED
  BY <1>4, <1>5 DEF Init, Sound, Alone, SavesFaithful

\* Loading creates no key: where there is a file there is one.
LEMMA KeyStays ==
  ASSUME Sound, LoadTouchesKey
  PROVE  key' = key /\ lastKey' = lastKey
BY DEF Sound, Kept, LoadTouchesKey, GetOrCreateKey, TheKey

LEMMA LoadedIsStored ==
  ASSUME Sound
  PROVE  Loaded = stored
BY DEF Sound, Kept, Loaded, Opens

LEMMA NotTouched ==
  ASSUME Sound, UNCHANGED touched
  PROVE  Sound'
BY DEF touched, store, Sound, Types, Kept, Alone, SavesFaithful, Faithful

-----------------------------------------------------------------------------
(* The screen.                                                             *)

\* A save that no longer reads the list of the screen.
Off(s) == [s EXCEPT !.live = FALSE]

LEMMA ScreenSteps ==
  ASSUME Sound, ~ overlap', OpenScreen \/ ScreenReads \/ ScreenShows \/ CloseScreen
  PROVE  Sound'
<1>1. CASE OpenScreen
  <2>1. saves = {}
    BY <1>1 DEF OpenScreen, Begins, Busy
  <2>2. QED
    BY <1>1, <2>1 DEF OpenScreen, Begins, store, Sound, Types, Kept, Alone, SavesFaithful
<1>2. CASE ScreenReads
  <2>1. key' = key /\ lastKey' = lastKey
    BY <1>2, KeyStays DEF ScreenReads
  <2>2. read' = stored /\ saves = {}
    BY <1>2, LoadedIsStored DEF ScreenReads, Sound, Alone
  <2>3. UNCHANGED <<file, tmp, data, shown, saves, wipes, stored, overlap, edits>>
    BY <1>2 DEF ScreenReads, history, bounds
  <2>4. QED
    BY <2>1, <2>2, <2>3 DEF Sound, Types, Kept, Alone, SavesFaithful
<1>3. CASE ScreenShows
  <2>1. saves = {} /\ saves' = {}
    BY <1>3 DEF ScreenShows, Sound, Alone, Detached
  <2>2. UNCHANGED <<file, tmp, data, key, lastKey, wipes, stored, overlap, edits>>
    BY <1>3 DEF ScreenShows, store, history, bounds
  <2>3. shown' = read /\ read' = {}
    BY <1>3 DEF ScreenShows
  <2>4. QED
    BY <2>1, <2>2, <2>3 DEF Sound, Types, Kept, Alone, SavesFaithful
<1>4. CASE CloseScreen
  <2>1. UNCHANGED <<file, tmp, data, key, lastKey, stored, overlap, edits>>
        /\ shown' = {} /\ read' = {} /\ screen' = "closed"
        /\ saves' = {s \in Detached : s.phase # "launched"}
        /\ wipes' = {[w EXCEPT !.live = FALSE] : w \in {v \in wipes : v.phase \in {"file", "tmp"}}}
    BY <1>4 DEF CloseScreen, store, bounds
  <2>2. ASSUME NEW t \in saves'
        PROVE  \E s \in saves :
                  /\ t = Off(s) \/ (t = s /\ ~s.live)
                  /\ t.phase # "launched" /\ t.live = FALSE /\ t.words = t.meant
                  /\ t \in Save
    <3>1. PICK s \in saves : t = IF s.live THEN [s EXCEPT !.live = FALSE, !.words = shown] ELSE s
      BY <2>1, <2>2 DEF Detached
    <3>2. s \in Save /\ Faithful(s) /\ t.phase # "launched"
      BY <2>1, <2>2 DEF Sound, Types, SavesFaithful
    <3>3. CASE s.live
      <4>1. s.phase = "reading" /\ shown = s.meant /\ s.words = s.meant
        BY <3>2, <3>3 DEF Faithful
      <4>2. t = Off(s)
        BY <3>1, <3>2, <3>3, <4>1 DEF Save, Off
      <4>3. t \in Save /\ t.phase = "reading" /\ t.words = t.meant /\ t.live = FALSE
        BY <3>2, <4>1, <4>2 DEF Save, Off
      <4>4. QED
        BY <3>2, <4>2, <4>3
    <3>4. CASE ~ s.live
      <4>1. t = s /\ s.live = FALSE
        BY <3>1, <3>2, <3>4 DEF Save
      <4>2. t.words = t.meant
        BY <3>2, <4>1 DEF Faithful
      <4>3. QED
        BY <3>2, <3>4, <4>1, <4>2
    <3>5. QED
      BY <3>3, <3>4
  <2>3. saves' \in SUBSET Save /\ SavesFaithful'
    <3>1. saves' \in SUBSET Save
      BY <2>2
    <3>2. ASSUME NEW t \in saves' PROVE Faithful(t)'
      <4>1. PICK s \in saves : t = Off(s) \/ t = s
        BY <2>2
      <4>2. s \in Save /\ Faithful(s)
        BY DEF Sound, Types, SavesFaithful
      <4>3. t.phase = s.phase /\ t.key = s.key /\ t.ino = s.ino /\ t.meant = s.meant
        BY <4>1, <4>2 DEF Save, Off
      <4>4. t.phase # "launched" /\ t.live = FALSE /\ t.words = t.meant
        BY <2>2
      <4>5. QED
        BY <2>1, <4>2, <4>3, <4>4 DEF Faithful
    <3>3. QED
      BY <3>1, <3>2 DEF SavesFaithful
  <2>4. \A s, t \in saves' : s = t
    <3> SUFFICES ASSUME NEW t \in saves', NEW u \in saves' PROVE t = u
      OBVIOUS
    <3>1. PICK s \in saves : t = Off(s) \/ (t = s /\ ~s.live)
      BY <2>2
    <3>2. PICK r \in saves : u = Off(r) \/ (u = r /\ ~r.live)
      BY <2>2
    <3>3. r = s /\ s \in Save
      BY DEF Sound, Alone, Types
    <3>4. ~ s.live => Off(s) = s
      BY <3>3 DEF Save, Off
    <3>5. QED
      BY <3>1, <3>2, <3>3, <3>4
  <2>5. saves' # {} => wipes' = {}
    <3>1. saves' # {} => saves # {}
      BY <2>2
    <3>2. wipes = {} => wipes' = {}
      BY <2>1
    <3>3. QED
      BY <3>1, <3>2 DEF Sound, Alone
  <2>6. \A w \in wipes' : w.phase \in {"file", "tmp"} => file' = 0
    BY <2>1 DEF Sound, Alone
  <2>7. QED
    BY <2>1, <2>3, <2>4, <2>5, <2>6 DEF Sound, Types, Kept, Alone
<1>5. QED
  BY <1>1, <1>2, <1>3, <1>4

LEMMA EditSteps ==
  ASSUME Sound, ~ overlap',
         AskWipe \/ \E w \in Word : Add(w) \/ Remove(w)
  PROVE  Sound'
<1>1. CASE AskWipe
  <2>1. saves = {} /\ saves' = {}
    BY <1>1 DEF AskWipe, Begins, Busy
  <2>2. wipes' = wipes \cup {[no |-> edits, phase |-> "asked", live |-> TRUE]}
        /\ edits' = edits + 1
        /\ UNCHANGED <<file, tmp, data, key, lastKey, stored, read, shown>>
        /\ overlap' \in BOOLEAN
    BY <1>1 DEF AskWipe, store, Begins
  <2>3. QED
    BY <2>1, <2>2 DEF Sound, Types, Kept, Alone, SavesFaithful
<1>2. ASSUME NEW words \in SUBSET Word, Edit(words)
      PROVE  Sound'
  <2> DEFINE new == [no |-> edits, phase |-> "launched", live |-> FALSE,
                     words |-> {}, meant |-> words, key |-> 0, ino |-> 0]
  <2>1. saves = {} /\ wipes = {} /\ screen \notin {"loading", "read"}
    BY <1>2 DEF Edit, Begins, Busy
  <2>2. saves' = {new} /\ shown' = words /\ edits' = edits + 1
        /\ UNCHANGED <<file, tmp, data, key, lastKey, stored, read, wipes, screen>>
        /\ overlap' \in BOOLEAN
    BY <1>2, <2>1 DEF Edit, store, Begins
  <2>3. new \in Save
    BY DEF Save, Sound, Types
  <2>5. SavesFaithful'
    BY <2>2 DEF SavesFaithful, Faithful
  <2>6. QED
    BY <2>1, <2>2, <2>3, <2>5 DEF Sound, Types, Kept, Alone
<1>3. \A w \in Word : /\ Add(w) => Edit(shown \cup {w})
                      /\ Remove(w) => Edit(shown \ {w})
  BY DEF Add, Remove
<1>4. QED
  BY <1>1, <1>2, <1>3 DEF Sound, Types

-----------------------------------------------------------------------------
(* save.                                                                   *)

LEMMA TheOnlySave ==
  ASSUME Sound, NEW s \in saves
  PROVE  saves = {s} /\ s \in Save /\ Faithful(s)
         /\ wipes = {} /\ screen \notin {"loading", "read"}
BY DEF Sound, Types, Alone, SavesFaithful

\* A save that takes a step stays the only one.
LEMMA OneStep ==
  ASSUME Sound, NEW s \in saves, NEW t \in Save, Moved(s, t), UNCHANGED settings
  PROVE  saves' = {t} /\ saves' \in SUBSET Save /\ Alone'
<1>1. saves' = {t}
  BY TheOnlySave DEF Moved
<1>2. wipes' = {} /\ screen' \notin {"loading", "read"}
  BY TheOnlySave DEF settings
<1>3. QED
  BY <1>1, <1>2 DEF Alone

LEMMA StartStep ==
  ASSUME Sound, NEW s \in saves, Start(s)
  PROVE  Sound'
<1> DEFINE t == [s EXCEPT !.phase = "reading", !.live = TRUE, !.words = shown]
<1>1. s \in Save /\ Faithful(s) /\ s.phase = "launched" /\ shown \in SUBSET Word
  BY TheOnlySave DEF Start, Sound, Types
<1>2. t \in Save /\ t.phase = "reading" /\ t.live = TRUE /\ t.words = shown /\ t.meant = s.meant
  BY <1>1 DEF Save
<1>3. saves' = {t} /\ saves' \in SUBSET Save /\ Alone'
  <2>1. Moved(s, t) /\ UNCHANGED settings
    BY DEF Start
  <2> HIDE DEF t
  <2>2. QED
    BY <1>2, <2>1, OneStep
<1>4. UNCHANGED <<file, tmp, data, key, lastKey, edits, stored, shown, read, overlap>>
  BY DEF Start, store, settings, history, bounds
<1> HIDE DEF t
<1>5. shown' = t.meant
  BY <1>1, <1>2, <1>4 DEF Faithful
<1>6. SavesFaithful'
  BY <1>2, <1>3, <1>4, <1>5 DEF SavesFaithful, Faithful
<1>7. QED
  BY <1>3, <1>4, <1>6 DEF Sound, Types, Kept

LEMMA SealStep ==
  ASSUME Sound, NEW s \in saves, Seal(s)
  PROVE  Sound'
<1>1. s \in Save /\ Faithful(s) /\ s.phase = "reading"
  BY TheOnlySave DEF Seal
<1>2. key' = TheKey /\ TheKey \in Nat /\ TheKey # 0 /\ lastKey' \in Nat
      /\ (file # 0 => key' = key)
  BY DEF Seal, GetOrCreateKey, TheKey, Sound, Types, Kept
<1>3. UNCHANGED <<file, tmp, data, edits, stored, shown, read, overlap>> /\ UNCHANGED settings
  BY DEF Seal, settings, history, bounds
<1>4. PICK words \in {s.words} \cup IF s.live THEN {shown} ELSE {} :
        Moved(s, [s EXCEPT !.phase = "sealed", !.live = FALSE, !.words = words, !.key = TheKey])
  BY DEF Seal
<1>5. words = s.meant
  BY <1>1 DEF Faithful
<1> DEFINE t == [s EXCEPT !.phase = "sealed", !.live = FALSE, !.words = words, !.key = TheKey]
<1>6. t \in Save /\ t.phase = "sealed" /\ t.live = FALSE /\ t.words = s.meant
      /\ t.meant = s.meant /\ t.key = TheKey
  BY <1>1, <1>2, <1>5 DEF Save
<1>7. Moved(s, t)
  BY <1>4
<1> HIDE DEF t
<1>8. saves' = {t} /\ saves' \in SUBSET Save /\ Alone'
  BY <1>3, <1>6, <1>7, OneStep
<1>9. SavesFaithful'
  BY <1>2, <1>6, <1>8 DEF SavesFaithful, Faithful
<1>10. QED
  BY <1>2, <1>3, <1>8, <1>9 DEF Sound, Types, Kept

LEMMA OpenStep ==
  ASSUME Sound, NEW s \in saves, OpenTmp(s)
  PROVE  Sound'
<1> DEFINE t == [s EXCEPT !.phase = "opened", !.ino = tmp']
<1>1. s \in Save /\ Faithful(s) /\ s.phase = "sealed"
  BY TheOnlySave DEF OpenTmp
<1>2. file \in InUse
  BY DEF InUse
<1>3. tmp' \in Inode /\ tmp' # file
  <2>1. CASE tmp # 0
    BY <2>1, InodeAssumption DEF OpenTmp, Sound, Types, Kept
  <2>2. CASE tmp = 0
    <3>1. tmp' = Fresh /\ Inode \ InUse # {}
      BY <2>2 DEF OpenTmp
    <3>2. Fresh \in Inode \ InUse
      BY <3>1 DEF Fresh
    <3>3. QED
      BY <1>2, <3>1, <3>2
  <2>3. QED
    BY <2>1, <2>2
<1>4. t \in Save /\ t.phase = "opened" /\ t.live = s.live /\ t.words = s.words
      /\ t.meant = s.meant /\ t.key = s.key /\ t.ino = tmp'
  BY <1>1, <1>3 DEF Save
<1>5. UNCHANGED <<file, key, lastKey, edits, stored, shown, read, overlap>> /\ UNCHANGED settings
  BY DEF OpenTmp, settings, history, bounds
<1>6. data' \in [Inode -> Content] /\ data'[tmp'] = Blank
      /\ (file # 0 => data'[file] = data[file])
  <2>1. data' = [i \in Inode |-> IF i = tmp' \/ i \notin InUse THEN Blank ELSE data[i]]
    BY DEF OpenTmp
  <2>2. Blank \in Content
    BY DEF Blank, Content
  <2>3. data \in [Inode -> Content] /\ file \in Inode \cup {0}
    BY DEF Sound, Types
  <2>4. QED
    BY <1>2, <1>3, <2>1, <2>2, <2>3
<1>7. Moved(s, t)
  BY DEF OpenTmp
<1> HIDE DEF t
<1>8. saves' = {t} /\ saves' \in SUBSET Save /\ Alone'
  BY <1>4, <1>5, <1>7, OneStep
<1>9. tmp' # 0
  BY <1>3, InodeAssumption
<1>10. SavesFaithful'
  BY <1>1, <1>4, <1>5, <1>6, <1>8, <1>9 DEF SavesFaithful, Faithful, Blank
<1>11. Kept'
  BY <1>3, <1>5, <1>6 DEF Sound, Kept
<1>12. QED
  BY <1>3, <1>5, <1>6, <1>8, <1>10, <1>11 DEF Sound, Types

LEMMA FillStep ==
  ASSUME Sound, NEW s \in saves, FillTmp(s)
  PROVE  Sound'
<1> DEFINE t == [s EXCEPT !.phase = "filled"]
           blob == Blob(s.words, s.key)
<1>1. s \in Save /\ Faithful(s) /\ s.phase = "opened"
  BY TheOnlySave DEF FillTmp
<1>2. t \in Save /\ t.phase = "filled" /\ t.live = s.live /\ t.words = s.words
      /\ t.meant = s.meant /\ t.key = s.key /\ t.ino = s.ino
  BY <1>1 DEF Save
<1>3. tmp \in Inode /\ s.ino = tmp /\ data[tmp].length = 0 /\ s.key = key /\ key # 0
      /\ s.words = s.meant
  BY <1>1 DEF Faithful, Sound, Types
<1>4. Cardinality(s.words) \in Nat
  BY <1>1, WordAssumption, FS_Subset, FS_CardinalityType DEF Save
<1>5. blob \in Content /\ blob.length \in Nat /\ blob.words = s.meant
      /\ blob.key = key /\ blob.whole = TRUE
  BY <1>1, <1>3, <1>4 DEF Blob, Content, Save
<1>6. UNCHANGED <<file, tmp, key, lastKey, edits, stored, shown, read, overlap>>
      /\ UNCHANGED settings
  BY DEF FillTmp, settings, history, bounds
<1>7. Moved(s, t)
  BY DEF FillTmp
<1>8. data' = [data EXCEPT ![tmp] = blob]
  <2>1. data' = [data EXCEPT ![s.ino] =
                    IF data[s.ino].length <= blob.length THEN blob
                    ELSE [Blank EXCEPT !.length = data[s.ino].length]]
    BY DEF FillTmp
  <2> HIDE DEF blob
  <2>2. data[s.ino].length <= blob.length
    BY <1>3, <1>5
  <2>3. QED
    BY <1>3, <2>1, <2>2
<1> HIDE DEF t, blob
<1>9. saves' = {t} /\ saves' \in SUBSET Save /\ Alone'
  BY <1>2, <1>6, <1>7, OneStep
<1>10. data' \in [Inode -> Content] /\ data'[tmp] = blob
       /\ (file # 0 => data'[file] = data[file])
  BY <1>3, <1>5, <1>8 DEF Sound, Types, Kept
<1>11. SavesFaithful'
  BY <1>1, <1>2, <1>3, <1>5, <1>6, <1>9, <1>10 DEF SavesFaithful, Faithful
<1>12. QED
  BY <1>6, <1>9, <1>10, <1>11 DEF Sound, Types, Kept

LEMMA RenameStep ==
  ASSUME Sound, NEW s \in saves, Rename(s)
  PROVE  Sound'
<1>1. s \in Save /\ Faithful(s) /\ s.phase = "filled" /\ saves' = {} /\ wipes = {}
  BY TheOnlySave DEF Rename
<1>2. tmp # 0 /\ key # 0 /\ data[tmp].whole /\ data[tmp].key = key /\ data[tmp].words = s.meant
  BY <1>1 DEF Faithful
<1>3. file' = tmp /\ tmp' = 0 /\ stored' = s.meant /\ s.meant \in SUBSET Word
      /\ UNCHANGED <<data, key, lastKey, edits, shown, read, overlap, wipes, screen>>
  BY <1>1 DEF Rename, settings, bounds, Save
<1>4. QED
  BY <1>1, <1>2, <1>3 DEF Sound, Types, Kept, Alone, SavesFaithful

-----------------------------------------------------------------------------
(* wipe: no save is under way.                                             *)

LEMMA WipeSteps ==
  ASSUME Sound, NEW w \in wipes,
         WipeFile(w) \/ WipeTmp(w) \/ WipeKey(w) \/ WipeShows(w)
  PROVE  Sound'
<1>1. saves = {}
  BY DEF Sound, Alone
<1>2. CASE WipeFile(w)
  <2>1. file' = 0 /\ stored' = {}
        /\ UNCHANGED <<tmp, data, key, lastKey, edits, shown, read, saves, overlap>>
    BY <1>2 DEF WipeFile, bounds
  <2>2. QED
    BY <1>1, <2>1 DEF Sound, Types, Kept, Alone, SavesFaithful
<1>3. CASE WipeTmp(w)
  <2>1. file = 0 /\ tmp' = 0
        /\ UNCHANGED <<file, data, key, lastKey, edits, stored, shown, read, saves, overlap>>
    BY <1>3 DEF WipeTmp, history, bounds, Sound, Alone
  <2>2. QED
    BY <1>1, <2>1 DEF Sound, Types, Kept, Alone, SavesFaithful
<1>4. CASE WipeKey(w)
  <2>1. file = 0 /\ key' = 0
        /\ UNCHANGED <<file, tmp, data, lastKey, edits, stored, shown, read, saves, overlap>>
    BY <1>4 DEF WipeKey, history, bounds, Sound, Alone
  <2>2. QED
    BY <1>1, <2>1 DEF Sound, Types, Kept, Alone, SavesFaithful
<1>5. CASE WipeShows(w)
  <2>1. shown' = {} /\ saves' = {} /\ wipes' = wipes \ {w}
        /\ UNCHANGED <<file, tmp, data, key, lastKey, edits, stored, read, overlap>>
    BY <1>1, <1>5 DEF WipeShows, Detached, store, history, bounds
  <2>2. QED
    BY <1>1, <2>1 DEF Sound, Types, Kept, Alone, SavesFaithful
<1>6. QED
  BY <1>2, <1>3, <1>4, <1>5

-----------------------------------------------------------------------------
(* The keyboard only reads, and the endings leave the store as it is.      *)

LEMMA KeyboardLeaves ==
  ASSUME Sound, Keyboard \/ Destroy
  PROVE  UNCHANGED touched
<1>1. CASE WarmReads
  BY <1>1, KeyStays DEF WarmReads, touched, store, settings, history, bounds
<1>2. ASSUME NEW r \in refreshes, RefreshReads(r)
      PROVE  UNCHANGED touched
  BY <1>2, KeyStays DEF RefreshReads, touched, store, settings, history, bounds
<1>3. ASSUME \/ WarmPublishes \/ Destroy
             \/ \E toggled \in BOOLEAN : StartInput(toggled)
             \/ \E r \in refreshes : RefreshCompares(r) \/ RefreshInstalls(r)
             \/ \E b \in rebuilds : Builds(b) \/ Installs(b)
      PROVE  UNCHANGED touched
  BY <1>3 DEF WarmPublishes, Destroy, StartInput, RefreshCompares, RefreshInstalls, Builds,
              Installs, touched, store, settings, history, bounds
<1>4. QED
  BY <1>1, <1>2, <1>3 DEF Keyboard

LEMMA KeyboardSteps ==
  ASSUME Sound, Keyboard \/ Destroy
  PROVE  Sound'
BY KeyboardLeaves, NotTouched

LEMMA Deaths ==
  ASSUME Sound, Crash \/ \E s \in saves : RenameFails(s) \/ SealThrows(s)
  PROVE  Sound'
<1>1. ProcessDies /\ edits' = edits
  BY DEF Crash, RenameFails, SealThrows, bounds
<1>2. shown' = {} /\ read' = {} /\ saves' = {} /\ wipes' = {}
      /\ UNCHANGED <<file, tmp, data, key, lastKey, stored, overlap>>
  BY <1>1 DEF ProcessDies, store
<1>3. QED
  BY <1>1, <1>2 DEF Sound, Types, Kept, Alone, SavesFaithful

-----------------------------------------------------------------------------
(* Once two operations have overlapped, that is remembered.                *)

LEMMA OverlapStays ==
  ASSUME overlap \in BOOLEAN, [Next]_vars
  PROVE  overlap' \in BOOLEAN /\ (overlap => overlap')
<1>1. CASE Screen
  <2>1. Begins => overlap' = (overlap \/ Busy)
    BY DEF Begins
  <2>2. Screen => Begins \/ overlap' = overlap
    BY DEF Screen, OpenScreen, ScreenReads, ScreenShows, CloseScreen, Add, Remove, Edit, AskWipe,
           WipeFile, WipeTmp, WipeKey, WipeShows, history
  <2>3. QED
    BY <1>1, <2>1, <2>2
<1>2. CASE Saving
  <2>1. ASSUME NEW s \in saves,
               Start(s) \/ Seal(s) \/ OpenTmp(s) \/ FillTmp(s)
        PROVE  overlap' = overlap
    BY <2>1 DEF Start, Seal, OpenTmp, FillTmp, history
  <2>2. ASSUME NEW s \in saves, Rename(s) \/ RenameFails(s) \/ SealThrows(s)
        PROVE  overlap' = overlap
    BY <2>2 DEF Rename, RenameFails, SealThrows, ProcessDies
  <2>3. QED
    BY <1>2, <2>1, <2>2 DEF Saving
<1>3. CASE Keyboard
  BY <1>3 DEF Keyboard, WarmReads, WarmPublishes, StartInput, RefreshReads, RefreshCompares,
              RefreshInstalls, Builds, Installs, history
<1>4. CASE Crash \/ Destroy
  BY <1>4 DEF Crash, Destroy, ProcessDies
<1>5. CASE UNCHANGED vars
  BY <1>5 DEF vars, history
<1>6. QED
  BY <1>1, <1>2, <1>3, <1>4, <1>5 DEF Next

LEMMA SoundStep ==
  ASSUME Sound, ~ overlap', [Next]_vars
  PROVE  Sound'
<1>1. CASE Screen
  BY <1>1, ScreenSteps, EditSteps, WipeSteps DEF Screen
<1>2. CASE Saving
  BY <1>2, StartStep, SealStep, OpenStep, FillStep, RenameStep, Deaths DEF Saving
<1>3. CASE Keyboard \/ Destroy
  BY <1>3, KeyboardSteps
<1>4. CASE Crash
  BY <1>4, Deaths
<1>5. CASE UNCHANGED vars
  <2>1. UNCHANGED touched
    BY <1>5 DEF vars, touched, store, settings, history, bounds
  <2>2. QED
    BY <2>1, NotTouched
<1>6. QED
  BY <1>1, <1>2, <1>3, <1>4, <1>5 DEF Next

\* PersonalDictionaryRepository.kt:16-19: whatever dies, and wherever it does,
\* the disk yields what the last save or wipe that got through was to leave,
\* unless operations of the screen overlapped.
THEOREM WordsSurvive == Spec => []SavedWordsSurvive
<1>1. Init => IInv
  BY Start0 DEF IInv
<1>2. IInv /\ [Next]_vars => IInv'
  <2> SUFFICES ASSUME IInv, [Next]_vars PROVE IInv'
    OBVIOUS
  <2>1. overlap \in BOOLEAN
    BY DEF IInv, Sound, Types
  <2>2. overlap' \in BOOLEAN /\ (overlap => overlap')
    BY <2>1, OverlapStays
  <2>3. CASE overlap' = TRUE
    BY <2>3 DEF IInv
  <2>4. CASE ~ overlap'
    BY <2>2, <2>4, SoundStep DEF IInv
  <2>5. QED
    BY <2>2, <2>3, <2>4
<1>3. IInv => SavedWordsSurvive
  BY LoadedIsStored DEF IInv, SavedWordsSurvive
<1>4. QED
  BY <1>1, <1>2, <1>3, PTL DEF Spec

-----------------------------------------------------------------------------
(* What holds whether operations overlap or not: the types, and that no    *)
(* blob was sealed with a key still to be generated.                       *)

KeysAreOld ==
    /\ key <= lastKey
    /\ \A i \in Inode : data[i].whole => data[i].key \in 1 .. lastKey
    /\ \A s \in saves : s.phase \in {"sealed", "opened", "filled"} => s.key \in 1 .. lastKey

Valid == Types /\ KeysAreOld

LEMMA LoadedTyped ==
  ASSUME Types
  PROVE  Loaded \in SUBSET Word
BY DEF Types, Loaded, Opens, Content

LEMMA KeysGrow ==
  ASSUME Valid, GetOrCreateKey \/ UNCHANGED <<key, lastKey>>
  PROVE  /\ key' \in Nat /\ lastKey' \in Nat
         /\ key' <= lastKey' /\ lastKey <= lastKey'
         /\ GetOrCreateKey => key' = TheKey /\ TheKey \in 1 .. lastKey'
BY DEF Valid, Types, KeysAreOld, GetOrCreateKey, TheKey

\* A step that leaves inodes and saves alone.
LEMMA ValidKept ==
  ASSUME Valid, GetOrCreateKey \/ UNCHANGED <<key, lastKey>>,
         UNCHANGED <<data, tmp>>, file' \in {file, 0},
         saves' \in SUBSET saves, read' \in SUBSET Word, shown' \in SUBSET Word,
         stored' \in SUBSET Word, edits' \in Nat, overlap' \in BOOLEAN
  PROVE  Valid'
<1>1. /\ key' \in Nat /\ lastKey' \in Nat
      /\ key' <= lastKey' /\ lastKey <= lastKey'
  BY KeysGrow
<1>2. Types'
  BY <1>1 DEF Valid, Types
<1>3. lastKey \in Nat /\ \A i \in Inode : data[i] \in Content
  BY DEF Valid, Types
<1>4. KeysAreOld'
  BY <1>1, <1>3 DEF Valid, KeysAreOld
<1>5. QED
  BY <1>2, <1>4 DEF Valid

\* The saves a screen leaves behind are saves.
LEMMA DetachedTyped ==
  ASSUME Valid
  PROVE  /\ Detached \in SUBSET Save
         /\ \A t \in Detached : t.phase \in {"sealed", "opened", "filled"} => t.key \in 1 .. lastKey
<1> SUFFICES ASSUME NEW s \in saves,
                    NEW t, t = IF s.live THEN [s EXCEPT !.live = FALSE, !.words = shown] ELSE s
             PROVE  t \in Save
                    /\ (t.phase \in {"sealed", "opened", "filled"} => t.key \in 1 .. lastKey)
  BY DEF Detached
<1>1. s \in Save /\ shown \in SUBSET Word
  BY DEF Valid, Types
<1>2. t \in Save /\ t.phase = s.phase /\ t.key = s.key
  BY <1>1 DEF Save
<1>3. QED
  BY <1>2 DEF Valid, KeysAreOld

\* A step that hands some saves over and leaves inodes and key alone.
LEMMA ValidDetached ==
  ASSUME Valid, UNCHANGED <<data, tmp, file, key, lastKey, stored, edits, overlap>>,
         saves' \in SUBSET Detached, read' \in SUBSET Word, shown' \in SUBSET Word
  PROVE  Valid'
BY DetachedTyped DEF Valid, Types, KeysAreOld

\* The step of one save.
LEMMA ValidMoved ==
  ASSUME Valid, NEW s \in saves, NEW t \in Save, Moved(s, t),
         GetOrCreateKey \/ UNCHANGED <<key, lastKey>>,
         t.phase \in {"sealed", "opened", "filled"} => t.key \in 1 .. lastKey',
         tmp' \in Inode \cup {0}, data' \in [Inode -> Content],
         \A i \in Inode : data'[i].whole => data'[i].key \in 1 .. lastKey',
         UNCHANGED <<file, read, shown, stored, edits, overlap>>
  PROVE  Valid'
<1>1. /\ key' \in Nat /\ lastKey' \in Nat
      /\ key' <= lastKey' /\ lastKey <= lastKey'
  BY KeysGrow
<1>2. saves' \in SUBSET Save
  BY DEF Moved, Valid, Types
<1>3. Types'
  BY <1>1, <1>2 DEF Valid, Types
<1>4. ASSUME NEW u \in saves', u.phase \in {"sealed", "opened", "filled"}
      PROVE  u.key \in 1 .. lastKey'
  <2>1. u \in saves \/ u = t
    BY DEF Moved
  <2>2. CASE u = t
    BY <1>4, <2>2
  <2>3. CASE u \in saves
    <3>1. u.key \in 1 .. lastKey /\ u \in Save /\ lastKey \in Nat
      BY <1>4, <2>3 DEF Valid, KeysAreOld, Types
    <3>2. QED
      BY <1>1, <3>1
  <2>4. QED
    BY <2>1, <2>2, <2>3
<1>5. KeysAreOld'
  BY <1>1, <1>4 DEF KeysAreOld
<1>6. QED
  BY <1>3, <1>5 DEF Valid

LEMMA ValidScreen ==
  ASSUME Valid, Screen
  PROVE  Valid'
<1>0. shown \in SUBSET Word /\ read \in SUBSET Word /\ stored \in SUBSET Word
      /\ edits \in Nat /\ overlap \in BOOLEAN /\ lastKey \in Nat
  BY DEF Valid, Types
<1>1. CASE OpenScreen
  <2>1. UNCHANGED <<file, tmp, data, key, lastKey, saves, stored, edits>>
        /\ read' = {} /\ shown' = {} /\ overlap' \in BOOLEAN
    BY <1>1, <1>0 DEF OpenScreen, store, Begins
  <2>2. QED
    BY <1>0, <2>1, ValidKept
<1>2. CASE ScreenReads
  <2>1. UNCHANGED <<file, tmp, data, shown, saves, stored, overlap, edits>>
        /\ read' = Loaded /\ (GetOrCreateKey \/ UNCHANGED <<key, lastKey>>)
    BY <1>2 DEF ScreenReads, LoadTouchesKey, history, bounds
  <2>2. Loaded \in SUBSET Word
    BY LoadedTyped DEF Valid
  <2>3. QED
    BY <1>0, <2>1, <2>2, ValidKept
<1>3. CASE ScreenShows
  <2>1. UNCHANGED <<file, tmp, data, key, lastKey, stored, overlap, edits>>
        /\ read' = {} /\ shown' = read /\ saves' = Detached
    BY <1>3 DEF ScreenShows, store, history, bounds
  <2>2. QED
    BY <1>0, <2>1, ValidDetached
<1>4. CASE CloseScreen
  <2>1. UNCHANGED <<file, tmp, data, key, lastKey, stored, overlap, edits>>
        /\ read' = {} /\ shown' = {} /\ saves' \in SUBSET Detached
    BY <1>4 DEF CloseScreen, store, bounds
  <2>2. QED
    BY <1>0, <2>1, ValidDetached
<1>5. ASSUME NEW words \in SUBSET Word, Edit(words)
      PROVE  Valid'
  <2> DEFINE new == [no |-> edits, phase |-> "launched", live |-> FALSE,
                     words |-> {}, meant |-> words, key |-> 0, ino |-> 0]
  <2>1. UNCHANGED <<file, tmp, data, key, lastKey, stored, read>>
        /\ shown' = words /\ edits' = edits + 1 /\ overlap' \in BOOLEAN
        /\ saves' = saves \cup {new}
    BY <1>5, <1>0 DEF Edit, store, Begins
  <2>2. new \in Save /\ new.phase = "launched"
    BY <1>0 DEF Save
  <2> HIDE DEF new
  <2>3. QED
    BY <1>0, <2>1, <2>2 DEF Valid, Types, KeysAreOld
<1>6. CASE AskWipe
  <2>1. UNCHANGED <<file, tmp, data, key, lastKey, saves, stored, read, shown>>
        /\ edits' = edits + 1 /\ overlap' \in BOOLEAN
    BY <1>6, <1>0 DEF AskWipe, store, Begins
  <2>2. QED
    BY <1>0, <2>1, ValidKept
<1>7. ASSUME NEW w \in wipes, WipeFile(w) \/ WipeTmp(w)
      PROVE  Valid'
  <2>1. UNCHANGED <<data, key, lastKey, saves, read, shown, overlap, edits>>
        /\ file' \in {file, 0} /\ tmp' \in {tmp, 0} /\ stored' \in {stored, {}}
    BY <1>7 DEF WipeFile, WipeTmp, history, bounds
  <2>2. QED
    BY <1>0, <2>1 DEF Valid, Types, KeysAreOld
<1>8. ASSUME NEW w \in wipes, WipeKey(w)
      PROVE  Valid'
  <2>1. UNCHANGED <<file, tmp, data, lastKey, saves, read, shown, stored, overlap, edits>>
        /\ key' = 0
    BY <1>8 DEF WipeKey, history, bounds
  <2>2. QED
    BY <1>0, <2>1 DEF Valid, Types, KeysAreOld
<1>9. ASSUME NEW w \in wipes, WipeShows(w)
      PROVE  Valid'
  <2>1. UNCHANGED <<file, tmp, data, key, lastKey, stored, read, overlap, edits>>
        /\ shown' = {} /\ saves' = Detached
    BY <1>9 DEF WipeShows, store, history, bounds
  <2>2. QED
    BY <1>0, <2>1, ValidDetached
<1>10. \A w \in Word : /\ Add(w) => Edit(shown \cup {w})
                       /\ Remove(w) => Edit(shown \ {w})
  BY DEF Add, Remove
<1>11. QED
  BY <1>0, <1>1, <1>2, <1>3, <1>4, <1>5, <1>6, <1>7, <1>8, <1>9, <1>10 DEF Screen

LEMMA ValidSaving ==
  ASSUME Valid, NEW s \in saves, Start(s) \/ Seal(s) \/ OpenTmp(s) \/ FillTmp(s) \/ Rename(s)
  PROVE  Valid'
<1>0. s \in Save /\ shown \in SUBSET Word /\ lastKey \in Nat /\ key \in Nat
      /\ tmp \in Inode \cup {0} /\ file \in Inode \cup {0} /\ data \in [Inode -> Content]
      /\ (s.phase \in {"sealed", "opened", "filled"} => s.key \in 1 .. lastKey)
      /\ \A i \in Inode : data[i].whole => data[i].key \in 1 .. lastKey
  BY DEF Valid, Types, KeysAreOld
<1>1. CASE Start(s)
  <2> DEFINE t == [s EXCEPT !.phase = "reading", !.live = TRUE, !.words = shown]
  <2>1. t \in Save /\ t.phase = "reading"
    BY <1>0 DEF Save
  <2>2. Moved(s, t)
        /\ UNCHANGED <<file, tmp, data, key, lastKey, read, shown, stored, overlap, edits>>
    BY <1>1 DEF Start, store, settings, history, bounds
  <2> HIDE DEF t
  <2>3. QED
    BY <1>0, <2>1, <2>2, ValidMoved
<1>2. CASE Seal(s)
  <2>1. GetOrCreateKey
        /\ UNCHANGED <<file, tmp, data, read, shown, stored, overlap, edits>>
    BY <1>2 DEF Seal, settings, history, bounds
  <2>2. PICK words \in {s.words} \cup IF s.live THEN {shown} ELSE {} :
          Moved(s, [s EXCEPT !.phase = "sealed", !.live = FALSE, !.words = words, !.key = TheKey])
    BY <1>2 DEF Seal
  <2> DEFINE t == [s EXCEPT !.phase = "sealed", !.live = FALSE, !.words = words, !.key = TheKey]
  <2>3. TheKey \in 1 .. lastKey' /\ lastKey' \in Nat /\ lastKey <= lastKey' /\ TheKey \in Nat
    BY <2>1, KeysGrow
  <2>4. words \in SUBSET Word
    BY <1>0 DEF Save
  <2>5. t \in Save /\ t.key = TheKey
    BY <1>0, <2>3, <2>4 DEF Save
  <2>6. Moved(s, t)
    BY <2>2
  <2> HIDE DEF t
  <2>7. \A i \in Inode : data'[i].whole => data'[i].key \in 1 .. lastKey'
    BY <1>0, <2>1, <2>3
  <2>8. QED
    BY <1>0, <2>1, <2>3, <2>5, <2>6, <2>7, ValidMoved
<1>3. CASE OpenTmp(s)
  <2> DEFINE t == [s EXCEPT !.phase = "opened", !.ino = tmp']
  <2>1. tmp' \in Inode
    <3>1. CASE tmp # 0
      BY <1>3, <1>0, <3>1 DEF OpenTmp
    <3>2. CASE tmp = 0
      <4>1. tmp' = Fresh /\ Inode \ InUse # {}
        BY <1>3, <3>2 DEF OpenTmp
      <4>2. QED
        BY <4>1 DEF Fresh
    <3>3. QED
      BY <3>1, <3>2
  <2>2. t \in Save /\ t.key = s.key /\ s.phase = "sealed"
    BY <1>0, <1>3, <2>1 DEF Save, OpenTmp
  <2>3. Moved(s, t)
        /\ UNCHANGED <<file, key, lastKey, read, shown, stored, overlap, edits>>
    BY <1>3 DEF OpenTmp, settings, history, bounds
  <2>4. data' = [i \in Inode |-> IF i = tmp' \/ i \notin InUse THEN Blank ELSE data[i]]
    BY <1>3 DEF OpenTmp
  <2>5. data' \in [Inode -> Content]
        /\ \A i \in Inode : data'[i].whole => data'[i].key \in 1 .. lastKey'
    <3>1. Blank \in Content /\ Blank.whole = FALSE
      BY DEF Blank, Content
    <3>2. QED
      BY <1>0, <2>3, <2>4, <3>1
  <2> HIDE DEF t
  <2>6. QED
    BY <1>0, <2>1, <2>2, <2>3, <2>5, ValidMoved
<1>4. CASE FillTmp(s)
  <2> DEFINE t == [s EXCEPT !.phase = "filled"]
             new == IF data[s.ino].length <= Blob(s.words, s.key).length THEN Blob(s.words, s.key)
                    ELSE [Blank EXCEPT !.length = data[s.ino].length]
  <2>1. t \in Save /\ t.key = s.key /\ s.phase = "opened"
    BY <1>0, <1>4 DEF Save, FillTmp
  <2>2. Moved(s, t) /\ data' = [data EXCEPT ![s.ino] = new]
        /\ UNCHANGED <<file, tmp, key, lastKey, read, shown, stored, overlap, edits>>
    BY <1>4 DEF FillTmp, settings, history, bounds
  <2>3. Cardinality(s.words) \in Nat
    BY <1>0, WordAssumption, FS_Subset, FS_CardinalityType DEF Save
  <2>4. Blob(s.words, s.key) \in Content /\ Blob(s.words, s.key).key = s.key
    BY <1>0, <2>3 DEF Blob, Content, Save
  <2>5. s.ino \in Inode => new \in Content /\ (new.whole => new.key = s.key)
    <3>1. CASE s.ino \in Inode /\ data[s.ino].length <= Blob(s.words, s.key).length
      BY <2>4, <3>1
    <3>2. CASE s.ino \in Inode /\ ~(data[s.ino].length <= Blob(s.words, s.key).length)
      <4>1. data[s.ino].length \in Nat /\ new = [Blank EXCEPT !.length = data[s.ino].length]
        BY <1>0, <3>2 DEF Content
      <4>2. \A n \in Nat : /\ [Blank EXCEPT !.length = n] \in Content
                           /\ [Blank EXCEPT !.length = n].whole = FALSE
        BY DEF Blank, Content
      <4>3. new \in Content /\ new.whole = FALSE
        <5> HIDE DEF new
        <5>1. QED
          BY <4>1, <4>2
      <4>4. QED
        BY <4>3
    <3>3. QED
      BY <3>1, <3>2
  <2> HIDE DEF t, new
  <2>6. data' \in [Inode -> Content]
        /\ \A i \in Inode : data'[i].whole => data'[i].key \in 1 .. lastKey'
    BY <1>0, <2>1, <2>2, <2>5
  <2>7. QED
    BY <1>0, <2>1, <2>2, <2>6, ValidMoved
<1>5. CASE Rename(s)
  <2>1. file' = tmp /\ tmp' = 0 /\ saves' \in SUBSET saves /\ stored' = s.meant
        /\ UNCHANGED <<data, key, lastKey, read, shown, overlap, edits>>
    BY <1>5 DEF Rename, settings, bounds
  <2>2. s.meant \in SUBSET Word
    BY <1>0 DEF Save
  <2>3. QED
    BY <1>0, <2>1, <2>2 DEF Valid, Types, KeysAreOld
<1>6. QED
  BY <1>1, <1>2, <1>3, <1>4, <1>5

LEMMA ValidRest ==
  ASSUME Valid,
         Keyboard \/ Crash \/ Destroy \/ (\E s \in saves : RenameFails(s) \/ SealThrows(s))
         \/ UNCHANGED vars
  PROVE  Valid'
<1>0. shown \in SUBSET Word /\ read \in SUBSET Word /\ stored \in SUBSET Word
      /\ edits \in Nat /\ overlap \in BOOLEAN
  BY DEF Valid, Types
<1>1. ASSUME \/ Keyboard \/ Destroy \/ UNCHANGED vars
      PROVE  UNCHANGED <<file, tmp, data, read, shown, saves, stored, overlap, edits>>
             /\ (GetOrCreateKey \/ UNCHANGED <<key, lastKey>>)
  BY <1>1 DEF Keyboard, WarmReads, WarmPublishes, StartInput, RefreshReads, RefreshCompares,
              RefreshInstalls, Builds, Installs, Destroy, LoadTouchesKey, vars, store, settings,
              history, bounds
<1>2. ASSUME Crash \/ \E s \in saves : RenameFails(s) \/ SealThrows(s)
      PROVE  UNCHANGED <<file, tmp, data, key, lastKey, stored, overlap, edits>>
             /\ saves' = {} /\ read' = {} /\ shown' = {}
  BY <1>2 DEF Crash, RenameFails, SealThrows, ProcessDies, store, bounds
<1>3. QED
  BY <1>0, <1>1, <1>2, ValidKept

LEMMA ValidStep ==
  ASSUME Valid, [Next]_vars
  PROVE  Valid'
<1>1. CASE Saving
  BY <1>1, ValidSaving, ValidRest DEF Saving
<1>2. QED
  BY <1>1, ValidScreen, ValidRest DEF Next

LEMMA Valid0 == Init => Valid
<1> SUFFICES ASSUME Init PROVE Valid
  OBVIOUS
<1>1. Types
  BY Start0 DEF Sound
<1>2. KeysAreOld
  BY InodeAssumption DEF Init, KeysAreOld, Blob, Blank
<1>3. QED
  BY <1>1, <1>2 DEF Valid

\* The file and its temporary one name inodes, every inode holds a blob or what
\* is none, and a save is one, in any order of edits, loads, wipes and deaths.
THEOREM DictionaryTypeCorrect == Spec => []Types
<1>1. Valid => Types
  BY DEF Valid
<1>2. QED
  BY Valid0, ValidStep, <1>1, PTL DEF Spec

-----------------------------------------------------------------------------
(* The keyboard: while no two of its jobs were under way together, there   *)
(* is one at most, and since a field was entered with all at rest, what it *)
(* has read is still what the file holds.                                  *)

KeyboardJob == [no : Nat, phase : {"read", "compare", "install", "build"}, words : SUBSET Word]

JobTypes ==
    /\ refreshes \in SUBSET KeyboardJob /\ rebuilds \in SUBSET KeyboardJob
    /\ personal \in SUBSET Word /\ fields \in Nat

OneAtATime ==
    /\ warm # "ready" => AtRest /\ ~settled /\ ~raced
    /\ ~raced /\ warm = "ready" =>
        /\ \A r, q \in refreshes : r = q
        /\ \A b, c \in rebuilds : b = c
        /\ refreshes = {} \/ rebuilds = {}
        /\ \A r \in refreshes : r.phase = "install" => r.words = personal
        /\ \A b \in rebuilds : b.phase = "install" => b.words = personal
        /\ rebuilds = {} /\ (\A r \in refreshes : r.phase \in {"read", "compare"})
              => engine = personal

Followed ==
    settled =>
        /\ ~Busy
        /\ \A r, q \in refreshes : r = q
        /\ \A r \in refreshes : r.phase \in {"compare", "install"} => r.words = Loaded
        /\ \A r \in refreshes : r.phase # "install" \/ personal = Loaded
        /\ refreshes = {} => personal = Loaded

Orderly == Valid /\ JobTypes /\ OneAtATime /\ Followed

\* Reading the file, though it may make a key, does not change what it yields.
LEMMA LoadKeepsLoaded ==
  ASSUME Valid, LoadTouchesKey, UNCHANGED <<file, data>>
  PROVE  Loaded' = Loaded
<1>1. CASE file = 0 \/ key # 0
  BY <1>1 DEF LoadTouchesKey, GetOrCreateKey, TheKey, Loaded, Opens
<1>2. CASE file # 0 /\ key = 0
  <2>1. file \in Inode /\ lastKey \in Nat /\ (data[file].whole => data[file].key \in 1 .. lastKey)
    BY <1>2 DEF Valid, Types, KeysAreOld
  <2>2. key' = lastKey + 1
    BY <1>2 DEF LoadTouchesKey, GetOrCreateKey, TheKey
  <2>3. ~Opens(file, key) /\ ~Opens(file, key)'
    BY <1>2, <2>1, <2>2 DEF Opens
  <2>4. QED
    BY <2>3 DEF Loaded
<1>3. QED
  BY <1>1, <1>2

\* What the screen and its saves do unsettles the keyboard, or could not begin
\* while it was settled.
LEMMA Unsettled ==
  ASSUME Orderly,
         Screen \/ \E s \in saves : \/ Start(s) \/ Seal(s) \/ OpenTmp(s) \/ FillTmp(s)
                                    \/ Rename(s)
  PROVE  ~settled' /\ UNCHANGED <<warm, personal, engine, refreshes, rebuilds, raced, fields>>
<1>0. settled => saves = {} /\ wipes = {} /\ screen \notin {"loading", "read"}
  BY DEF Orderly, Followed, Busy
<1>1. CASE OpenScreen \/ CloseScreen \/ AskWipe \/ \E words \in SUBSET Word : Edit(words)
  BY <1>1 DEF OpenScreen, CloseScreen, AskWipe, Edit, Begins, keyboard, bounds
<1>2. CASE ScreenReads \/ ScreenShows
  BY <1>0, <1>2 DEF ScreenReads, ScreenShows, keyboard, history, bounds
<1>3. ASSUME NEW w \in wipes, WipeFile(w) \/ WipeTmp(w) \/ WipeKey(w) \/ WipeShows(w)
      PROVE  ~settled' /\ UNCHANGED <<keyboard, raced, fields>>
  BY <1>0, <1>3 DEF WipeFile, WipeTmp, WipeKey, WipeShows, history, bounds
<1>4. ASSUME NEW s \in saves, Start(s) \/ Seal(s) \/ OpenTmp(s) \/ FillTmp(s) \/ Rename(s)
      PROVE  ~settled' /\ UNCHANGED <<keyboard, raced, fields>>
  <2>1. ~settled
    BY <1>0
  <2>2. Start(s) \/ Rename(s) => UNCHANGED <<keyboard, raced, settled, fields>>
    BY DEF Start, Rename, history, bounds
  <2>3. Seal(s) => UNCHANGED <<keyboard, raced, settled, fields>>
    BY DEF Seal, history, bounds
  <2>4. OpenTmp(s) => UNCHANGED <<keyboard, raced, settled, fields>>
    BY DEF OpenTmp, history, bounds
  <2>5. FillTmp(s) => UNCHANGED <<keyboard, raced, settled, fields>>
    BY DEF FillTmp, history, bounds
  <2>6. QED
    BY <1>4, <2>1, <2>2, <2>3, <2>4, <2>5
<1>5. \A w \in Word : /\ Add(w) => Edit(shown \cup {w})
                      /\ Remove(w) => Edit(shown \ {w})
  BY DEF Add, Remove
<1>6. shown \in SUBSET Word
  BY DEF Orderly, Valid, Types
<1>7. QED
  BY <1>1, <1>2, <1>3, <1>4, <1>5, <1>6 DEF Screen, keyboard

LEMMA WarmStep ==
  ASSUME Orderly, WarmReads \/ WarmPublishes
  PROVE  (JobTypes /\ OneAtATime /\ Followed)'
<1>1. CASE WarmReads
  <2>1. warm = "assets" /\ warm' = "publish" /\ personal' = Loaded
        /\ UNCHANGED <<engine, refreshes, rebuilds, raced, settled, fields>>
    BY <1>1 DEF WarmReads, history, bounds
  <2>2. Loaded \in SUBSET Word
    BY LoadedTyped DEF Orderly, Valid
  <2>3. QED
    BY <2>1, <2>2 DEF Orderly, JobTypes, OneAtATime, Followed, AtRest
<1>2. CASE WarmPublishes
  <2>1. warm = "publish" /\ warm' = "ready" /\ rebuilds' = rebuilds \cup {Job(0, "build")}
        /\ UNCHANGED <<personal, engine, refreshes, raced, settled, fields>>
    BY <1>2 DEF WarmPublishes, history, bounds
  <2>2. refreshes = {} /\ rebuilds' = {Job(0, "build")} /\ ~settled
    BY <2>1 DEF Orderly, OneAtATime, AtRest
  <2>3. Job(0, "build") \in KeyboardJob /\ Job(0, "build").phase = "build"
    BY DEF Job, KeyboardJob
  <2>4. QED
    BY <2>1, <2>2, <2>3 DEF Orderly, JobTypes, OneAtATime, Followed
<1>3. QED
  BY <1>1, <1>2

LEMMA EnterStep ==
  ASSUME Orderly, NEW toggled \in BOOLEAN, StartInput(toggled)
  PROVE  (JobTypes /\ OneAtATime /\ Followed)'
<1>1. UNCHANGED <<file, data, key, screen, saves, wipes, warm, personal, engine>>
      /\ fields' = fields + 1
  BY DEF StartInput, store, settings
<1>2. Loaded' = Loaded /\ Busy' = Busy
  BY <1>1 DEF Loaded, Opens, Busy
<1>3. CASE warm # "ready"
  <2>1. UNCHANGED <<refreshes, rebuilds, raced, settled>>
    BY <1>3 DEF StartInput
  <2>2. QED
    BY <1>1, <1>3, <2>1 DEF Orderly, JobTypes, OneAtATime, Followed, AtRest
<1>4. CASE warm = "ready"
  <2> DEFINE read1 == Job(fields + 1, "read")
             build1 == Job(fields + 1, "build")
  <2>1. /\ refreshes' = refreshes \cup {read1}
        /\ rebuilds' = IF toggled THEN rebuilds \cup {build1} ELSE rebuilds
        /\ raced' = (raced \/ toggled \/ ~AtRest)
        /\ settled' = (AtRest /\ ~Busy)
    BY <1>4 DEF StartInput
  <2>2. read1 \in KeyboardJob /\ build1 \in KeyboardJob /\ read1.phase = "read"
    BY DEF Job, KeyboardJob, Orderly, JobTypes
  <2> HIDE DEF read1, build1
  <2>3. JobTypes'
    BY <1>1, <2>1, <2>2 DEF Orderly, JobTypes
  <2>4. OneAtATime'
    <3>1. ~raced' => ~raced /\ refreshes' = {read1} /\ rebuilds' = {} /\ rebuilds = {} /\ refreshes = {}
      BY <2>1 DEF AtRest
    <3>2. ~raced' => engine = personal
      BY <1>4, <3>1 DEF Orderly, OneAtATime
    <3>3. QED
      BY <1>1, <1>4, <2>2, <3>1, <3>2 DEF OneAtATime
  <2>5. Followed'
    <3>1. settled' => refreshes' = {read1} /\ ~Busy'
      BY <1>2, <2>1 DEF AtRest
    <3>2. QED
      BY <2>2, <3>1 DEF Followed
  <2>6. QED
    BY <2>3, <2>4, <2>5
<1>5. QED
  BY <1>3, <1>4

\* There is a job only where the keyboard is ready.
LEMMA JobsWhenReady ==
  ASSUME Orderly, NEW r \in refreshes \cup rebuilds
  PROVE  r \in KeyboardJob /\ warm = "ready"
BY DEF Orderly, JobTypes, OneAtATime, AtRest

LEMMA ReadStep ==
  ASSUME Orderly, NEW r \in refreshes, RefreshReads(r)
  PROVE  (JobTypes /\ OneAtATime /\ Followed)'
<1> DEFINE q == [r EXCEPT !.phase = "compare", !.words = Loaded]
<1>1. UNCHANGED <<file, tmp, data, screen, saves, wipes, warm, personal, engine, rebuilds,
                  raced, settled, fields>>
      /\ LoadTouchesKey /\ r.phase = "read"
      /\ refreshes' = (refreshes \ {r}) \cup {q}
  BY DEF RefreshReads, settings, history, bounds
<1>2. r \in KeyboardJob /\ warm = "ready"
  BY JobsWhenReady
<1>3. Loaded' = Loaded /\ Busy' = Busy /\ Loaded \in SUBSET Word
  BY <1>1, LoadKeepsLoaded, LoadedTyped DEF Orderly, Valid, Busy
<1>4. q \in KeyboardJob /\ q.phase = "compare" /\ q.words = Loaded
  BY <1>2, <1>3 DEF KeyboardJob
<1> HIDE DEF q
<1>5. JobTypes'
  BY <1>1, <1>4 DEF Orderly, JobTypes
<1>6. ~raced => refreshes' = {q} /\ rebuilds = {} /\ engine = personal
  BY <1>1, <1>2 DEF Orderly, OneAtATime
<1>7. OneAtATime'
  BY <1>1, <1>2, <1>4, <1>6 DEF OneAtATime
<1>8. settled => refreshes' = {q} /\ ~Busy
  BY <1>1 DEF Orderly, Followed
<1>9. Followed'
  BY <1>1, <1>3, <1>4, <1>8 DEF Followed
<1>10. QED
  BY <1>5, <1>7, <1>9

LEMMA CompareStep ==
  ASSUME Orderly, NEW r \in refreshes, RefreshCompares(r)
  PROVE  (JobTypes /\ OneAtATime /\ Followed)'
<1> DEFINE q == [r EXCEPT !.phase = "install"]
<1>1. UNCHANGED <<file, data, key, screen, saves, wipes, warm, engine, rebuilds,
                  raced, settled, fields>>
      /\ r.phase = "compare"
  BY DEF RefreshCompares, store, settings, history, bounds
<1>2. r \in KeyboardJob /\ warm = "ready"
  BY JobsWhenReady
<1>3. Loaded' = Loaded /\ Busy' = Busy
  BY <1>1 DEF Loaded, Opens, Busy
<1>4. q \in KeyboardJob /\ q.phase = "install" /\ q.words = r.words /\ r.words \in SUBSET Word
  BY <1>2 DEF KeyboardJob
<1>5. /\ personal' = r.words
      /\ \/ refreshes' = refreshes \ {r} /\ personal' = personal
         \/ refreshes' = (refreshes \ {r}) \cup {q}
  BY DEF RefreshCompares
<1> HIDE DEF q
<1>6. JobTypes'
  BY <1>1, <1>4, <1>5 DEF Orderly, JobTypes
<1>7. ~raced => refreshes = {r} /\ rebuilds = {} /\ engine = personal
  BY <1>1, <1>2 DEF Orderly, OneAtATime
<1>8. OneAtATime'
  <2>1. CASE refreshes' = refreshes \ {r} /\ personal' = personal
    BY <1>1, <1>2, <1>7, <2>1 DEF OneAtATime
  <2>2. CASE refreshes' = (refreshes \ {r}) \cup {q}
    <3>1. ~raced => refreshes' = {q}
      BY <1>7, <2>2
    <3>2. QED
      BY <1>1, <1>2, <1>4, <1>5, <1>7, <3>1 DEF OneAtATime
  <2>3. QED
    BY <1>5, <2>1, <2>2
<1>9. settled => refreshes = {r} /\ ~Busy /\ r.words = Loaded
  BY <1>1 DEF Orderly, Followed
<1>10. Followed'
  BY <1>1, <1>3, <1>4, <1>5, <1>9 DEF Followed
<1>11. QED
  BY <1>6, <1>8, <1>10

LEMMA InstallStep ==
  ASSUME Orderly, NEW r \in refreshes, RefreshInstalls(r)
  PROVE  (JobTypes /\ OneAtATime /\ Followed)'
<1>1. UNCHANGED <<file, data, key, screen, saves, wipes, warm, personal, rebuilds,
                  raced, settled, fields>>
      /\ r.phase = "install" /\ engine' = r.words /\ refreshes' = refreshes \ {r}
  BY DEF RefreshInstalls, store, settings, history, bounds
<1>2. r \in KeyboardJob /\ warm = "ready"
  BY JobsWhenReady
<1>3. Loaded' = Loaded /\ Busy' = Busy
  BY <1>1 DEF Loaded, Opens, Busy
<1>4. JobTypes'
  BY <1>1 DEF Orderly, JobTypes
<1>5. OneAtATime'
  BY <1>1, <1>2 DEF Orderly, OneAtATime
<1>6. settled => refreshes = {r} /\ ~Busy /\ personal = Loaded
  BY <1>1 DEF Orderly, Followed
<1>7. Followed'
  BY <1>1, <1>3, <1>6 DEF Followed
<1>8. QED
  BY <1>4, <1>5, <1>7

LEMMA RebuildSteps ==
  ASSUME Orderly, NEW b \in rebuilds, Builds(b) \/ Installs(b)
  PROVE  (JobTypes /\ OneAtATime /\ Followed)'
<1> DEFINE c == [b EXCEPT !.phase = "install", !.words = personal]
<1>1. UNCHANGED <<file, data, key, screen, saves, wipes, warm, personal, refreshes,
                  raced, settled, fields>>
  BY DEF Builds, Installs, store, settings, history, bounds
<1>2. b \in KeyboardJob /\ warm = "ready"
  BY JobsWhenReady
<1>3. Loaded' = Loaded /\ Busy' = Busy
  BY <1>1 DEF Loaded, Opens, Busy
<1>4. Followed'
  BY <1>1, <1>3 DEF Orderly, Followed
<1>5. ~raced => rebuilds = {b} /\ refreshes = {}
  BY <1>2 DEF Orderly, OneAtATime
<1>6. CASE Builds(b)
  <2>1. engine' = engine /\ rebuilds' = (rebuilds \ {b}) \cup {c}
    BY <1>6 DEF Builds
  <2>2. c \in KeyboardJob /\ c.phase = "install" /\ c.words = personal
    BY <1>2 DEF KeyboardJob, Orderly, JobTypes
  <2> HIDE DEF c
  <2>3. JobTypes'
    BY <1>1, <2>1, <2>2 DEF Orderly, JobTypes
  <2>4. ~raced => rebuilds' = {c}
    BY <1>5, <2>1
  <2>5. OneAtATime'
    BY <1>1, <1>2, <1>5, <2>2, <2>4 DEF OneAtATime
  <2>6. QED
    BY <1>4, <2>3, <2>5
<1>7. CASE Installs(b)
  <2>1. engine' = b.words /\ rebuilds' = rebuilds \ {b} /\ b.phase = "install"
    BY <1>7 DEF Installs
  <2>2. JobTypes'
    BY <1>1, <2>1 DEF Orderly, JobTypes
  <2>3. ~raced => engine' = personal
    BY <1>2, <1>5, <2>1 DEF Orderly, OneAtATime
  <2>4. OneAtATime'
    BY <1>1, <1>2, <1>5, <2>1, <2>3 DEF OneAtATime
  <2>5. QED
    BY <1>4, <2>2, <2>4
<1>8. QED
  BY <1>6, <1>7

LEMMA OrderlyStep ==
  ASSUME Orderly, [Next]_vars
  PROVE  Orderly'
<1> SUFFICES (JobTypes /\ OneAtATime /\ Followed)'
  BY ValidStep DEF Orderly
<1>1. ASSUME ~settled',
             UNCHANGED <<warm, personal, engine, refreshes, rebuilds, raced, fields>>
      PROVE  (JobTypes /\ OneAtATime /\ Followed)'
  BY <1>1 DEF Orderly, JobTypes, OneAtATime, Followed, AtRest
<1>2. ASSUME KeyboardGone, fields' = fields
      PROVE  (JobTypes /\ OneAtATime /\ Followed)'
  BY <1>2 DEF KeyboardGone, Orderly, JobTypes, OneAtATime, Followed, AtRest
<1>3. CASE Screen
  BY <1>1, <1>3, Unsettled
<1>4. ASSUME NEW s \in saves, RenameFails(s) \/ SealThrows(s)
      PROVE  KeyboardGone /\ fields' = fields
  BY <1>4 DEF RenameFails, SealThrows, ProcessDies, bounds
<1>5. CASE Saving
  BY <1>1, <1>2, <1>4, <1>5, Unsettled DEF Saving
<1>6. CASE Keyboard
  BY <1>6, WarmStep, EnterStep, ReadStep, CompareStep, InstallStep, RebuildSteps DEF Keyboard
<1>7. CASE Crash \/ Destroy
  <2>1. KeyboardGone /\ fields' = fields
    BY <1>7 DEF Crash, Destroy, ProcessDies
  <2>2. QED
    BY <1>2, <2>1
<1>8. CASE UNCHANGED vars
  BY <1>8 DEF vars, store, settings, keyboard, history, bounds, Orderly, JobTypes, OneAtATime,
              Followed, AtRest, Busy, Loaded, Opens
<1>9. QED
  BY <1>3, <1>5, <1>6, <1>7, <1>8 DEF Next

\* CorrectionController.kt:299-302: a field entered with nothing else under way
\* leaves the keyboard with the stored dictionary, whatever the screen, its
\* saves and the deaths did before, overlapped or not.
THEOREM KeyboardIsCurrent == Spec => []KeyboardFollows
<1>1. Init => Orderly
  BY Valid0 DEF Init, Orderly, JobTypes, OneAtATime, Followed, AtRest
<1>2. Orderly => KeyboardFollows
  BY DEF Orderly, OneAtATime, Followed, KeyboardFollows, AtRest
<1>3. QED
  BY <1>1, <1>2, OrderlyStep, PTL DEF Spec

-----------------------------------------------------------------------------
(* The list on the screen, while operations do not overlap: one wipe at    *)
(* most is under way, none outlives its screen with a list to clear, and   *)
(* the list is the stored one, or what the save under way is to store.     *)

Wipe == [no : Nat, phase : {"asked", "file", "tmp", "wiped"}, live : BOOLEAN]

Listed ==
    /\ wipes \in SUBSET Wipe
    /\ \A w, v \in wipes : w = v
    /\ screen \in {"loading", "read"} => saves = {} /\ wipes = {}
    /\ screen = "read" => read = stored
    /\ \A w \in wipes : /\ ~w.live => screen = "closed"
                        /\ w.phase # "asked" => stored = {}
    /\ screen = "open" => /\ \A s \in saves : shown = s.meant
                          /\ saves = {} /\ wipes = {} => shown = stored

LInv == overlap = TRUE \/ (Sound /\ Listed)

LEMMA ListedOnScreen ==
  ASSUME Sound, Listed, ~ overlap', OpenScreen \/ ScreenReads \/ ScreenShows \/ CloseScreen
  PROVE  Listed'
<1>1. CASE OpenScreen
  <2>1. saves = {} /\ wipes = {} /\ saves' = {} /\ wipes' = {} /\ screen' = "loading"
    BY <1>1 DEF OpenScreen, Begins, Busy
  <2>2. QED
    BY <2>1 DEF Listed
<1>2. CASE ScreenReads
  <2>1. saves' = {} /\ wipes' = {} /\ screen' = "read" /\ read' = stored /\ stored' = stored
    BY <1>2, LoadedIsStored DEF ScreenReads, Listed, history
  <2>2. QED
    BY <2>1 DEF Listed
<1>3. CASE ScreenShows
  <2>1. saves' = {} /\ wipes' = {} /\ screen' = "open" /\ shown' = stored /\ stored' = stored
    BY <1>3 DEF ScreenShows, Listed, Detached, history
  <2>2. QED
    BY <2>1 DEF Listed
<1>4. CASE CloseScreen
  <2>1. screen' = "closed" /\ stored' = stored
        /\ wipes' = {Off(w) : w \in {v \in wipes : v.phase \in {"file", "tmp"}}}
    BY <1>4 DEF CloseScreen, Off
  <2>2. ASSUME NEW w \in Wipe PROVE Off(w) \in Wipe /\ Off(w).phase = w.phase
    BY DEF Wipe, Off
  <2>3. QED
    BY <2>1, <2>2 DEF Listed
<1>5. QED
  BY <1>1, <1>2, <1>3, <1>4

LEMMA ListedOnEdit ==
  ASSUME Sound, Listed, ~ overlap', AskWipe \/ \E w \in Word : Add(w) \/ Remove(w)
  PROVE  Listed'
<1>1. CASE AskWipe
  <2> DEFINE new == [no |-> edits, phase |-> "asked", live |-> TRUE]
  <2>1. saves = {} /\ wipes = {} /\ screen \notin {"closed", "loading", "read"}
    BY <1>1 DEF AskWipe, Begins, Busy
  <2>2. saves' = {} /\ wipes' = {new} /\ UNCHANGED <<screen, read, shown, stored>>
    BY <1>1, <2>1 DEF AskWipe
  <2>3. new \in Wipe /\ new.phase = "asked" /\ new.live = TRUE
    BY DEF Wipe, Sound, Types
  <2> HIDE DEF new
  <2>4. QED
    BY <2>1, <2>2, <2>3 DEF Listed
<1>2. ASSUME NEW words \in SUBSET Word, Edit(words)
      PROVE  Listed'
  <2> DEFINE new == [no |-> edits, phase |-> "launched", live |-> FALSE,
                     words |-> {}, meant |-> words, key |-> 0, ino |-> 0]
  <2>1. saves = {} /\ wipes = {} /\ screen \notin {"loading", "read"}
    BY <1>2 DEF Edit, Begins, Busy
  <2>2. saves' = {new} /\ wipes' = {} /\ shown' = words /\ UNCHANGED <<screen, read, stored>>
    BY <1>2, <2>1 DEF Edit
  <2>3. new.meant = words
    OBVIOUS
  <2> HIDE DEF new
  <2>4. QED
    BY <2>1, <2>2, <2>3 DEF Listed
<1>3. \A w \in Word : /\ Add(w) => Edit(shown \cup {w})
                      /\ Remove(w) => Edit(shown \ {w})
  BY DEF Add, Remove
<1>4. QED
  BY <1>1, <1>2, <1>3 DEF Sound, Types

\* A save that takes a step means what it meant.
LEMMA ListedOneStep ==
  ASSUME Sound, Listed, NEW s \in saves, NEW t, Moved(s, t), t.meant = s.meant,
         UNCHANGED settings, stored' = stored
  PROVE  Listed'
<1>1. saves' = {t} /\ saves = {s} /\ wipes = {} /\ screen \notin {"loading", "read"}
  BY TheOnlySave DEF Moved
<1>2. QED
  BY <1>1 DEF Listed, settings

LEMMA ListedOnSave ==
  ASSUME Sound, Listed, NEW s \in saves,
         Start(s) \/ Seal(s) \/ OpenTmp(s) \/ FillTmp(s) \/ Rename(s)
  PROVE  Listed'
<1>0. s \in Save /\ saves = {s} /\ wipes = {} /\ screen \notin {"loading", "read"}
  BY TheOnlySave
<1>1. CASE Rename(s)
  <2>1. saves' = {} /\ stored' = s.meant /\ UNCHANGED settings
    BY <1>0, <1>1 DEF Rename
  <2>2. QED
    BY <1>0, <2>1 DEF Listed, settings
<1>2. ASSUME Start(s) \/ Seal(s) \/ OpenTmp(s) \/ FillTmp(s)
      PROVE  UNCHANGED settings /\ stored' = stored
  <2>1. Start(s) => UNCHANGED settings /\ stored' = stored
    BY DEF Start, history
  <2>2. Seal(s) => UNCHANGED settings /\ stored' = stored
    BY DEF Seal, history
  <2>3. OpenTmp(s) => UNCHANGED settings /\ stored' = stored
    BY DEF OpenTmp, history
  <2>4. FillTmp(s) => UNCHANGED settings /\ stored' = stored
    BY DEF FillTmp, history
  <2>5. QED
    BY <1>2, <2>1, <2>2, <2>3, <2>4
<1>3. ASSUME Start(s) \/ Seal(s) \/ OpenTmp(s) \/ FillTmp(s)
      PROVE  \E t : Moved(s, t) /\ t.meant = s.meant
  <2>1. CASE Start(s)
    <3> DEFINE t == [s EXCEPT !.phase = "reading", !.live = TRUE, !.words = shown]
    <3>1. Moved(s, t) /\ t.meant = s.meant
      BY <1>0, <2>1 DEF Start, Save
    <3> HIDE DEF t
    <3>2. QED
      BY <3>1
  <2>2. CASE Seal(s)
    <3>1. PICK words \in {s.words} \cup IF s.live THEN {shown} ELSE {} :
            Moved(s, [s EXCEPT !.phase = "sealed", !.live = FALSE, !.words = words,
                               !.key = TheKey])
      BY <2>2 DEF Seal
    <3> DEFINE t == [s EXCEPT !.phase = "sealed", !.live = FALSE, !.words = words, !.key = TheKey]
    <3>2. Moved(s, t) /\ t.meant = s.meant
      BY <1>0, <3>1 DEF Save
    <3> HIDE DEF t
    <3>3. QED
      BY <3>2
  <2>3. CASE OpenTmp(s)
    <3> DEFINE t == [s EXCEPT !.phase = "opened", !.ino = tmp']
    <3>1. Moved(s, t) /\ t.meant = s.meant
      BY <1>0, <2>3 DEF OpenTmp, Save
    <3> HIDE DEF t
    <3>2. QED
      BY <3>1
  <2>4. CASE FillTmp(s)
    <3> DEFINE t == [s EXCEPT !.phase = "filled"]
    <3>1. Moved(s, t) /\ t.meant = s.meant
      BY <1>0, <2>4 DEF FillTmp, Save
    <3> HIDE DEF t
    <3>2. QED
      BY <3>1
  <2>5. QED
    BY <1>3, <2>1, <2>2, <2>3, <2>4
<1>4. QED
  BY <1>1, <1>2, <1>3, ListedOneStep

LEMMA ListedOnWipe ==
  ASSUME Sound, Listed, NEW w \in wipes,
         WipeFile(w) \/ WipeTmp(w) \/ WipeKey(w) \/ WipeShows(w)
  PROVE  Listed'
<1> DEFINE to(phase) == [w EXCEPT !.phase = phase]
<1>1. w \in Wipe /\ wipes = {w} /\ saves = {} /\ screen \notin {"loading", "read"}
  BY DEF Listed, Sound, Alone
<1>2. \A phase \in {"file", "tmp", "wiped"} :
         to(phase) \in Wipe /\ to(phase).phase = phase /\ to(phase).live = w.live
  BY <1>1 DEF Wipe
<1>3. \A phase \in {"file", "tmp", "wiped"} : WipeMoved(w, phase) => wipes' = {to(phase)}
  BY <1>1 DEF WipeMoved
<1> HIDE DEF to
<1>4. CASE WipeFile(w)
  <2>1. wipes' = {to("file")} /\ stored' = {} /\ UNCHANGED <<screen, read, shown, saves>>
    BY <1>3, <1>4 DEF WipeFile
  <2>2. QED
    BY <1>1, <1>2, <2>1 DEF Listed
<1>5. CASE WipeTmp(w)
  <2>1. wipes' = {to("tmp")} /\ stored' = {} /\ UNCHANGED <<screen, read, shown, saves>>
    BY <1>3, <1>5 DEF WipeTmp, Listed, history
  <2>2. QED
    BY <1>1, <1>2, <2>1 DEF Listed
<1>6. CASE WipeKey(w)
  <2>1. (IF w.live THEN wipes' = {to("wiped")} ELSE wipes' = {}) /\ stored' = {}
        /\ UNCHANGED <<screen, read, shown, saves>>
    BY <1>1, <1>3, <1>6 DEF WipeKey, Listed, history
  <2>2. QED
    BY <1>1, <1>2, <2>1 DEF Listed
<1>7. CASE WipeShows(w)
  <2>1. wipes' = {} /\ saves' = {} /\ shown' = {} /\ stored' = {} /\ UNCHANGED <<screen, read>>
    BY <1>1, <1>7 DEF WipeShows, Listed, Detached, history
  <2>2. QED
    BY <1>1, <2>1 DEF Listed
<1>8. QED
  BY <1>4, <1>5, <1>6, <1>7

LEMMA ListedStep ==
  ASSUME Sound, Listed, ~ overlap', [Next]_vars
  PROVE  Listed'
<1>1. CASE Screen
  BY <1>1, ListedOnScreen, ListedOnEdit, ListedOnWipe DEF Screen
<1>2. ASSUME Crash \/ \E s \in saves : RenameFails(s) \/ SealThrows(s)
      PROVE  Listed'
  <2>1. screen' = "closed" /\ saves' = {} /\ wipes' = {}
    BY <1>2 DEF Crash, RenameFails, SealThrows, ProcessDies
  <2>2. QED
    BY <2>1 DEF Listed
<1>3. CASE Saving
  BY <1>2, <1>3, ListedOnSave DEF Saving
<1>4. CASE Keyboard \/ Destroy \/ UNCHANGED vars
  <2>1. UNCHANGED touched
    <3>1. CASE Keyboard \/ Destroy
      BY <3>1, KeyboardLeaves
    <3>2. CASE UNCHANGED vars
      BY <3>2 DEF vars, touched, store, settings, history, bounds
    <3>3. QED
      BY <1>4, <3>1, <3>2
  <2>2. QED
    BY <2>1 DEF Listed, touched
<1>5. QED
  BY <1>1, <1>2, <1>3, <1>4 DEF Next

LEMMA LInvHolds == Spec => []LInv
<1>1. Init => LInv
  BY Start0 DEF Init, LInv, Listed
<1>2. LInv /\ [Next]_vars => LInv'
  <2> SUFFICES ASSUME LInv, [Next]_vars PROVE LInv'
    OBVIOUS
  <2>1. overlap \in BOOLEAN
    BY DEF LInv, Sound, Types
  <2>2. overlap' \in BOOLEAN /\ (overlap => overlap')
    BY <2>1, OverlapStays
  <2>3. CASE overlap' = TRUE
    BY <2>3 DEF LInv
  <2>4. CASE ~ overlap'
    BY <2>2, <2>4, SoundStep, ListedStep DEF LInv
  <2>5. QED
    BY <2>2, <2>3, <2>4
<1>3. QED
  BY <1>1, <1>2, PTL DEF Spec

\* SettingsActivity.kt:57-58: whoever looks at the list with nothing under way
\* sees exactly what the file holds, through any visits, wipes and deaths,
\* unless operations of the screen overlapped.
THEOREM ScreenIsTrue == Spec => []ScreenTellsTheTruth
<1>1. LInv => ScreenTellsTheTruth
  BY LoadedIsStored DEF LInv, Listed, ScreenTellsTheTruth, Busy
<1>2. QED
  BY <1>1, LInvHolds, PTL

-----------------------------------------------------------------------------
(***************************************************************************)
(* The same store without the history: until operations of the screen       *)
(* overlap, its steps are those of AtomicStore.  What is stored is what     *)
(* opens, and what is on its way is what the one save was launched for.     *)
(***************************************************************************)

\* The store waits while its four variables and the saves and wipes do.
LEMMA StoreWaits ==
  ASSUME UNCHANGED <<file, data, key, saves, wipes>>
  PROVE  UNCHANGED Store!storeVars
BY DEF Store!storeVars, Readable, UnderWay, Opens

\* The temporary file and the key are written beside what is stored.
LEMMA ReadableStays ==
  ASSUME Sound, Sound', stored' = stored, (file = 0) = (file' = 0)
  PROVE  Readable' = Readable
<1>1. CASE file = 0
  BY <1>1 DEF Readable, Opens
<1>2. CASE file # 0
  <2>1. Readable = {stored}
    BY <1>2 DEF Readable, Opens, Sound, Kept
  <2>2. Readable' = {stored'}
    BY <1>2 DEF Readable, Opens, Sound, Kept
  <2>3. QED
    BY <2>1, <2>2
<1>3. QED
  BY <1>1, <1>2

LEMMA StoreOnEdit ==
  ASSUME Sound, ~ overlap', NEW words \in SUBSET Word, Edit(words)
  PROVE  Store!BeginSave
<1>1. saves = {} /\ UNCHANGED <<file, data, key, wipes>>
  BY DEF Edit, Begins, Busy, store
<1>2. UnderWay = {} /\ UnderWay' = {words}
  BY <1>1 DEF Edit, UnderWay
<1>3. Readable' = Readable
  BY <1>1 DEF Readable, Opens
<1>4. QED
  BY <1>1, <1>2, <1>3 DEF Store!BeginSave

\* Steps of a save before its rename: it goes on meaning the same.
LEMMA StoreOnSave ==
  ASSUME Sound, NEW s \in saves, Start(s) \/ Seal(s) \/ OpenTmp(s) \/ FillTmp(s)
  PROVE  UNCHANGED Store!storeVars
<1>1. Sound'
  BY StartStep, SealStep, OpenStep, FillStep
<1>2. stored' = stored /\ file' = file /\ wipes' = wipes
  BY DEF Start, Seal, OpenTmp, FillTmp, store, settings, history
<1>3. Readable' = Readable
  BY <1>1, <1>2, ReadableStays
<1>4. saves = {s} /\ s \in Save
  BY TheOnlySave
<1>5. PICK t : saves' = {t} /\ t.meant = s.meant
  <2>1. ASSUME NEW t, Moved(s, t), t.meant = s.meant
        PROVE  \E u : saves' = {u} /\ u.meant = s.meant
    BY <1>4, <2>1 DEF Moved
  <2>2. CASE Start(s)
    BY <1>4, <2>1, <2>2 DEF Start, Save
  <2>3. CASE Seal(s)
    BY <1>4, <2>1, <2>3 DEF Seal, Save
  <2>4. CASE OpenTmp(s)
    BY <1>4, <2>1, <2>4 DEF OpenTmp, Save
  <2>5. CASE FillTmp(s)
    BY <1>4, <2>1, <2>5 DEF FillTmp, Save
  <2>6. QED
    BY <2>2, <2>3, <2>4, <2>5
<1>6. UnderWay' = UnderWay
  BY <1>4, <1>5 DEF UnderWay
<1>7. QED
  BY <1>2, <1>3, <1>6 DEF Store!storeVars

LEMMA StoreOnRename ==
  ASSUME Sound, NEW s \in saves, Rename(s)
  PROVE  Store!EndSave
<1>1. saves = {s} /\ s.phase = "filled" /\ Faithful(s) /\ saves' = {}
  BY TheOnlySave DEF Rename
<1>2. UnderWay = {s.meant} /\ UnderWay' = {}
  BY <1>1 DEF UnderWay
<1>3. file' = tmp /\ tmp # 0 /\ UNCHANGED <<data, key, wipes>>
  BY DEF Rename, settings
<1>4. Readable' = {s.meant}
  BY <1>1, <1>3 DEF Readable, Opens, Faithful
<1>5. QED
  BY <1>2, <1>3, <1>4 DEF Store!EndSave

\* A wipe asked for begins to forget; once the file is gone so is what it held.
LEMMA StoreOnAsk ==
  ASSUME Sound, ~ overlap', AskWipe
  PROVE  Store!BeginForget
<1>1. wipes = {} /\ UNCHANGED <<file, data, key, saves>>
  BY DEF AskWipe, Begins, Busy, store
<1>2. wipes' = {[no |-> edits, phase |-> "asked", live |-> TRUE]}
  BY <1>1 DEF AskWipe
<1>3. (\E w \in wipes : w.phase # "wiped") = FALSE /\ (\E w \in wipes' : w.phase # "wiped") = TRUE
  BY <1>1, <1>2
<1>4. Readable' = Readable /\ UnderWay' = UnderWay
  BY <1>1 DEF Readable, UnderWay, Opens
<1>5. QED
  BY <1>3, <1>4 DEF Store!BeginForget

LEMMA StoreOnWipe ==
  ASSUME Sound, NEW w \in wipes, w \in Wipe,
         WipeFile(w) \/ WipeTmp(w) \/ WipeKey(w) \/ WipeShows(w)
  PROVE  [Store!Next]_(Store!storeVars)
<1> DEFINE Forgetting == \E v \in wipes : v.phase # "wiped"
<1>1. saves = {} /\ saves' = {}
  BY DEF Sound, Alone, WipeFile, WipeTmp, WipeKey, WipeShows, Detached
<1>2. UnderWay = {} /\ UnderWay' = {}
  BY <1>1 DEF UnderWay
<1>3. ASSUME WipeMoved(w, "file") \/ WipeMoved(w, "tmp")
      PROVE  Forgetting'
  <2>1. PICK phase \in {"file", "tmp"} : WipeMoved(w, phase)
    BY <1>3
  <2>2. [w EXCEPT !.phase = phase] \in wipes' /\ [w EXCEPT !.phase = phase].phase # "wiped"
    BY <2>1 DEF WipeMoved, Wipe
  <2>3. QED
    BY <2>2
<1>4. CASE WipeFile(w)
  <2>1. Forgetting = TRUE /\ Forgetting' = TRUE
    BY <1>3, <1>4 DEF WipeFile
  <2>2. Readable' = {}
    BY <1>4 DEF WipeFile, Readable, Opens
  <2>3. Store!Forget
    BY <1>2, <2>1, <2>2 DEF Store!Forget
  <2>4. QED
    BY <2>3 DEF Store!Next
<1>5. CASE WipeTmp(w)
  <2>1. Forgetting = TRUE /\ Forgetting' = TRUE
    BY <1>3, <1>5 DEF WipeTmp
  <2>2. Readable' = Readable
    BY <1>5 DEF WipeTmp, Readable, Opens
  <2>3. QED
    BY <1>2, <2>1, <2>2 DEF Store!storeVars
<1>6. CASE WipeKey(w)
  <2>1. file = 0 /\ file' = 0
    BY <1>6 DEF WipeKey, Sound, Alone
  <2>2. Readable = {} /\ Readable' = {}
    BY <2>1 DEF Readable, Opens
  <2>3. Forgetting = TRUE /\ (Forgetting' = TRUE \/ Forgetting' = FALSE)
    BY <1>6 DEF WipeKey
  <2>4. CASE Forgetting' = TRUE
    BY <1>2, <2>2, <2>3, <2>4 DEF Store!storeVars
  <2>5. CASE Forgetting' = FALSE
    <3>1. Store!EndForget
      BY <1>2, <2>2, <2>3, <2>5 DEF Store!EndForget
    <3>2. QED
      BY <3>1 DEF Store!Next
  <2>6. QED
    BY <2>3, <2>4, <2>5
<1>7. CASE WipeShows(w)
  <2>1. w.phase = "wiped" /\ wipes' = wipes \ {w} /\ UNCHANGED <<file, data, key>>
    BY <1>7 DEF WipeShows, store
  <2>2. Forgetting' = Forgetting
    BY <2>1
  <2>3. Readable' = Readable
    BY <2>1 DEF Readable, Opens
  <2>4. QED
    BY <1>2, <2>2, <2>3 DEF Store!storeVars
<1>8. QED
  BY <1>4, <1>5, <1>6, <1>7

\* A screen that goes takes the save that has not started, or the wipe.
LEMMA StoreOnClose ==
  ASSUME Sound, CloseScreen
  PROVE  [Store!Next]_(Store!storeVars)
<1> DEFINE Forgetting == \E v \in wipes : v.phase # "wiped"
<1>1. /\ saves' = {s \in Detached : s.phase # "launched"}
      /\ wipes' = {[w EXCEPT !.live = FALSE] : w \in {v \in wipes : v.phase \in {"file", "tmp"}}}
      /\ UNCHANGED <<file, data, key>>
  BY DEF CloseScreen, store
<1>2. Readable' = Readable
  BY <1>1 DEF Readable, Opens
<1>3. UnderWay' = UnderWay \/ UnderWay' = {}
  <2>1. CASE saves = {}
    BY <1>1, <2>1 DEF UnderWay, Detached
  <2>2. ASSUME NEW s \in saves
        PROVE  UnderWay' = UnderWay \/ UnderWay' = {}
    <3> DEFINE t == IF s.live THEN [s EXCEPT !.live = FALSE, !.words = shown] ELSE s
    <3>1. saves = {s} /\ s \in Save
      BY TheOnlySave
    <3>2. Detached = {t}
      BY <3>1 DEF Detached
    <3>3. t.meant = s.meant
      BY <3>1 DEF Save
    <3> HIDE DEF t
    <3>4. saves' = {t} \/ saves' = {}
      BY <1>1, <3>2
    <3>5. QED
      BY <3>1, <3>3, <3>4 DEF UnderWay
  <2>3. QED
    BY <2>1, <2>2
<1>4. UnderWay = {} \/ (~ Forgetting /\ ~ Forgetting')
  <2>1. saves # {} => wipes = {} /\ wipes' = {}
    BY <1>1 DEF Sound, Alone
  <2>2. QED
    BY <2>1 DEF UnderWay
<1>5. Forgetting \in BOOLEAN /\ Forgetting' \in BOOLEAN
  OBVIOUS
<1>6. Forgetting' => Forgetting
  BY <1>1
<1>7. CASE UnderWay' = UnderWay /\ Forgetting' = Forgetting
  BY <1>2, <1>7 DEF Store!storeVars
<1>8. CASE UnderWay' = {} /\ Forgetting' = FALSE
  BY <1>2, <1>8 DEF Store!Die, Store!Next
<1>9. QED
  BY <1>3, <1>4, <1>5, <1>6, <1>7, <1>8

\* Reading and showing what was read disturb nothing.
LEMMA StoreOnScreen ==
  ASSUME Sound, ~ overlap', OpenScreen \/ ScreenReads \/ ScreenShows
  PROVE  UNCHANGED Store!storeVars
<1>1. UNCHANGED <<file, data, key, wipes>>
  BY KeyStays DEF OpenScreen, ScreenReads, ScreenShows, store
<1>2. saves = {} /\ saves' = {}
  BY DEF OpenScreen, ScreenReads, ScreenShows, Begins, Busy, Detached, Sound, Alone
<1>3. QED
  BY <1>1, <1>2, StoreWaits

LEMMA StoreStep ==
  ASSUME Sound, Listed, ~ overlap', [Next]_vars
  PROVE  [Store!Next]_(Store!storeVars)
<1>1. CASE Screen
  <2>1. CASE OpenScreen \/ ScreenReads \/ ScreenShows
    BY <2>1, StoreOnScreen
  <2>2. CASE CloseScreen
    BY <2>2, StoreOnClose
  <2>3. CASE \E w \in Word : Add(w) \/ Remove(w)
    <3>1. \A w \in Word : /\ Add(w) => Edit(shown \cup {w})
                          /\ Remove(w) => Edit(shown \ {w})
      BY DEF Add, Remove
    <3>2. \A w \in Word : shown \cup {w} \in SUBSET Word /\ shown \ {w} \in SUBSET Word
      BY DEF Sound, Types
    <3>3. QED
      BY <2>3, <3>1, <3>2, StoreOnEdit DEF Store!Next
  <2>4. CASE AskWipe
    BY <2>4, StoreOnAsk DEF Store!Next
  <2>5. CASE \E w \in wipes : WipeFile(w) \/ WipeTmp(w) \/ WipeKey(w) \/ WipeShows(w)
    BY <2>5, StoreOnWipe DEF Listed
  <2>6. QED
    BY <1>1, <2>1, <2>2, <2>3, <2>4, <2>5 DEF Screen
<1>2. CASE Crash \/ \E s \in saves : RenameFails(s) \/ SealThrows(s)
  <2>1. UNCHANGED <<file, data, key>> /\ saves' = {} /\ wipes' = {}
    BY <1>2 DEF Crash, RenameFails, SealThrows, ProcessDies, store
  <2>2. Readable' = Readable /\ UnderWay' = {}
    BY <2>1 DEF Readable, UnderWay, Opens
  <2>3. (\E w \in wipes' : w.phase # "wiped") = FALSE
    BY <2>1
  <2>4. QED
    BY <2>2, <2>3 DEF Store!Die, Store!Next
<1>3. CASE Saving
  BY <1>2, <1>3, StoreOnSave, StoreOnRename DEF Saving, Store!Next
<1>4. CASE Keyboard \/ Destroy \/ UNCHANGED vars
  <2>1. CASE Keyboard \/ Destroy
    BY <2>1, KeyboardLeaves, StoreWaits DEF touched, store
  <2>2. CASE UNCHANGED vars
    BY <2>2, StoreWaits DEF vars, store, settings
  <2>3. QED
    BY <1>4, <2>1, <2>2
<1>5. QED
  BY <1>1, <1>2, <1>3, <1>4 DEF Next

LEMMA StoreStarts == Init => Store!Init
<1> SUFFICES ASSUME Init PROVE Store!Init
  OBVIOUS
<1>1. Readable = {} \/ \E v \in SUBSET Word : Readable = {v}
  <2>1. Sound
    BY Start0
  <2>2. Readable = {} \/ Readable = {stored}
    BY <2>1 DEF Sound, Kept, Readable, Opens
  <2>3. QED
    BY <2>1, <2>2 DEF Sound, Types
<1>2. UnderWay = {} /\ (\E w \in wipes : w.phase # "wiped") = FALSE
  BY DEF Init, UnderWay
<1>3. QED
  BY <1>1, <1>2 DEF Store!Init

\* PersonalDictionaryRepository.kt:16-19, for any words, edits, visits and deaths:
\* until two operations of the screen overlap, the dictionary on disk is one value
\* that a save replaces at once, by the list it was launched for, and that
\* nothing but a confirmed wipe removes.
THEOREM DictionaryIsAtomic == Spec => ActsAsStore
<1>1. LInv /\ LInv' /\ [Next]_vars => [overlap' \/ Store!Next]_(Store!storeVars)
  <2> SUFFICES ASSUME LInv, [Next]_vars, ~ overlap'
               PROVE  [Store!Next]_(Store!storeVars)
    OBVIOUS
  <2>1. overlap \in BOOLEAN
    BY DEF LInv, Sound, Types
  <2>2. ~ overlap
    BY <2>1, OverlapStays
  <2>3. Sound /\ Listed
    BY <2>2 DEF LInv
  <2>4. QED
    BY <2>3, StoreStep
<1>2. QED
  BY <1>1, LInvHolds, StoreStarts, PTL DEF Spec, ActsAsStore
=============================================================================

# A verification of the Hebrew keyboard and its gates

The repository is an Android keyboard (an `InputMethodService`) for Hebrew: it commits what is
typed, predicts words on a background coroutine, and, for a user who opts in, learns which word
follows which and keeps that encrypted on the device. It never replaces a word by itself and has
no network code. Around it stand Python tools that build its lexicon and its word-pair table, cut the
corpora it is measured on, run the labelling rounds that decide what ships, and a set of gates, each
of which must go red on a planted defect before its green counts. This directory holds TLA+ models of
both halves, the configurations that check them with TLC, and proofs checked by TLAPS. Paths below
are relative to the repository: `core/` is `core/src/main/kotlin/com/hebrewime/core/`, `app/` is
`app/src/main/kotlin/com/hebrewime/`, and the Python files are in `scripts/`.

## Inventory

| Component | State | Operations | Talks to |
|---|---|---|---|
| Learned model, `core/learning/UserNgramModel.kt`, `UserNgramCodec.kt` | counts and session counts of pairs and of words, what this session has credited, a cached size | `record`, `recordWord`, `endSession`, `clear`, eviction, `encode`/`decode`, the two eligibility tests | called by the controller's coroutines; read by the engine |
| Text buffer, `core/input/InputContextBuffer.kt` | text before the cursor, whether it is known, the expected cursor | `reset`, `clear`, `onTextCommitted`, `onCharsDeleted`, `onSelectionUpdated`, `currentWord`, `completedWords` | owned by the service |
| Service, `app/ime/HebrewImeService.kt` with `core/keyboard/KeyPressPlanner.kt`, `core/text/BidiPin.kt` | the session and its policy, the buffer, shift, layout, whether a direction mark was placed | every framework callback, every key, a held key, a tap on a candidate | the controller (calls), the editor (commands, late selection updates), the strip |
| Field policy, `core/privacy/SensitiveFieldPolicy.kt` | none | `classify`, `classifyLearning`, `beginSession` | the service, once per field |
| Controller, `app/ime/correction/CorrectionController.kt` | engine, model, request in flight, loading job, opt-in as last read | `warmUp`, `requestPredictions`, `cancelOutstanding`, `learn`, `endLearningSession`, the two refreshes, `shutdown` | coroutines on a pool, results on the main thread |
| Learned-model store, `app/learning/UserModelRepository.kt`, `app/dictionary/KeystoreKeyProvider.kt`, `core/dictionary/EncryptedStore.kt` | a file, its temporary, a Keystore key, a pending save | `load`, `scheduleSave`, `saveNow`, `wipe`, `hasStoredData` | one object in the keyboard, another in the settings screen |
| Settings, `app/settings/SettingsActivity.kt`, `app/learning/LearningPreferences.kt` | the opt-in | the switch, the forget button, the dictionary list | the same files and key, another activity of the process |
| Personal dictionary, `core/dictionary/PersonalDictionary.kt`, `app/dictionary/PersonalDictionaryRepository.kt` | a set of words, a file, a key | `add`, `remove`, `load`, `save`, `wipe` | settings writes it, the controller reads it |
| Keyboard view, `app/ime/view/KeyboardView.kt` | the key under the finger, repeat and long-press timers | touch events, timers | the service, by callbacks |
| Engine, lexicon, correction, `core/prediction`, `core/correction`, `core/lexicon` | immutable tables | ranking, edit distance, tries, prefix stripping | pure |
| Diagnostics, `app/diagnostics`, `core/selfcheck` | a ring of latencies, counters | recording, a report | background flusher |
| Gate runner, `run_gates.py`, `gatelib.py` | the row of each gate, the verdict of the run | `settle_release_apk`, a control and a real command per gate, the summary; `Detector.status`, `finish` | starts every gate script, reads its JSON; a build may run beside it |
| Readiness documents, `check_docs.py`, `check_dod.py` | four Markdown files with numbers and tables derived from one another | the two gates and their `--fix` modes | people edit the documents and the tree they describe |
| Labelling rounds, `build_label_batch.py`, `score_labels.py`, `export_label_dataset.py` | batch files, their keys, answers, buckets, the data set | cut a batch, label, score, `--emit-buckets`, export | each reads what another wrote, some time ago |
| Generated artifacts, `build_lexicon.py`, `build_bigrams.py`, `check_lexicon.py`, `check_apk.py`, `check_size.py` | download caches, lexicon, frequency table, bigram tables, manifests, the apk | the builders, the packaging, three gates with planted defects | files; Gradle packs what is on disk |
| Source gates, `check_learning.py`, `check_withdrawn.py`, `check_trace_sections.py`, `check_forbidden_api.py`, `check_no_network.py` | none | scans of Kotlin text and of resolved dependencies | the runner |
| Evaluation corpora, `build_eval_corpus.py`, `slice_eval_corpus.py`, `build_subtitle_corpus.py`, `build_typed_corpus.py`, `check_corpus_alphabet.py` | corpora, a manifest the tools share | build, slice, hold out, collect, and the gate on alphabets | `build_bigrams.py` trains on what they leave |
| Other scripts, `scripts/`, `tools/` | none that outlives a run | measure, convert, draw | build time only |

What is hard: requests are answered late or never and the field may have changed; the editor's
cursor reports are asynchronous; several coroutines read, replace and save the learned model while
the settings screen, with its own repository object, toggles or wipes it; the process may die
between any two steps of a save or a wipe; edits of the dictionary follow each other faster than their
saves; a builder is killed between two files; documents, batches and artifacts are compared long after
they were written, by tools that each see two of the things that must agree. What makes the parts
correct:

* the buffer agrees with the editor, or says it does not know;
* nothing typed or computed in one field surfaces in another; a restricted field is never
  computed from or learned from;
* a word pair is offered only after it came back in separate sessions, and the table stays bounded
  without dropping what came back for what did not;
* nothing is stored before the opt-in; the switch takes effect at the next field; forgetting is
  final; a file is never half-written; a lesson left alone is eventually saved;
* the dictionary survives a death anywhere, the screen shows what is stored and the keyboard follows;
* a run of the gates ends, and ends OK only if every gate was seen red first and green afterwards;
* what the gates pass is true: no stale number, no tier met that is not, the pinned lexicon in the
  package, no verdict on answers that were not given;
* nothing is measured on what was trained on.

`PROJECT.json` lists every component with what is left out of it, the hazards at their lines, and
the source lines of every definition.

## Modules

**`UserNgram`** is the learned model. A hash map from ids to counts is a total function, 0 meaning
no entry. `Record` is `record` with the eviction it ends in: `Victims` is the set of sets
`evictIfNeeded` may drop, since ties fall in a hash map's order. `Save` and `Load` are the codec's
round trip: counts and sessions are written, credits are not. The history variables `seen` and
`wordSeen` count the sessions in which something really occurred, whatever the model recorded of
it, so that the properties compare the model with the world and not with itself. Counters are
natural numbers: the code's `Int` would need 2^31 sightings to wrap.

**`InputBuffer`** is what `InputContextBuffer` reads out of its text: the word under the cursor, the
completed words before it up to a sentence boundary, trimming and deletion. A character is a record
with the class those readers look at. Stateless, shared by the modules that hold text.

**`ImeSession`** is the service on its main thread, with the policy, the buffer, the planner, the
direction mark and the request half of the controller. Each callback is one action, with its refresh
and its lesson inside it (`Learn`, `Refresh` take the text the step leaves). Every character carries
the session it was typed in, which the program does not know and the properties are about. Sets of
at most one element stand for nullable references. A request in flight is answered at any later
time or never; cancelling makes it unanswerable, since `withContext(Main)` tests the job again on
the thread that cancels. Desynchronisation may happen at any time, as late or foreign cursor
movements make it, and a held key may be released in a later field. `lesson` is the pair the last
step handed to `learn`. Two constants are widths: `MaxCluster` of a backspace, `MaxPrediction` of a
predicted word.

**`EditorSync`** puts the editor beside the buffer, in one field: the editor's text and selection, the
batches of edits under way to it and the selection reports under way back. Text is a sequence of UTF-16
units, since the editor is told to delete code points and the buffer deletes units. A batch is applied
as one change and reported only if the selection changed by it; the user may move the cursor or select
at any time, the application may take the text away, a batch may be dropped. The editor is external to
the repository: it is what `InputConnection` and `onUpdateSelection` are relied on for, and reports are
taken to be neither lost nor reordered. An application that rewrites text without moving the cursor is
not modelled; nothing would tell the keyboard. A field's text is well-formed UTF-16 with its selection
between code points (`FieldsAssumption`): what editors hold, and what `deleteSurroundingTextInCodePoints`
promises to keep so (it does nothing to a broken pair). What an edit makes of a document (`Inserted`,
`Erased`, with `Previous` the step of a code point back) is a function of the document alone, so that a
batch still under way can be spoken of before it is applied.

**`LearningLifecycle`** is the opt-in, the model objects, the store and the settings screen, across
threads and deaths. A launched block is a record in `learns`, `refreshes` or `rebuilds`, and one
action per step between two suspension points or two accesses to a field another thread writes:
`Check` reads the model, `CheckDisk` the disk, `Load` builds a model, `Assign` publishes it, `Build`
reads it for an engine, `Install` publishes that. A save is `Seal` (the debounce is over),
`OpenTmp`, `FillTmp`, `Rename`; a wipe is `WipeFile`, `WipeTmp`, `WipeKey`; `Crash` kills the process
between any of them, `Destroy` is `onDestroy`, after which a save past its delay still runs. What a
lesson teaches is an item, numbered in typing order; what a model does with it is `UserNgram`. An
object nobody refers to is reused.

Abstractions to know about: `hasStoredData` and `load` are one step each; `scheduleSave` is one step
although its field is unsynchronised (two timers would save the same model twice); a save is over
before the next debounce is, the one timing assumption made; AES, IVs and serialisation are "opens
only whole and with the key it was sealed with".

**`AtomicStore`** is what the repository promises its reader, without files and keys: one value or none,
a save that takes effect at once or not at all, a forget that leaves neither what was stored nor what a
save had on its way. `LearningLifecycle` implements it: stored is what opens with the current key, under
way is a save sealed with that key, and forgetting lasts as long as the wipe. The store does not forbid a
save that begins after a forget, which is what `forget_is_final` is about. `DictionaryStore` implements it
until two operations of the screen overlap, with a save under way from the button that launched it.

**`DictionaryStore`** is the personal dictionary: the list of the settings screen, each edit of which
launches a save of its own, the file and the key, and the dictionary half of the controller. All saves
go through one temporary file, so paths name inodes: a save that opened the temporary file still
writes to it after another has renamed it, and over what another has put there. A save is `Start`,
`Seal`, `OpenTmp`, `FillTmp`, `Rename`; the block holds a reference to the screen's mutable dictionary
until it has serialised it (`live`), and a list changed meanwhile yields its old words, its new ones or
an exception. `overlap` remembers that an operation of the screen began before another was over. The
keyboard's jobs are `refreshes` (read, compare, install) and `rebuilds`, the engines built for another
reason. `getOrCreate` is one step; the length of a blob is the number of its words, which is what
matters to a file written over another; a restricted field refreshes nothing and is left out.

**`GateLib`** is `gatelib.py`: a detector's status from its findings and its denominator, a script's exit
code. **`GateRunner`** is a whole run of `run_gates.py`: the release apk settled on, what each gate
needs and whether it is there, its control, its real run, a script that dies, a script that prints no
JSON and says what it found by its exit code (`Silent`, as GATE-STORE-1 is run; a clean one leaves the row
`exit=0` and the verdict untouched), the row, the summary. What a script finds is any result of its
detectors, and a build may add or remove an artifact between any two steps. `died` remembers whose control
died: the runner takes that for red, so what an OK is worth says so too. **`GateVerdict`** is the abstract run: each gate is judged once, and the run is OK
only if each held or had leave to go dark; `GateRunner` refines it under `Refined`, which forgets how a
gate was judged.

**`DoneDocs`** is the four documents as what they say (which checks wait for a phone, which numbers and
verdicts are printed where, what each criterion cites), the edits people make to one place at a time,
the detectors of the two gates with their planted defects, and the two rewriting tools. A gate id resolves
if the runner has it or a row of the matrix does, and a waiver as soon as it is in the table; its
signature is another detector's business. The matrix holds rows that wait for a device, rows that wait
for something else, observed ones and recorded ones (`PASSED`, `MEASURED`), the gates' among them; a number
may be reworded out of a document. How a row is found in Markdown is abstracted to what it says. `DocsSpec` starts from any documents at all
(`WellFormed`); `MCSpec` from one set that agrees, and TLC checks that every edit keeps `WellFormed`.

**`LabelScore`** is `score_labels.py` on one batch: the buckets, the rates compared by cross
multiplication, the verdict. **`LabelBatches`** is the rounds around it: a batch is cut, and may be cut
again, it is labelled in several sittings, scored, its buckets emitted, and everything exported.
Hashing and shuffling are the constants `Sample` and `Arrange`, of which only that they choose is used.

**`Artifacts`** is what each file was derived from: a lexicon is the upstream bytes and the recipe, a
bigram table the lexicon it is over, so equal digests are equal records. A builder writes one file per
step and may die between two or inside one; packaging takes what is on disk and may go wrong in a few
ways; a gate is evaluated on the state with one of its planted defects or none. `build_lexicon.py` takes a
path for each of its three outputs (`Redirects`), and one given for the word list alone leaves the manifest
where the committed one is, beside a word list it does not describe: `split` remembers such a build, and
`UndisturbedBuildsAgree` promises the lexicon's manifest only before one. The gates do not rest on it.

**`SourceGates`** holds the line scanners and substitutions of five gates as operators on sequences of
tokens, next to a lexer they are compared with. In the lexer a string literal holds text, whatever looks like
a comment in it, and block comments nest, as Kotlin's do; the substitutions know neither. `Plain` is the
beginning of a file up to the first marker that misleads them, and claims about what they leave are made
there; that this is less than the scripts say of themselves is in *Stated and refuted*. The file is written
token by token, so every short file is a state.

**`Corpora`** is the ranges of the dump, the index sets of the slices, every nth subtitle line, the keys
of the typed sentences, and the manifest that one tool writes from nothing and the others amend, with a
death between any two files. What cleaning keeps is a set per lexicon.

The `MC` modules bound these for TLC. `ImeSessionProofs`, `LearningProofs`, `DictionaryProofs`,
`LabelProofs` and `CorporaProofs` hold the proofs about the component they are named for, `CoreProofs`
those about the two pieces of state the core library keeps (`UserNgram`, `EditorSync`), `GateProofs` those
about `GateRunner` and `DoneDocs`, `TreeGateProofs` those about `Artifacts` and `SourceGates`. Definitions called a slip in
their comment are variants that no specification uses: the project's mutants, kept beside what they
vary.

## Runs

| Run | Bounds | Shows |
|---|---|---|
| `learned_model` | two word ids, three typed pairs over a cap of two, two sessions needed, five sightings | `OfferedPairsCameBack`, `OfferedWordsCameBack`: no order of sightings, ends of session, evictions, clears, saves and restarts makes a burst eligible. `TableBounded`: cached size, cap. `EvictionKeepsWhatCameBack`. |
| `session` | two fields, four characters of context, initial texts absent, empty and `"letter gap"` | `NothingCrossesFields`, `SecretsStayPut`, `NoOfferWithoutContext` |
| `editor` | two units of context, a text of three with what is on its way, two batches and two reports under way; fields empty, with a pointed letter, with a surrogate pair, the cursor at either end | `InStep`: once nothing is under way and nothing was dropped, the buffer's text stands before the editor's cursor |
| `lifecycle` | two lessons, two fields, two disturbances (switch, forget, death), four events weighted, four objects | `NoTraceWithoutOptIn`, `FileIsWhole`, `LearnedOnlyWhenInvited`, the liveness `LessonsReachTheFile`; `ImplementsStore`: a save is seen whole or not at all, and what was sealed before its key was deleted, stored or on its way, is never read |
| `dictionary` | two words, two edits or wipes, two fields, two visits, one death, four of these together, three inodes; no file at first, or a stored one | `SavedWordsSurvive`, `ScreenTellsTheTruth` and `ActsAsStore` (the steps of `AtomicStore`) while operations do not overlap; `KeyboardFollows`: a field entered at a quiet moment brings the stored words, and the engine with them unless jobs raced |
| `gates` | four gates (one on the release apk, one that may be absent, a silent one, the meta-gate), four files, two detectors, one artifact changed meanwhile | `GreenWasSeenRed`: OK only if every gate that ran was red on its control (by a finding, unless it died or has no other way to say so) and clean after; `StrictMeansMeasured`, of the gates that report detectors; `RunEnds`; `ImplementsVerdict` |
| `documents` | two checks, two gates, two sources, one waiver, a criterion in each tier, three edits | `GreenVerdictsAreEarned`, `GreenDocumentsAgree`, `FixesHideNothing` |
| `labels` | two batches, three cuts, two sittings, seven firing candidates, two clean, one injected, four command lines | `FreshOnce`: no item is fresh in two batches; `ShipIsEarned`: the verdict that ships has all of its answers; `DatasetAgrees` |
| `artifacts` | two recipes, one crash, one edit, one packaging with one of four flaws or none, a tight budget; a lexicon build sends no output elsewhere, the word list alone, or all three | `GreenShipsThePinnedLexicon`; `UndisturbedBuildsAgree`: the files of one build lie together, unless a build was split; `ControlsGoRed`, for every control of the three gates: the DEX one unless its class is in the baseline, the size gate's two for a package that fills two thirds of the budget |
| `sources` | files of five of thirteen tokens, exempt or not, two resolved dependencies | `StrippingIsLexing`, `CallsAreGuarded`, `SuspensionsAreSeen`, `NothingForbiddenSlips`: the scanners see what a lexer sees, within the limits the properties name |
| `corpora` | a dump of 24 bytes in fifteen blocks, three plans, a stream of eight lines, two lexicons, two comments, five runs of tools | `EvalWasNeverTrained`, `ListedSlicesAreThere`, `TypedWasNeverHeard`, `DropsAreExplained` |
| `forget_is_final` | six events | violated: a save the button cannot cancel writes the forgotten pairs back, against `UserModelRepository.kt:95` |

The bounds are where the interesting cases begin: a third pair over a cap of two evicts, with ties
and without; five sightings are two sessions of one pair and a rival; four characters hold two words
and the gaps after them, and are trimmed; two fields are a before and an after; two disturbances are
an off and an on, or a wipe and a crash inside it; four objects are the current model, its
replacement, the one an engine still holds and the one a save does. Two batches and two reports under
way let a key overtake a report and a cursor movement fall between two batches; a text of three is
longer than the context, holds a pair of marks around a letter, or a surrogate pair. `MCEditorSync`
does not follow a run past a dropped batch, which excuses every later state, and stops where its
bounds do. Two edits are the least that overlap, and three inodes are the file, the temporary file and
one that an older save still holds. Four gates are one of each way the runner treats a gate. Three
edits make two documents agree on something a third denies. Six real answers are enough for either
verdict of the scorer, and a third cut repeats items of a batch that was itself cut again. Five tokens
hold a call, the two ends of a comment around or before it and a line break, or a string with a comment
marker in it and a call behind it, or two heads, a guard and a call. What is sent elsewhere, and a
comparison table, no gate reads, so `MCArtifacts` does not explore them together with a package
(`PackageAlone`). A dump of 24 bytes lets
ranges touch, overlap and end inside a block. `Events` in `MCLearning` weighs
a second field double because of the jobs it launches. Where a configuration does not check deadlock,
the system really stops: a run of the gates is over, or the bounds are used up and every job is done.

**Fairness.** Two properties need any. `RunEnds` has `WF_vars(Step)`: the runner is one thread that
waits for each script with `subprocess.run`, and a script either returns or dies; nothing is assumed of
the build beside it. `LessonsReachTheFile` has `WF_vars(Coroutines)`, that some job goes on while any can. `Dispatchers.Default` and `IO` run whatever is launched, the timer fires and the disk
answers. Nothing is assumed of the user, who may never type again, nor of the system, which may kill
the process: the property excuses a lesson after any use of the switch or the button and after any
death. It also excuses a model wrongly taken for wiped, which *Stated and refuted* shows.

## Stated and refuted

The code says more of itself than it does. These claims are defined beside the properties, each with
the line it comes from, and TLC refutes each. `ForgetIsFinal` is the one that has a run of
its own. Any other is added to the configuration of its component, as a `PROPERTY` where it is written
`[][...]_vars` and as an `INVARIANT` otherwise (`SizeControlsGoRed` with `Limits <- MCRoomyLimits`).

| Claim | Where | What happens |
|---|---|---|
| `AbandonedWordTeachesNothing` | `HebrewImeService.kt:312-314`, `ImeSession` | backspacing away a one-letter word re-teaches the previous pair |
| `SuggestionsArriveInTime` | `CorrectionController.kt:41-43`, `ImeSession` | an answer arrives after a tap has replaced its word |
| `NextWordOfferedBetweenWords` | `HebrewImeService.kt:469`, `ImeSession` | next words are shown under a known abbreviation |
| `DesyncMeansMoved` | `InputContextBuffer.kt:150`, `EditorSync` | two quick keys lose the context though nobody moved the cursor |
| `MarksStayPaired` | `BidiPin.kt:27`, `EditorSync` | two backspaces leave one direction mark alone |
| `NoFalseForget` | `CorrectionController.kt:387-390`, `LearningLifecycle` | another field entered before the first save clears what was learned |
| `OffMeansDropped` | `CorrectionController.kt:377`, `LearningLifecycle` | an engine around the old model is installed last |
| `WritesAreAtomic` | `PersonalDictionaryRepository.kt:16-17`, `DictionaryStore` | two saves in one temporary file leave a file that is no blob, and the dictionary reads as empty |
| `FrequenciesIndexTheLexicon` | `build_lexicon.py:246-247`, `Artifacts` | a builder killed after the lexicon leaves the old frequency table beside it, and no gate reads that table |
| `ForgetIsFinal` | `UserModelRepository.kt:95`, `LearningLifecycle` | a save the settings screen cannot cancel writes the forgotten pairs back |
| `ControlsReallyRan` | `DEFINITION_OF_DONE.md:115-121`, `GateRunner` | a control that dies exits non-zero, which the runner takes for red |
| `SizeControlsGoRed` | `check_size.py:74`, `Artifacts` | half as much again of a small package is still within the budget |
| `OnlyCommentsAreStripped` | `check_learning.py:74`, `SourceGates` | `//` in a string literal takes the code behind it along |
| `GuardIsInTheSameFunction` | `check_learning.py:188`, `SourceGates` | behind a guarded `private fun`, a call in a function with another head passes |
| `EveryMainLineIsCovered` | `check_forbidden_api.py:122-123`, `SourceGates` | a line that begins with `*/` is skipped with the call after it |

## Proofs

All for every value of the constants.

* `CoreProofs`, the learned model. `TypeOK` is inductive. `OfferedPairs` and `OfferedWords` rest on `SessionsAreReal`
  (theorem `CreditCorrect`): for every pair, the credited sessions are at most the real ones, strictly
  fewer when this session has seen it but not credited it (as after a `clear`), in memory and on disk.
  Without the strict part a sighting after a clear would break the bound. `TableStaysBounded` is about
  cardinalities (`FiniteSetTheorems`): an eviction removes as many pairs as it subtracts.
  `EvictionOrder` is an action property from the definition of `Victims` and the types.
* `CoreProofs`, the editor. `BufferInStep` is `InStep` for every field, key and length of context, and
  queues of any length. `InStep` speaks of rest only, so its invariant `SyncInv` must say what is true while
  batches and reports are under way. It is a trail: a sequence of stages, one more than there are batches
  to apply. A stage is what the buffer held, and how many reports it had received, when a key was
  pressed, with the document and the list of reports that will stand once the batches before that key are
  applied; the first has the editor's document, the last the keyboard's buffer, and the batches lead
  from each to the next (`Follows`). Every stage is `Good`: by how many of its reports are unheard, its
  buffer is in step (none), would be if it accepts the one to come, or is `Safe` (one it will reject, or
  two): no deletion of word characters it holds can bring its cursor to where the next report says, so it
  does not take that report for its own edit. Four layers lead there: UTF-16 (`BackByUnits` to
  `Joined`: a step back over a code point, cutting and gluing well-formed text), the edits (`Applying`), the
  six keys against the buffer they are pressed on (`KeysCarry`: each carries suffix to suffix and `Safe` to
  `Safe`), and the trail under each step (`TrailLonger` for a key, `TrailShorter` for a batch applied,
  `TrailAccepts` and `TrailRejects` for a report, `TrailRemade` for the user, whose cursor movement
  changes every document still to come). Selections that differ are what makes it true: an editor that
  repeated a report could make the buffer accept one too early.
* `ImeSessionProofs`. The inductive invariant `IInv` is that all text, requests, candidates and
  lessons are sequences over characters of the session in progress (`OwnTextOnly`), that a restricted
  session has nothing outstanding (`Quiet`), and `NoOfferWithoutContext`. The lemmas before it are
  that committing, trimming, deleting and reading words keep to the characters they are given.
  `FieldsAreSeparate`, `SecretsAreKept`, `ContextIsKnown` and `SessionTypeCorrect` follow.
* `LearningProofs`. `TypeOK` includes that no job works before there is a model. `AtomicWrite` rests
  on `OnlyWholeBlobsMove`: what is renamed has been filled. `OptInFirst` rests on
  `NothingBeforeOptIn`: without an opt-in no job has it captured as on, and nothing is typed, sealed
  or keyed. `SwitchTakesEffect` rests on `OnlyInvitedFields`: an enabled controller in a field not
  invited is not ready. `RepositoryIsAtomic` is the refinement, one lemma for each way in which a step
  meets the store; it rests on `KeysInOrder`: keys are numbered as they are made, so a new key opens
  neither the file nor what a save under way has sealed, and while such a save holds a blob sealed under a
  key that is gone there is nothing readable in the file for its rename to lose.
* `DictionaryProofs`. `WordsSurvive` rests on `IInv`: operations of the screen have overlapped, or
  everything in `Sound` holds. `Alone` is that a save under way is the only one, with no wipe or load
  beside it; `SavesFaithful` that it holds what it was launched for at each of its steps, and that the
  temporary file is its own and empty until it fills it; `Kept` that file and key belong together, so
  that a load creates no key and a death at any point loses nothing.
  `DictionaryTypeCorrect` and the keyboard's half need nothing of that: `Valid` is that the types hold and
  that no blob was sealed with a key still to be generated, so a lost key never opens an old file.
  `KeyboardIsCurrent` rests on `Orderly`: while jobs never raced there is at most one, and it holds what
  the keyboard holds (`OneAtATime`); since a field was entered at rest, what the refresh has read is what
  the file still yields (`Followed`). `ScreenIsTrue` adds `Listed` to `Sound`: the list is the stored one,
  or what the save under way is to store, and no wipe outlives its screen with a list to clear.
  `DictionaryIsAtomic` rests on both: what `WordsSurvive` says with a history variable, it says with
  `AtomicStore`, step by step; that a save means one thing from the button to the rename is `SavesFaithful`.
* `GateProofs`, the runner. `IInv` joins the position in the table (`Progress`), one row for each gate
  before it (`RowsSoFar`), that a gate at its real run was red on its control (`ControlWasRed`), that a row
  accepted is one that earned it (`AcceptedIsEarned`), and what the verdict counts (`OkCounts`).
  `GreenIsSeenRed` and `StrictIsMeasured` follow; `RunnerImplementsVerdict` is the refinement, for every
  table of gates. The documents: `GreenTiersAreEarned` and `GreenPapersAgree` hold in every state of
  well-formed documents, so the invariant is `WellFormed` and the proofs follow the detectors' sums and
  sets back from "no finding" to "nothing to find". `RewritesHideNothing` is an action property: a
  rewriting tool writes counts and verdicts, and the other detectors read neither.
* `LabelProofs`. `IInv` is the types, `NoTwins` (a key names a candidate once) and `FreshOnce` itself,
  which without `NoTwins` says nothing of one key. `FreshItemsAreFresh` is that a batch draws from what
  no other key holds, whichever of two batches is cut again. `ShippingIsEarned` follows `report` through
  its six early returns; `WilsonNeedsSix` is the arithmetic on why six unanimous answers are the
  least. `ScorerAndDatasetAgree` counts by bijections: the exported rows of a batch are its answered items
  (`NoTwins`), and an item's earlier row is unique (`FreshOnce`), as the bucket the scorer reads is.
* `TreeGateProofs`, the artifacts. `IInv` says of each builder what it has left and what it has still to
  write, at the paths it was given (`LexiconBuilder`, `BigramsBuilder`), and what a package can hold
  (`PackageBounds`). While no build was split, outputs that belong together are of one build (`Together`), at
  the default paths and aside; `BuildsAgree` is that with nothing pending. `GreenIsPinned` and `PlantedIsRed`
  follow the three gates detector by detector, for every set of `Redirects`: a gate
  reads the tree, however it came about. `SizeControlsRed` is the arithmetic of the size gate's two.
* `TreeGateProofs`, the source gates. The properties hold of every file and not only of those reachable,
  so the invariant is that the file is a sequence of tokens, and the proofs are about the scans. Both
  are functions defined a position at a time; `StepByStep` shows that such a function exists, `CountingUp`
  that what holds at 0 and is handed on holds everywhere, and with them `BlocksAreTaken` and `LinesAreTaken`
  compare the two substitutions with the lexer, up to the first marker that misleads them; before it a block
  is never more than one deep (`BlocksAreShallow`). `StrippingSeesCode` is the result (`Lexes`), with the
  defects the controls plant: whatever a file holds, an appended line is still there after stripping
  (`PlantedIsLeft`) and, without a guard on it, still unguarded. The next two theorems use it to speak of
  code only: `ContentMeansGuarded` is that the backward search stops at the head of the function the call
  is in when that is a `private fun` or no head is, `RegionsMissNothing` that the nth start is before a position, and
  the nth end after it, for some n, just when more starts than ends come before it
  (`RegionsByNumber`); that no prefix has more ends than starts is not used. `ForbiddenIsFound` is about
  single lines and about coordinates, and uses the lexer alone: a line that begins in code with `//` holds
  no code to the end (`CommentToLineEnd`), which is why skipping it loses nothing.
* `CorporaProofs`. `NeverTrained` is arithmetic on ranges (`ApartBlocks`): ranges the builder does not
  find overlapping share no block, for every dump and every cut into blocks, although a range is not
  what it yields: only blocks that lie whole in it decode; the invariant is that the manifest names a
  corpus and a training that are apart (`ManifestApart`). `SlicesAreThere`, `TypedIsNew` and `DropsExplained`
  rest on `SlicesTraced`, `TypedApart` and `ReasonsWritten`, inductive over the tools and their deaths.

Each `IInv` was checked by TLC on the run of its component before it was proved; `SyncInv`, which asserts
that a trail exists, in a copy of `EditorSync` that carries the trail in a history variable. The assumptions are
those named in the modules: constants are natural numbers or finite sets (`Word`, `Background`, the
candidates of a pool, and what documents can name: they are files), 0 is neither an object nor an inode,
`KeyClasses` are classes, the gate table lists no gate twice, `Absent` and `Torn` are no lexicon, the
names of waivers are no names of gates, checks or sources (the patterns in `check_dod.py:55-60` tell
them apart), `Sample` returns a subset of the size asked for and `Arrange` a sequence that names each of
its candidates once (`random.sample`, `random.shuffle`), and an answer is one of the four the screen
offers.

Only model-checked:

* `LessonsReachTheFile` and `RunEnds`: liveness is outside the prover.
* The refuted claims, and the run that exhibits `ForgetIsFinal`'s violation, which are counterexamples.

Only proved: the types of `UserNgram` and `GateRunner` (`TypeCorrect`, `RunnerTypeCorrect`) and
of `DictionaryStore` (`DictionaryTypeCorrect`), which no run repeats.

## Not modelled

Drawing, geometry, spoken descriptions, ranking scores, the spelling engine, the lexicon's data,
Unicode segmentation, the formatting of reports, onboarding and benchmarks: pure functions of data, or
input and output without state of their own. The real-word detector is withdrawn from the product. The
scripts that measure, sweep, convert or draw read their input once and write or print one result; they
share no state with another run. Of the source gates, the manifest scan and the table of section names
look one string up in one list.

Left out of parts that are modelled: the order in which the pool runs `learn` and `endLearningSession`,
which `UserNgram` takes to be the typed one; the timers of a held key, of which `ImeSession` keeps
only that the key may be released in a later field; the classification of input types; the dead
branch of `applySuggestion`; abbreviation marks that extend a cluster (`ClusterWidth`);
`slice_eval_corpus.py --full`, and a death between its read of the manifest and its write; a death
between the table and the manifest of `build_bigrams.py` in `Corpora` (`Artifacts` has it);
`build_lexicon.py --inject-defect` other than under `--dry-run`, its `--source-a`, `--source-b` and
`--cache-dir`, all of which name inputs; the band `score_labels.py:275-283` prints beside a verdict that is
void (the verdict modelled is the one returned); in the Kotlin lexer, string templates, escapes, raw strings
and character literals; the defect the trace gate plants. The hazards without a property in `PROJECT.json` say why each has none.

Things the sources say that no property is spent on: `BidiPin.kt:35-36` pins "a field that is known
to be empty", while `shouldPin` looks at the text before the cursor, so a field entered with the cursor
in front of its text is pinned too; `UserModelRepository.kt:31-32` gives `saveNow` to
`onDestroy`, which does not call it; `CorrectionController.kt:349-351` counts a word "regardless of
whether its predecessor was known", but its caller returns unless there are two words;
`run_gates.py:28` calls NOT-MEASURED fatal, while a script with one detector unmeasured and another
green is PASS-PARTIAL (`gatelib.py:77`) and passes outside `--strict`; a tier whose criteria are all
deleted becomes MET (`check_dod.py:268`); a sentence that occurs twice in the subtitles may be in both
training and held-out, which `build_subtitle_corpus.py:169` calls disjoint: the model keeps line
numbers for the two files and sentences for the stream, and nothing is claimed of the pair.

## Plan

Done, in order: `UserNgram`, `InputBuffer`, `ImeSession`, `LearningLifecycle` with their proofs,
`EditorSync` with its proofs, `AtomicStore`, `GateRunner` with its refinement and proofs, `DoneDocs`, `LabelBatches`, `Artifacts`,
`SourceGates`, `Corpora` and `DictionaryStore` with theirs. What could follow:

1. `LearningSessions`: `UserNgram` driven by the coroutines of `learn` and `endLearningSession`, not
   ordered by the pool: a field may be credited with two sessions, against
   `CorrectionController.kt:357-361`.
2. `Segmenter`: `GraphemeSegmenter`'s backward scan against the forward definition of its rules, and
   what its bounded window does to a run of flags longer than the window.
3. `KeyboardTouch` (press, repeat, long press, cancel against field changes) and `EvidenceRing`
   (`DeviceEvidence.kt:128-134`: a full ring flushes at every key).

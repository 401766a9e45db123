------------------------------ MODULE Artifacts ------------------------------
(***************************************************************************)
(* The generated data the keyboard ships: the lexicon with its frequency   *)
(* table (scripts/build_lexicon.py), the bigram table over that lexicon    *)
(* (scripts/build_bigrams.py), the package they travel in, and the gates   *)
(* that compare sources, files, manifests and package (check_lexicon.py,   *)
(* check_apk.py, check_size.py).  Bytes are compared through their         *)
(* digests, so a file's content is a record of what it was derived from.   *)
(* Builders write one file at a time and may be killed between two writes  *)
(* or during one; a packaging reads whatever is on disk.                   *)
(***************************************************************************)
EXTENDS GateLib, Sequences, FiniteSets

CONSTANTS
    Recipes,       \* what the parsing code of build_lexicon.py may be
    Pinned, Moved, \* the upstream bytes the checksums name, and any others
    Absent, Torn,  \* no such file; a file its writer died in
    Listed,        \* the abbreviations file, which no builder here writes
    InBand,        \* the lexicons whose four counts are within 1% of EXPECTED
    Background,    \* network-ish classes every clean build references
    Planted,       \* Lokhttp3/OkHttpClient; the DEX control adds it
    Aapt2,         \* whether find_aapt2 finds the tool
    Flaws,         \* what may go wrong in one packaging
    Limits,        \* the size budget: measured key -> most bytes
    Redirects,     \* which of its three outputs a lexicon build is given paths for
    MaxCrashes, MaxEdits, MaxPackages   \* bounds

\* A truncated source still parses, and --allow-unverified-source lets it.
Lexicons == [source : {Pinned, Moved, Torn}, recipe : Recipes]

Outputs == {"lexicon", "freq", "manifest"}

ASSUME ArtifactsAssumption ==
    /\ Cardinality({Pinned, Moved, Absent, Torn}) = 4
    /\ Aapt2 \in BOOLEAN
    /\ InBand \subseteq Lexicons
    /\ {Absent, Torn} \cap Lexicons = {}
    /\ IsFiniteSet(Background)
    /\ Limits \in [DOMAIN Limits -> Nat]
    /\ DOMAIN Limits \subseteq {"total", "assets", "dex"}
    /\ Redirects \subseteq SUBSET Outputs
    /\ {MaxCrashes, MaxEdits, MaxPackages} \subseteq Nat

\* A corpus fetched in full or in part, or one too small to count over.
Corpora == {"usable", "tiny"}

VARIABLES
    upstream,   \* what a download returns today
    recipe,     \* the recipe in the working tree
    cache,      \* the cached upstream sources
    corpus,     \* the cached bigram corpus
    disk,       \* file -> its content
    pending,    \* builder -> the writes it has still to do
    apk,        \* the built package, or Absent
    baseline,   \* the committed DEX baseline
    split,      \* history: a lexicon build was given some of its paths and not all
    crashes, edits, packages   \* what the bounds count

vars == <<upstream, recipe, cache, corpus, disk, pending, apk, baseline, split,
          crashes, edits, packages>>

sources == <<upstream, recipe>>
counters == <<crashes, edits, packages>>

Files == Outputs \cup {"lexicon aside", "freq aside", "manifest aside"}
           \cup {"bigrams", "bigramManifest", "comparison", "besideIt", "abbreviations"}
Builders == {"lexicon", "bigrams"}

Write(file, content) == [file |-> file, content |-> content]

-----------------------------------------------------------------------------
(* build_lexicon.py *)

\* A control's flipped byte is in no pinned source.
Fetched(inject) == IF inject = "checksum" THEN Moved ELSE cache

\* parse_source_a, parse_source_b and the union: a function of bytes and recipe.
Derive(source) == [source |-> source, recipe |-> recipe]

CountsOK(source, inject) == inject # "filter" /\ Derive(source) \in InBand

\* What a build over the cached sources ends with.
Rebuild(inject, allowUnverified) ==
    IF Fetched(inject) # Pinned /\ ~allowUnverified THEN "refused"
    ELSE IF ~CountsOK(Fetched(inject), inject) THEN "refused"
    ELSE IF inject = "nondeterminism" THEN "unordered"
    ELSE "built"

Aside(output) ==
    CASE output = "lexicon"  -> "lexicon aside"
      [] output = "freq"     -> "freq aside"
      [] output = "manifest" -> "manifest aside"

PathOf(output, aside) == IF output \in aside THEN Aside(output) ELSE output

\* --out, --freq-out and --manifest each move one output and leave the others
\* where they are.
LexiconWrites(l, aside) ==
    <<Write(PathOf("lexicon", aside), l), Write(PathOf("freq", aside), l),
      Write(PathOf("manifest", aside), l)>>

Download ==
    /\ cache = Absent
    /\ cache' = upstream
    /\ UNCHANGED <<sources, corpus, disk, pending, apk, baseline, split, counters>>

BuildLexicon(allowUnverified, aside) ==
    /\ pending["lexicon"] = <<>>
    /\ cache # Absent
    /\ Rebuild("none", allowUnverified) = "built"
    /\ pending' = [pending EXCEPT !["lexicon"] = LexiconWrites(Derive(cache), aside)]
    /\ split' = (split \/ aside \notin {{}, Outputs})
    /\ UNCHANGED <<sources, cache, corpus, disk, apk, baseline, counters>>

-----------------------------------------------------------------------------
(* build_bigrams.py *)

\* One manifest for whatever table was written last.
ManifestPathShared(out) == "bigramManifest"

\* The manifest of a table lives beside the table.
ManifestPathFor(out) == IF out = "bigrams" THEN "bigramManifest" ELSE "besideIt"

\* fetch_corpus: a cached corpus is used as it is.  A chunk that cannot be
\* fetched is skipped, and what was fetched is cached all the same.
FetchCorpus == IF corpus = Absent THEN Corpora ELSE {corpus}

\* Counting over the lexicon's word order: a table is only as good as the
\* lexicon its indices point into.
Table(lexicon, sentences, blended) ==
    [over |-> lexicon, corpus |-> sentences, blended |-> blended]

\* main: the lexicon is read first, a torn one stops it; too few tokens, no
\* subtitle corpus to blend or no --min-count, and nothing is written.
BuildBigrams(out, blended, writes) ==
    /\ pending["bigrams"] = <<>>
    /\ disk["lexicon"] \notin {Absent, Torn}
    /\ \E sentences \in FetchCorpus :
          /\ corpus' = sentences
          /\ pending' =
                IF sentences = "tiny" \/ ~writes THEN pending
                ELSE LET table == Table(disk["lexicon"], sentences, blended)
                     IN  [pending EXCEPT !["bigrams"] =
                            <<Write(out, table),
                              Write(ManifestPathFor(out), table)>>]
    /\ UNCHANGED <<sources, cache, disk, apk, baseline, split, counters>>

-----------------------------------------------------------------------------
(* Writing, and dying while writing. *)

Flush(b) ==
    /\ pending[b] # <<>>
    /\ disk' = [disk EXCEPT ![Head(pending[b]).file] = Head(pending[b]).content]
    /\ pending' = [pending EXCEPT ![b] = Tail(@)]
    /\ UNCHANGED <<sources, cache, corpus, apk, baseline, split, counters>>

\* open(path, "wb") has emptied the file before the process dies in it.
Crash(b) ==
    /\ pending[b] # <<>>
    /\ crashes < MaxCrashes
    /\ crashes' = crashes + 1
    /\ \/ disk' = disk
       \/ disk' = [disk EXCEPT ![Head(pending[b]).file] = Torn]
    /\ pending' = [pending EXCEPT ![b] = <<>>]
    /\ UNCHANGED <<sources, cache, corpus, apk, baseline, split, edits, packages>>

\* The cached sources are written in place too: a killed download stays.
CrashDownload ==
    /\ cache = Absent
    /\ crashes < MaxCrashes
    /\ crashes' = crashes + 1
    /\ cache' = Torn
    /\ UNCHANGED <<sources, corpus, disk, pending, apk, baseline, split, edits, packages>>

-----------------------------------------------------------------------------
(* The world around. *)

Edit == edits < MaxEdits /\ edits' = edits + 1

EditRecipe(r) ==
    /\ Edit
    /\ r # recipe
    /\ recipe' = r
    /\ UNCHANGED <<upstream, cache, corpus, disk, pending, apk, baseline, split,
                   crashes, packages>>

UpstreamMoves ==
    /\ Edit
    /\ upstream' = Moved
    /\ UNCHANGED <<recipe, cache, corpus, disk, pending, apk, baseline, split,
                   crashes, packages>>

\* A fresh machine has neither cache.
ClearCaches ==
    /\ Edit
    /\ cache' = Absent
    /\ corpus' = Absent
    /\ UNCHANGED <<sources, disk, pending, apk, baseline, split, crashes,
                   packages>>

\* The assets the keyboard opens by name, from the committed files.
Assets == {"lexicon", "freq", "bigrams", "abbreviations"}

Packaged(flaw) ==
    [assets  |-> [a \in {x \in Assets : disk[x] # Absent} \ {flaw} |-> disk[a]],
     dex     |-> Background \cup (IF flaw = "dex" THEN {Planted} ELSE {}),
     network |-> flaw = "network",
     service |-> flaw # "service",
     font    |-> IF flaw \in {"no font", "other font"} THEN flaw ELSE "measured"]

Package(flaw) ==
    /\ packages < MaxPackages
    /\ packages' = packages + 1
    /\ apk' = Packaged(flaw)
    /\ UNCHANGED <<sources, cache, corpus, disk, pending, baseline, split, crashes, edits>>

\* check_apk.py --write-baseline.
WriteBaseline ==
    /\ apk # Absent
    /\ baseline' = apk.dex
    /\ UNCHANGED <<sources, cache, corpus, disk, pending, apk, split, counters>>

-----------------------------------------------------------------------------
(* check_lexicon.py: the detectors, over the disk as it is.  A manifest that *)
(* cannot be parsed kills the script, which is a failure too.                *)

Findings(bad) == IF bad THEN 1 ELSE 0

Matches(content, manifest) == content = manifest /\ Torn \notin {content, manifest}

CheckArtifact(inject) ==
    IF Absent \in {disk["lexicon"], disk["manifest"]} THEN Det(0, 0)
    ELSE Det(Findings(\/ inject = "artifact"
                      \/ ~Matches(disk["lexicon"], disk["manifest"])), 1)

\* The rebuild's own checks passed, and nobody asked whether it is this lexicon.
CheckRebuildOnly(inject) ==
    IF cache = Absent THEN Det(0, 0)
    ELSE Det(Findings(Rebuild(inject, inject = "filter") # "built"), 1)

CheckReproducibility(inject) ==
    IF cache = Absent THEN Det(0, 0)
    ELSE Det(Findings(\/ Rebuild(inject, inject = "filter") # "built"
                      \/ Derive(Fetched(inject)) # disk["manifest"]), 1)

LexiconGate(inject) ==
    [artifact        |-> CheckArtifact(inject),
     reproducibility |-> CheckReproducibility(inject)]

-----------------------------------------------------------------------------
(* check_apk.py *)

CheckPermissions(inject) ==
    LET network == apk.network \/ inject = "permission"
    IN  IF ~Aapt2 THEN Det(0, 0) ELSE Det(Findings(network), 1 + Findings(network))

CheckDex(inject) ==
    LET found == apk.dex \cup (IF inject = "dex" THEN {Planted} ELSE {})
    IN  Det(Cardinality(found \ baseline), Cardinality(found))

CheckImeService(inject) ==
    IF ~Aapt2 THEN Det(0, 0)
    ELSE Det(Findings(~apk.service \/ inject = "service"), 4)

\* Every named asset must be there; only the lexicon's content is compared.
CheckLexiconAsset(inject) ==
    LET names   == IF inject = "asset_name" THEN {"lexicon.gz"} ELSE Assets
        missing == names \ DOMAIN apk.assets
        unlike  == \/ inject = "lexicon"
                   \/ ~Matches(apk.assets["lexicon"], disk["manifest"])
    IN  IF disk["manifest"] = Absent THEN Det(0, 0)
        ELSE IF "lexicon" \notin DOMAIN apk.assets
             THEN Det(Cardinality(missing), 0)
             ELSE Det(Cardinality(missing) + Findings(unlike),
                      1 + Cardinality(names))

CheckBigramAsset(inject) ==
    IF disk["bigramManifest"] = Absent THEN Det(0, 0)
    ELSE Det(Findings(\/ "bigrams" \notin DOMAIN apk.assets
                      \/ inject = "bigram_content"
                      \/ ~Matches(apk.assets["bigrams"],
                                  disk["bigramManifest"])), 1)

\* The measured digest is compared before the defect is planted.
CheckFontUninjected(inject) == Det(Findings(apk.font # "measured"), 1)

CheckFont(inject) ==
    Det(Findings(apk.font # "measured" \/ inject = "font"), 1)

\* With no package every detector is there and none has looked at anything.
ApkGate(inject) ==
    IF apk = Absent
    THEN [d \in {"permissions", "dex", "service", "lexicon", "bigrams", "font"}
            |-> Det(0, 0)]
    ELSE [permissions |-> CheckPermissions(inject),
          dex         |-> CheckDex(inject),
          service     |-> CheckImeService(inject),
          lexicon     |-> CheckLexiconAsset(inject),
          bigrams     |-> CheckBigramAsset(inject),
          font        |-> CheckFont(inject)]

-----------------------------------------------------------------------------
(* check_size.py: an asset and a descriptor weigh two units each. *)

Measure ==
    LET assets == 2 * Cardinality(DOMAIN apk.assets)
        dex    == 2 * Cardinality(apk.dex)
    IN  [assets |-> assets, dex |-> dex, total |-> assets + dex]

Over(inject) ==
    {k \in DOMAIN Limits :
        (IF inject = k THEN (3 * Measure[k]) \div 2 ELSE Measure[k]) > Limits[k]}

SizeGate(inject) ==
    [size |-> IF apk = Absent THEN Det(0, 0)
              ELSE Det(Cardinality(Over(inject)), Cardinality(DOMAIN Limits))]

-----------------------------------------------------------------------------
Init ==
    /\ upstream = Pinned
    /\ recipe \in Recipes
    /\ cache \in {Absent, Pinned}
    /\ corpus = Absent
    /\ disk = [f \in Files |-> IF f = "abbreviations" THEN Listed ELSE Absent]
    /\ pending = [b \in Builders |-> <<>>]
    /\ apk = Absent
    /\ baseline = {}
    /\ split = FALSE
    /\ crashes = 0 /\ edits = 0 /\ packages = 0

Next ==
    \/ Download \/ CrashDownload
    \/ \E u \in BOOLEAN, aside \in Redirects : BuildLexicon(u, aside)
    \/ \E out \in {"bigrams", "comparison"}, w \in BOOLEAN :
          BuildBigrams(out, TRUE, w)
    \/ \E b \in Builders : Flush(b) \/ Crash(b)
    \/ \E r \in Recipes : EditRecipe(r)
    \/ UpstreamMoves \/ ClearCaches
    \/ \E flaw \in Flaws : Package(flaw)
    \/ WriteBaseline

Spec == Init /\ [][Next]_vars

-----------------------------------------------------------------------------
LexiconControls == {"artifact", "checksum", "filter", "nondeterminism"}
ApkControls == {"permission", "service", "lexicon", "asset_name",
                "bigram_content", "font", "dex"}
SizeControls == {"total", "assets"}

Green ==
    /\ ExitCode(LexiconGate("none"), TRUE) = ExitPass
    /\ ExitCode(ApkGate("none"), TRUE) = ExitPass
    /\ ExitCode(SizeGate("none"), TRUE) = ExitPass

\* Whatever was killed, edited or cached in between, a package all three gates
\* pass strictly holds the lexicon that today's recipe derives from the pinned
\* upstream bytes, and so does the tree it is built from; it opens every asset,
\* and a table built from a lexicon (check_lexicon.py, check_apk.py: three
\* comparisons that each see two of the four things that must agree).
GreenShipsThePinnedLexicon ==
    Green =>
        /\ apk.assets["lexicon"] = [source |-> Pinned, recipe |-> recipe]
        /\ disk["lexicon"] = apk.assets["lexicon"]
        /\ Assets \subseteq DOMAIN apk.assets
        /\ apk.assets["bigrams"].over \in Lexicons
        /\ ~apk.network /\ apk.dex \subseteq baseline

\* What undisturbed builders leave behind agrees with itself: with no crash so
\* far and nothing pending, lexicon, frequency table and manifest are of one
\* build, in the tree and wherever else they were sent, and the bigram manifest
\* describes the shipped table even after a comparison table was built
\* (build_bigrams.manifest_path_for).  build_lexicon.py has no such rule: a build
\* given a path for its word list alone rewrites the committed manifest, which
\* then describes another file than the one it lies beside (split).
UndisturbedBuildsAgree ==
    crashes = 0 /\ (\A b \in Builders : pending[b] = <<>>) =>
        /\ ~split =>
              /\ disk["lexicon"] = disk["manifest"] /\ disk["freq"] = disk["manifest"]
              /\ disk["lexicon aside"] = disk["manifest aside"]
              /\ disk["freq aside"] = disk["manifest aside"]
        /\ disk["bigrams"] = disk["bigramManifest"]
        /\ disk["comparison"] = disk["besideIt"]

\* Every planted defect turns its gate red on any tree the gate can measure
\* (check_lexicon.py:160 and check_apk.py:451, "every value must go red"): the
\* DEX control as long as nobody has put its class into the baseline, and the
\* size gate's two as long as the package fills two thirds of what is allowed.
ControlsGoRed ==
    /\ Absent \notin {cache, disk["lexicon"], disk["manifest"]} =>
          \A c \in LexiconControls : ExitCode(LexiconGate(c), FALSE) = ExitFail
    /\ apk # Absent /\ Aapt2 /\ Absent \notin {disk["manifest"], disk["bigramManifest"]} =>
          \A c \in ApkControls :
              \/ c = "dex" /\ Planted \in baseline
              \/ ExitCode(ApkGate(c), FALSE) = ExitFail
    /\ apk # Absent =>
          \A c \in SizeControls \cap DOMAIN Limits :
              3 * Measure[c] >= 2 * (Limits[c] + 1) =>
                  ExitCode(SizeGate(c), FALSE) = ExitFail

\* check_size.py:74 says of its two controls what the other gates say of theirs,
\* "every value must go red".  Refuted, even of a package with all its assets:
\* half as much again of one that leaves enough room is still within the budget,
\* and the runner then says the gate is not one.
SizeControlsGoRed ==
    apk # Absent /\ Assets \subseteq DOMAIN apk.assets =>
        \A c \in SizeControls \cap DOMAIN Limits :
            ExitCode(SizeGate(c), FALSE) = ExitFail

\* build_lexicon.py:246-247 says the frequency table is in the same order as the
\* word list, so that one integer indexes both: what a package passed by all
\* gates ships as frequencies belongs to the lexicon it ships.
FrequenciesIndexTheLexicon ==
    Green => apk.assets["freq"] = apk.assets["lexicon"]
=============================================================================

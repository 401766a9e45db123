---------------------------- MODULE TreeGateProofs ----------------------------
(***************************************************************************)
(* The gates that read the tree: Artifacts first, SourceGates second.      *)
(*                                                                         *)
(* Artifacts.  Whatever is edited, cached or killed: a builder that has    *)
(* not finished knows exactly what it has written, the two builders write  *)
(* different files, and no file but the one being written can be torn.     *)
(* Hence what the gates may conclude, for every set of recipes, every band *)
(* of counts, every set of packaging flaws and any number of crashes and   *)
(* edits.                                                                  *)
(*                                                                         *)
(* SourceGates.  Its properties hold of every file of whatever length, so  *)
(* the only invariant they need is that the text is a sequence of tokens;  *)
(* the work is in the two scans.  Each is a function defined one position  *)
(* after another (StepByStep), and they are compared position by position  *)
(* (CountingUp); from there on what stripping leaves of a plain beginning   *)
(* is what a lexer leaves (Lexes), and each gate is followed on that.      *)
(***************************************************************************)
EXTENDS Artifacts, SourceGates, FiniteSetTheorems, WellFoundedInduction, TLAPS

-----------------------------------------------------------------------------
(* Artifacts.                                                                *)

LexiconFiles == {"lexicon", "freq", "manifest", "lexicon aside", "freq aside", "manifest aside"}
TableFiles == {"bigrams", "bigramManifest", "comparison", "besideIt"}
Outs == {"bigrams", "comparison"}

Tables == [over : Lexicons, corpus : Corpora, blended : BOOLEAN]

Types ==
    /\ cache \in {Absent, Torn, Pinned, Moved}
    /\ upstream \in {Pinned, Moved}
    /\ recipe \in Recipes
    /\ corpus \in Corpora \cup {Absent}
    /\ DOMAIN disk = Files /\ disk = [f \in Files |-> disk[f]]
    /\ \A f \in LexiconFiles : disk[f] \in Lexicons \cup {Absent, Torn}
    /\ \A f \in TableFiles : disk[f] \in Tables \cup {Absent, Torn}
    /\ DOMAIN pending = Builders /\ pending = [b \in Builders |-> pending[b]]
    /\ crashes \in Nat
    /\ split \in BOOLEAN

\* The three outputs that stand where a build given these paths puts them are
\* of one build.
Together(aside) ==
    /\ disk[PathOf("lexicon", aside)] = disk[PathOf("manifest", aside)]
    /\ disk[PathOf("freq", aside)] = disk[PathOf("manifest", aside)]

\* Where the lexicon's builder is, and what it has left behind.
LexiconBuilder ==
    \/ /\ pending["lexicon"] = <<>>
       /\ crashes = 0 /\ ~split => Together({}) /\ Together(Outputs)
    \/ \E l \in Lexicons, aside \in SUBSET Outputs :
          /\ \/ pending["lexicon"] = LexiconWrites(l, aside)
             \/ /\ pending["lexicon"] = <<Write(PathOf("freq", aside), l),
                                          Write(PathOf("manifest", aside), l)>>
                /\ disk[PathOf("lexicon", aside)] = l
             \/ /\ pending["lexicon"] = <<Write(PathOf("manifest", aside), l)>>
                /\ disk[PathOf("lexicon", aside)] = l /\ disk[PathOf("freq", aside)] = l
          /\ ~split => /\ aside \in {{}, Outputs}
                       /\ crashes = 0 => Together(Outputs \ aside)

Described(out) == disk[out] = disk[ManifestPathFor(out)]

\* And the builder of tables.
BigramsBuilder ==
    \/ /\ pending["bigrams"] = <<>>
       /\ crashes = 0 => \A out \in Outs : Described(out)
    \/ \E out \in Outs, t \in Tables :
          /\ \/ pending["bigrams"] = <<Write(out, t), Write(ManifestPathFor(out), t)>>
             \/ /\ pending["bigrams"] = <<Write(ManifestPathFor(out), t)>>
                /\ disk[out] = t
          /\ crashes = 0 => \A o \in Outs \ {out} : Described(o)

\* A package opens no other asset, and holds no other class.
PackageBounds ==
    apk # Absent => /\ DOMAIN apk.assets \subseteq Assets
                    /\ apk.dex \subseteq Background \cup {Planted}

IInv == Types /\ LexiconBuilder /\ BigramsBuilder /\ PackageBounds

LEMMA Queue ==
  ASSUME NEW x, NEW y, NEW z
  PROVE  /\ <<x>> # <<>> /\ Head(<<x>>) = x /\ Tail(<<x>>) = <<>>
         /\ <<x, y>> # <<>> /\ Head(<<x, y>>) = x /\ Tail(<<x, y>>) = <<y>>
         /\ <<x, y, z>> # <<>> /\ Head(<<x, y, z>>) = x /\ Tail(<<x, y, z>>) = <<y, z>>
OBVIOUS

LEMMA Paths ==
  ASSUME NEW aside \in SUBSET Outputs
  PROVE  /\ \A x \in Outputs : PathOf(x, aside) \in LexiconFiles
         /\ \A x, y \in Outputs : x # y => PathOf(x, aside) # PathOf(y, aside)
         /\ aside \in {{}, Outputs} =>
               \A x, y \in Outputs : PathOf(x, aside) # PathOf(y, Outputs \ aside)
<1>1. /\ PathOf("lexicon", aside) \in {"lexicon", "lexicon aside"}
      /\ PathOf("freq", aside) \in {"freq", "freq aside"}
      /\ PathOf("manifest", aside) \in {"manifest", "manifest aside"}
  BY DEF PathOf, Aside
<1>2. \A x \in Outputs : PathOf(x, {}) = x /\ PathOf(x, Outputs) = Aside(x)
  BY DEF PathOf
<1>3. \A x, y \in Outputs : x # Aside(y)
  BY DEF Aside, Outputs
<1>4. \A x \in Outputs : PathOf(x, aside) \in LexiconFiles
  BY <1>1 DEF Outputs, LexiconFiles
<1>5. \A x, y \in Outputs : x # y => PathOf(x, aside) # PathOf(y, aside)
  BY <1>1 DEF Outputs
<1>6. CASE aside = {}
  <2>1. Outputs \ aside = Outputs
    BY <1>6
  <2>2. QED
    BY <1>2, <1>3, <1>4, <1>5, <1>6, <2>1
<1>7. CASE aside = Outputs
  <2>1. Outputs \ aside = {}
    BY <1>7
  <2>2. QED
    BY <1>2, <1>3, <1>4, <1>5, <1>7, <2>1
<1>8. QED
  BY <1>4, <1>5, <1>6, <1>7

LEMMA Start0 == Init => IInv
<1> SUFFICES ASSUME Init PROVE IInv
  OBVIOUS
<1>1. Types
  BY DEF Init, Types, Files, Outputs, Builders, LexiconFiles, TableFiles
<1>2. pending["lexicon"] = <<>> /\ pending["bigrams"] = <<>>
  BY DEF Init, Builders
<1>3. \A f \in LexiconFiles \cup TableFiles : disk[f] = Absent
  BY DEF Init, Files, Outputs, LexiconFiles, TableFiles
<1>4. LexiconBuilder
  <2>1. Together({}) /\ Together(Outputs)
    BY <1>3, Paths DEF Together, Outputs
  <2>2. QED
    BY <1>2, <2>1 DEF LexiconBuilder
<1>5. BigramsBuilder
  BY <1>2, <1>3 DEF BigramsBuilder, Described, ManifestPathFor, Outs, TableFiles
<1>6. PackageBounds
  BY DEF Init, PackageBounds
<1>7. QED
  BY <1>1, <1>4, <1>5, <1>6 DEF IInv

\* A step away from the lexicon's files and builder keeps its invariant.
LEMMA LexiconFrame ==
  ASSUME LexiconBuilder, \A f \in LexiconFiles : disk'[f] = disk[f],
         pending'["lexicon"] = pending["lexicon"], split' = split, crashes' = 0 => crashes = 0
  PROVE  LexiconBuilder'
<1>1. \A aside \in SUBSET Outputs :
        /\ \A x \in Outputs : disk'[PathOf(x, aside)] = disk[PathOf(x, aside)]
        /\ Together(aside)' <=> Together(aside)
  BY Paths DEF Together, Outputs
<1>2. \A aside \in SUBSET Outputs : Outputs \ aside \in SUBSET Outputs
  OBVIOUS
<1>3. CASE /\ pending["lexicon"] = <<>>
           /\ crashes = 0 /\ ~split => Together({}) /\ Together(Outputs)
  BY <1>1, <1>3 DEF LexiconBuilder
<1>4. ASSUME NEW l \in Lexicons, NEW aside \in SUBSET Outputs,
             \/ pending["lexicon"] = LexiconWrites(l, aside)
             \/ /\ pending["lexicon"] = <<Write(PathOf("freq", aside), l),
                                          Write(PathOf("manifest", aside), l)>>
                /\ disk[PathOf("lexicon", aside)] = l
             \/ /\ pending["lexicon"] = <<Write(PathOf("manifest", aside), l)>>
                /\ disk[PathOf("lexicon", aside)] = l /\ disk[PathOf("freq", aside)] = l,
             ~split => /\ aside \in {{}, Outputs}
                       /\ crashes = 0 => Together(Outputs \ aside)
      PROVE  LexiconBuilder'
  <2>1. \A x \in Outputs : disk'[PathOf(x, aside)] = disk[PathOf(x, aside)]
    BY <1>1
  <2>2. ~split' => /\ aside \in {{}, Outputs}
                   /\ crashes' = 0 => Together(Outputs \ aside)'
    BY <1>1, <1>2, <1>4
  <2>3. \/ pending'["lexicon"] = LexiconWrites(l, aside)
        \/ /\ pending'["lexicon"] = <<Write(PathOf("freq", aside), l),
                                      Write(PathOf("manifest", aside), l)>>
           /\ disk'[PathOf("lexicon", aside)] = l
        \/ /\ pending'["lexicon"] = <<Write(PathOf("manifest", aside), l)>>
           /\ disk'[PathOf("lexicon", aside)] = l /\ disk'[PathOf("freq", aside)] = l
    BY <1>4, <2>1 DEF Outputs
  <2>4. QED
    BY <2>2, <2>3 DEF LexiconBuilder
<1>5. QED
  BY <1>3, <1>4 DEF LexiconBuilder

-----------------------------------------------------------------------------
(* The builders begin, and write.                                          *)

LEMMA BeginLexicon ==
  ASSUME IInv, NEW u \in BOOLEAN, NEW aside \in Redirects, BuildLexicon(u, aside)
  PROVE  IInv'
<1>1. Derive(cache) \in Lexicons /\ aside \in SUBSET Outputs
  BY ArtifactsAssumption DEF BuildLexicon, Rebuild, CountsOK, Fetched
<1>2. pending' = [pending EXCEPT !["lexicon"] = LexiconWrites(Derive(cache), aside)]
      /\ split' = (split \/ aside \notin {{}, Outputs})
      /\ pending["lexicon"] = <<>>
      /\ UNCHANGED <<cache, upstream, recipe, corpus, disk, apk, crashes>>
  BY DEF BuildLexicon, sources, counters
<1>3. Types' /\ pending'["lexicon"] = LexiconWrites(Derive(cache), aside)
      /\ pending'["bigrams"] = pending["bigrams"]
  BY <1>2 DEF IInv, Types, Builders
<1>4. LexiconBuilder'
  <2>1. crashes = 0 /\ ~split => Together({}) /\ Together(Outputs)
    BY <1>2, Queue DEF IInv, LexiconBuilder, LexiconWrites
  <2>2. ~split' => ~split /\ aside \in {{}, Outputs}
    BY <1>2
  <2>3. ~split' /\ crashes' = 0 => Together(Outputs \ aside)'
    <3>1. aside \in {{}, Outputs} => Outputs \ aside \in {{}, Outputs}
      OBVIOUS
    <3>2. ~split' /\ crashes' = 0 => Together(Outputs \ aside)
      BY <1>2, <2>1, <2>2, <3>1
    <3>3. QED
      BY <1>2, <3>2 DEF Together
  <2>4. QED
    BY <1>1, <1>3, <2>2, <2>3 DEF LexiconBuilder
<1>5. BigramsBuilder' /\ PackageBounds'
  BY <1>2, <1>3 DEF IInv, BigramsBuilder, Described, PackageBounds
<1>6. QED
  BY <1>3, <1>4, <1>5 DEF IInv

LEMMA BeginBigrams ==
  ASSUME IInv, NEW out \in Outs, NEW w \in BOOLEAN, BuildBigrams(out, TRUE, w)
  PROVE  IInv'
<1>1. pending["bigrams"] = <<>> /\ disk["lexicon"] \in Lexicons
      /\ UNCHANGED <<cache, upstream, recipe, disk, apk, split, crashes>>
  BY DEF BuildBigrams, sources, counters, IInv, Types, LexiconFiles
<1>2. PICK sentences \in FetchCorpus :
        /\ corpus' = sentences
        /\ pending' = IF sentences = "tiny" \/ ~w THEN pending
                      ELSE [pending EXCEPT !["bigrams"] =
                              <<Write(out, Table(disk["lexicon"], sentences, TRUE)),
                                Write(ManifestPathFor(out), Table(disk["lexicon"], sentences, TRUE))>>]
  BY DEF BuildBigrams
<1>3. corpus' \in Corpora \cup {Absent}
  BY <1>2 DEF FetchCorpus, IInv, Types
<1>4. CASE pending' = pending
  <2>1. LexiconBuilder'
    BY <1>1, <1>4, LexiconFrame DEF IInv
  <2>2. QED
    BY <1>1, <1>3, <1>4, <2>1 DEF IInv, Types, BigramsBuilder, Described, PackageBounds
<1>5. CASE ~(sentences = "tiny" \/ ~w)
  <2> DEFINE t == Table(disk["lexicon"], sentences, TRUE)
             queue == <<Write(out, t), Write(ManifestPathFor(out), t)>>
  <2>1. t \in Tables
    <3>1. sentences \in Corpora
      BY <1>2, <1>5, <1>3 DEF FetchCorpus, IInv, Types
    <3>2. QED
      BY <1>1, <3>1 DEF Table, Tables
  <2>2. pending' = [pending EXCEPT !["bigrams"] = queue]
    BY <1>2, <1>5
  <2> HIDE DEF t
  <2>3. Types' /\ pending'["bigrams"] = queue /\ pending'["lexicon"] = pending["lexicon"]
    <3> HIDE DEF queue
    <3>1. QED
      BY <1>1, <1>3, <2>2 DEF IInv, Types, Builders
  <2>4. crashes = 0 => \A o \in Outs : Described(o)'
    <3>1. crashes = 0 => \A o \in Outs : Described(o)
      BY <1>1, Queue DEF IInv, BigramsBuilder
    <3>2. QED
      BY <1>1, <3>1 DEF Described
  <2>5. BigramsBuilder'
    BY <1>1, <2>1, <2>3, <2>4 DEF BigramsBuilder
  <2>6. LexiconBuilder' /\ PackageBounds'
    BY <1>1, <2>3, LexiconFrame DEF IInv, PackageBounds
  <2>7. QED
    BY <2>3, <2>5, <2>6 DEF IInv
<1>6. QED
  BY <1>2, <1>4, <1>5

LEMMA FlushLexicon ==
  ASSUME IInv, Flush("lexicon")
  PROVE  IInv'
<1>1. pending["lexicon"] # <<>>
      /\ disk' = [disk EXCEPT ![Head(pending["lexicon"]).file] = Head(pending["lexicon"]).content]
      /\ pending' = [pending EXCEPT !["lexicon"] = Tail(pending["lexicon"])]
      /\ UNCHANGED <<cache, upstream, recipe, corpus, apk, split, crashes>>
  BY DEF Flush, sources, counters
<1>2. pending'["lexicon"] = Tail(pending["lexicon"]) /\ pending'["bigrams"] = pending["bigrams"]
      /\ DOMAIN pending' = Builders /\ pending' = [b \in Builders |-> pending'[b]]
  BY <1>1 DEF IInv, Types, Builders
<1>3. PICK l \in Lexicons, aside \in SUBSET Outputs :
        /\ \/ pending["lexicon"] = LexiconWrites(l, aside)
           \/ /\ pending["lexicon"] = <<Write(PathOf("freq", aside), l),
                                        Write(PathOf("manifest", aside), l)>>
              /\ disk[PathOf("lexicon", aside)] = l
           \/ /\ pending["lexicon"] = <<Write(PathOf("manifest", aside), l)>>
              /\ disk[PathOf("lexicon", aside)] = l /\ disk[PathOf("freq", aside)] = l
        /\ ~split => /\ aside \in {{}, Outputs}
                     /\ crashes = 0 => Together(Outputs \ aside)
  BY <1>1 DEF IInv, LexiconBuilder
<1> DEFINE path(x) == PathOf(x, aside)
<1>4. /\ \A x \in Outputs : path(x) \in LexiconFiles
      /\ \A x, y \in Outputs : x # y => path(x) # path(y)
      /\ aside \in {{}, Outputs} =>
            \A x, y \in Outputs : path(x) # PathOf(y, Outputs \ aside)
  BY Paths
<1> HIDE DEF path
<1>5. PICK x \in Outputs :
        /\ disk' = [disk EXCEPT ![path(x)] = l]
        /\ \/ /\ x = "lexicon"
              /\ pending'["lexicon"] = <<Write(path("freq"), l), Write(path("manifest"), l)>>
           \/ /\ x = "freq" /\ pending'["lexicon"] = <<Write(path("manifest"), l)>>
              /\ disk[path("lexicon")] = l
           \/ /\ x = "manifest" /\ pending'["lexicon"] = <<>>
              /\ disk[path("lexicon")] = l /\ disk[path("freq")] = l
  <2>1. \A f : Write(f, l).file = f /\ Write(f, l).content = l
    BY DEF Write
  <2>2. CASE pending["lexicon"] = LexiconWrites(l, aside)
    <3>1. Head(pending["lexicon"]) = Write(path("lexicon"), l)
          /\ Tail(pending["lexicon"]) = <<Write(path("freq"), l), Write(path("manifest"), l)>>
      BY <2>2, Queue DEF LexiconWrites, path
    <3>2. disk' = [disk EXCEPT ![path("lexicon")] = l]
          /\ pending'["lexicon"] = <<Write(path("freq"), l), Write(path("manifest"), l)>>
      BY <1>1, <1>2, <2>1, <3>1
    <3>3. QED
      BY <3>2 DEF Outputs
  <2>3. CASE /\ pending["lexicon"] = <<Write(PathOf("freq", aside), l),
                                       Write(PathOf("manifest", aside), l)>>
             /\ disk[PathOf("lexicon", aside)] = l
    <3>1. Head(pending["lexicon"]) = Write(path("freq"), l)
          /\ Tail(pending["lexicon"]) = <<Write(path("manifest"), l)>>
          /\ disk[path("lexicon")] = l
      BY <2>3, Queue DEF path
    <3>2. disk' = [disk EXCEPT ![path("freq")] = l]
      BY <1>1, <2>1, <3>1
    <3>3. pending'["lexicon"] = <<Write(path("manifest"), l)>>
      BY <1>2, <3>1
    <3>4. QED
      BY <3>1, <3>2, <3>3 DEF Outputs
  <2>4. CASE /\ pending["lexicon"] = <<Write(PathOf("manifest", aside), l)>>
             /\ disk[PathOf("lexicon", aside)] = l /\ disk[PathOf("freq", aside)] = l
    <3>1. Head(pending["lexicon"]) = Write(path("manifest"), l)
          /\ Tail(pending["lexicon"]) = <<>>
          /\ disk[path("lexicon")] = l /\ disk[path("freq")] = l
      BY <2>4, Queue DEF path
    <3>2. disk' = [disk EXCEPT ![path("manifest")] = l] /\ pending'["lexicon"] = <<>>
      BY <1>1, <1>2, <2>1, <3>1
    <3>3. QED
      BY <3>1, <3>2 DEF Outputs
  <2>5. QED
    BY <1>3, <2>2, <2>3, <2>4
<1>6. DOMAIN disk' = Files /\ disk' = [g \in Files |-> disk'[g]] /\ disk'[path(x)] = l
      /\ \A g \in Files \ {path(x)} : disk'[g] = disk[g]
  BY <1>4, <1>5 DEF IInv, Types, Files, Outputs, LexiconFiles
<1>7. Types'
  BY <1>1, <1>2, <1>4, <1>5, <1>6 DEF IInv, Types, Files, Outputs, LexiconFiles, TableFiles
<1>8. LexiconBuilder'
  <2>1. \A y \in Outputs \ {x} : disk'[path(y)] = disk[path(y)]
    BY <1>4, <1>6 DEF Files, Outputs, LexiconFiles
  <2>2. ~split' => aside \in {{}, Outputs}
    BY <1>1, <1>3
  <2>3. ~split' /\ crashes' = 0 => Together(Outputs \ aside)'
    <3> SUFFICES ASSUME ~split', crashes' = 0 PROVE Together(Outputs \ aside)'
      OBVIOUS
    <3>1. \A y \in Outputs : PathOf(y, Outputs \ aside) \in Files \ {path(x)}
      <4>1. Outputs \ aside \in SUBSET Outputs /\ LexiconFiles \subseteq Files
        BY DEF Files, Outputs, LexiconFiles
      <4>2. \A y \in Outputs : PathOf(y, Outputs \ aside) \in LexiconFiles
        BY <4>1, Paths
      <4>3. QED
        BY <1>1, <1>4, <2>2, <4>1, <4>2
    <3>2. \A y \in Outputs : disk'[PathOf(y, Outputs \ aside)] = disk[PathOf(y, Outputs \ aside)]
      BY <1>6, <3>1
    <3>3. Together(Outputs \ aside)
      BY <1>1, <1>3
    <3>4. QED
      BY <3>2, <3>3 DEF Together, Outputs
  <2>4. CASE x = "manifest"
    <3>1. pending'["lexicon"] = <<>>
          /\ disk'[path("lexicon")] = l /\ disk'[path("freq")] = l /\ disk'[path("manifest")] = l
      BY <1>5, <1>6, <2>1, <2>4 DEF Outputs
    <3>2. Together(aside)'
      BY <3>1 DEF Together, path
    <3>3. aside \in {{}, Outputs} => {aside, Outputs \ aside} = {{}, Outputs}
      OBVIOUS
    <3>4. crashes' = 0 /\ ~split' => Together({})' /\ Together(Outputs)'
      <4> SUFFICES ASSUME crashes' = 0, ~split' PROVE Together({})' /\ Together(Outputs)'
        OBVIOUS
      <4>1. CASE aside = {}
        BY <2>3, <3>2, <4>1
      <4>2. CASE aside = Outputs
        <5>1. Outputs \ aside = {}
          BY <4>2
        <5>2. QED
          BY <2>3, <3>2, <4>2, <5>1
      <4>3. QED
        BY <2>2, <4>1, <4>2
    <3>5. QED
      BY <3>1, <3>4 DEF LexiconBuilder
  <2>5. CASE x # "manifest"
    <3>1. \/ /\ pending'["lexicon"] = <<Write(path("freq"), l), Write(path("manifest"), l)>>
             /\ disk'[path("lexicon")] = l
          \/ /\ pending'["lexicon"] = <<Write(path("manifest"), l)>>
             /\ disk'[path("lexicon")] = l /\ disk'[path("freq")] = l
      BY <1>5, <1>6, <2>1, <2>5 DEF Outputs
    <3>2. QED
      BY <2>2, <2>3, <3>1 DEF LexiconBuilder, path
  <2>6. QED
    BY <2>4, <2>5
<1>9. \A g \in TableFiles : disk'[g] = disk[g]
  BY <1>4, <1>6 DEF Files, Outputs, LexiconFiles, TableFiles
<1>10. BigramsBuilder'
  BY <1>1, <1>2, <1>9 DEF IInv, BigramsBuilder, Described, ManifestPathFor, Outs, TableFiles
<1>11. PackageBounds'
  BY <1>1 DEF IInv, PackageBounds
<1>12. QED
  BY <1>7, <1>8, <1>10, <1>11 DEF IInv

LEMMA FlushBigrams ==
  ASSUME IInv, Flush("bigrams")
  PROVE  IInv'
<1>1. pending["bigrams"] # <<>>
      /\ disk' = [disk EXCEPT ![Head(pending["bigrams"]).file] = Head(pending["bigrams"]).content]
      /\ pending' = [pending EXCEPT !["bigrams"] = Tail(pending["bigrams"])]
      /\ UNCHANGED <<cache, upstream, recipe, corpus, apk, split, crashes>>
  BY DEF Flush, sources, counters
<1>2. pending'["bigrams"] = Tail(pending["bigrams"]) /\ pending'["lexicon"] = pending["lexicon"]
      /\ DOMAIN pending' = Builders /\ pending' = [b \in Builders |-> pending'[b]]
  BY <1>1 DEF IInv, Types, Builders
<1>3. PICK out \in Outs, t \in Tables :
        /\ \/ pending["bigrams"] = <<Write(out, t), Write(ManifestPathFor(out), t)>>
           \/ /\ pending["bigrams"] = <<Write(ManifestPathFor(out), t)>>
              /\ disk[out] = t
        /\ crashes = 0 => \A o \in Outs \ {out} : Described(o)
  BY <1>1 DEF IInv, BigramsBuilder
<1>4. PICK f \in TableFiles :
        /\ disk' = [disk EXCEPT ![f] = t]
        /\ \/ f = out /\ pending'["bigrams"] = <<Write(ManifestPathFor(out), t)>>
           \/ f = ManifestPathFor(out) /\ pending'["bigrams"] = <<>> /\ disk[out] = t
  <2>1. \A x \in TableFiles : Write(x, t).file = x /\ Write(x, t).content = t
    BY DEF Write
  <2>2. out \in TableFiles /\ ManifestPathFor(out) \in TableFiles
    BY DEF Outs, TableFiles, ManifestPathFor
  <2>3. CASE pending["bigrams"] = <<Write(out, t), Write(ManifestPathFor(out), t)>>
    <3>1. Head(pending["bigrams"]) = Write(out, t)
          /\ Tail(pending["bigrams"]) = <<Write(ManifestPathFor(out), t)>>
      BY <2>3, Queue
    <3>2. disk' = [disk EXCEPT ![out] = t]
          /\ pending'["bigrams"] = <<Write(ManifestPathFor(out), t)>>
      BY <1>1, <1>2, <2>1, <2>2, <3>1
    <3>3. QED
      BY <2>2, <3>2
  <2>4. CASE pending["bigrams"] = <<Write(ManifestPathFor(out), t)>> /\ disk[out] = t
    <3>1. Head(pending["bigrams"]) = Write(ManifestPathFor(out), t)
          /\ Tail(pending["bigrams"]) = <<>>
      BY <2>4, Queue
    <3>2. disk' = [disk EXCEPT ![ManifestPathFor(out)] = t] /\ pending'["bigrams"] = <<>>
      BY <1>1, <1>2, <2>1, <2>2, <3>1
    <3>3. QED
      BY <2>2, <2>4, <3>2
  <2>5. QED
    BY <1>3, <2>3, <2>4
<1>5. DOMAIN disk' = Files /\ disk' = [g \in Files |-> disk'[g]] /\ disk'[f] = t
      /\ \A g \in Files \ {f} : disk'[g] = disk[g]
  BY <1>4 DEF IInv, Types, Files, Outputs, TableFiles
<1>6. Types'
  BY <1>1, <1>2, <1>4, <1>5 DEF IInv, Types, Files, Outputs, LexiconFiles, TableFiles
<1>7. crashes' = 0 => \A o \in Outs \ {out} : Described(o)'
  BY <1>1, <1>3, <1>4, <1>5 DEF Described, ManifestPathFor, Outs, Files, Outputs, TableFiles
<1>8. BigramsBuilder'
  <2>1. CASE f = out /\ pending'["bigrams"] = <<Write(ManifestPathFor(out), t)>>
    BY <1>5, <1>7, <2>1 DEF BigramsBuilder
  <2>2. CASE f = ManifestPathFor(out) /\ pending'["bigrams"] = <<>> /\ disk[out] = t
    <3>1. Described(out)'
      BY <1>5, <2>2 DEF Described, ManifestPathFor, Outs, Files
    <3>2. QED
      BY <1>7, <2>2, <3>1 DEF BigramsBuilder
  <2>3. QED
    BY <1>4, <2>1, <2>2
<1>9. \A g \in LexiconFiles : disk'[g] = disk[g]
  BY <1>4, <1>5 DEF Files, Outputs, LexiconFiles, TableFiles
<1>10. LexiconBuilder'
  BY <1>1, <1>2, <1>9, LexiconFrame DEF IInv
<1>11. PackageBounds'
  BY <1>1 DEF IInv, PackageBounds
<1>12. QED
  BY <1>6, <1>8, <1>10, <1>11 DEF IInv

-----------------------------------------------------------------------------
(* A builder dies: at most the file it was about to write is torn.         *)

LEMMA CrashStep ==
  ASSUME IInv, NEW b \in Builders, Crash(b)
  PROVE  IInv'
<1>1. pending[b] # <<>> /\ crashes' = crashes + 1 /\ pending' = [pending EXCEPT ![b] = <<>>]
      /\ (disk' = disk \/ disk' = [disk EXCEPT ![Head(pending[b]).file] = Torn])
      /\ UNCHANGED <<cache, upstream, recipe, corpus, apk, split>>
  BY DEF Crash, sources
<1>2. crashes' # 0 /\ crashes' \in Nat
  BY <1>1 DEF IInv, Types
<1>3. pending'[b] = <<>> /\ (\A c \in Builders \ {b} : pending'[c] = pending[c])
      /\ DOMAIN pending' = Builders /\ pending' = [c \in Builders |-> pending'[c]]
  BY <1>1 DEF IInv, Types
<1>5. CASE b = "lexicon"
  <2>1. PICK l \in Lexicons, aside \in SUBSET Outputs :
             \/ pending["lexicon"] = LexiconWrites(l, aside)
             \/ pending["lexicon"] = <<Write(PathOf("freq", aside), l),
                                      Write(PathOf("manifest", aside), l)>>
             \/ pending["lexicon"] = <<Write(PathOf("manifest", aside), l)>>
    BY <1>1, <1>5 DEF IInv, LexiconBuilder
  <2>2. Head(pending["lexicon"]).file \in LexiconFiles
    <3>1. \A x \in Outputs : Write(PathOf(x, aside), l).file \in LexiconFiles
      BY Paths DEF Write
    <3>2. \E x \in Outputs : Head(pending["lexicon"]) = Write(PathOf(x, aside), l)
      BY <2>1, Queue DEF LexiconWrites, Outputs
    <3>3. QED
      BY <3>1, <3>2
  <2>3. CASE disk' = disk
    <3>1. Types' /\ PackageBounds'
      BY <1>1, <1>2, <1>3, <2>3 DEF IInv, Types, PackageBounds
    <3>2. LexiconBuilder'
      BY <1>2, <1>3, <1>5, <2>3 DEF IInv, LexiconBuilder, Builders
    <3>3. BigramsBuilder'
      BY <1>2, <1>3, <1>5, <2>3 DEF IInv, BigramsBuilder, Builders
    <3>4. QED
      BY <3>1, <3>2, <3>3 DEF IInv
  <2>4. ASSUME NEW f \in LexiconFiles, disk' = [disk EXCEPT ![f] = Torn],
               f = Head(pending["lexicon"]).file
        PROVE  IInv'
    <3>1. DOMAIN disk' = Files /\ disk' = [g \in Files |-> disk'[g]] /\ disk'[f] = Torn
          /\ \A g \in Files \ {f} : disk'[g] = disk[g]
      BY <2>4 DEF IInv, Types, Files, Outputs, LexiconFiles
    <3>2. Types'
      BY <1>1, <1>2, <1>3, <3>1 DEF IInv, Types, Files, Outputs, LexiconFiles, TableFiles
    <3>3. LexiconBuilder'
      BY <1>2, <1>3, <1>5 DEF LexiconBuilder
    <3>4. \A g \in TableFiles : disk'[g] = disk[g]
      BY <3>1 DEF Files, Outputs, LexiconFiles, TableFiles
    <3>5. pending'["bigrams"] = pending["bigrams"]
      BY <1>3, <1>5 DEF Builders
    <3>6. BigramsBuilder'
      BY <1>2, <3>4, <3>5 DEF IInv, BigramsBuilder, Outs, TableFiles
    <3>8. PackageBounds'
      BY <1>1 DEF IInv, PackageBounds
    <3>9. QED
      BY <3>2, <3>3, <3>6, <3>8 DEF IInv
  <2>5. QED
    BY <1>1, <1>5, <2>2, <2>3, <2>4
<1>6. CASE b = "bigrams"
  <2>1. PICK out \in Outs, t \in Tables :
             \/ pending["bigrams"] = <<Write(out, t), Write(ManifestPathFor(out), t)>>
             \/ pending["bigrams"] = <<Write(ManifestPathFor(out), t)>>
    BY <1>1, <1>6 DEF IInv, BigramsBuilder
  <2>2. Head(pending["bigrams"]).file \in TableFiles
    BY <2>1, Queue DEF Write, TableFiles, Outs, ManifestPathFor
  <2>3. CASE disk' = disk
    <3>1. Types' /\ PackageBounds'
      BY <1>1, <1>2, <1>3, <2>3 DEF IInv, Types, PackageBounds
    <3>2. LexiconBuilder'
      BY <1>1, <1>2, <1>3, <1>6, <2>3, LexiconFrame DEF IInv, Builders
    <3>3. BigramsBuilder'
      BY <1>2, <1>3, <1>6, <2>3 DEF IInv, BigramsBuilder, Builders
    <3>4. QED
      BY <3>1, <3>2, <3>3 DEF IInv
  <2>4. ASSUME NEW f \in TableFiles, disk' = [disk EXCEPT ![f] = Torn]
        PROVE  IInv'
    <3>1. DOMAIN disk' = Files /\ disk' = [g \in Files |-> disk'[g]] /\ disk'[f] = Torn
          /\ \A g \in Files \ {f} : disk'[g] = disk[g]
      BY <2>4 DEF IInv, Types, Files, Outputs, TableFiles
    <3>2. Types'
      BY <1>1, <1>2, <1>3, <3>1 DEF IInv, Types, Files, Outputs, LexiconFiles, TableFiles
    <3>3. BigramsBuilder'
      BY <1>2, <1>3, <1>6 DEF BigramsBuilder
    <3>4. \A g \in LexiconFiles : disk'[g] = disk[g]
      BY <3>1 DEF Files, Outputs, LexiconFiles, TableFiles
    <3>5. pending'["lexicon"] = pending["lexicon"]
      BY <1>3, <1>6 DEF Builders
    <3>6. LexiconBuilder'
      BY <1>1, <1>2, <3>4, <3>5, LexiconFrame DEF IInv
    <3>7. PackageBounds'
      BY <1>1 DEF IInv, PackageBounds
    <3>8. QED
      BY <3>2, <3>3, <3>6, <3>7 DEF IInv
  <2>5. QED
    BY <1>1, <1>6, <2>2, <2>3, <2>4
<1>7. QED
  BY <1>5, <1>6 DEF Builders

-----------------------------------------------------------------------------
(* The rest touches neither the files nor the builders.                    *)

LEMMA PackageStep ==
  ASSUME IInv, NEW flaw \in Flaws, Package(flaw)
  PROVE  PackageBounds'
BY DEF Package, Packaged, PackageBounds

LEMMA RestStep ==
  ASSUME IInv,
         \/ Download \/ CrashDownload \/ UpstreamMoves \/ ClearCaches \/ WriteBaseline
         \/ \E r \in Recipes : EditRecipe(r)
         \/ \E flaw \in Flaws : Package(flaw)
         \/ UNCHANGED vars
  PROVE  IInv'
<1>1. UNCHANGED <<disk, pending, split>> /\ crashes' \in {crashes, crashes + 1}
      /\ recipe' \in {recipe} \cup Recipes /\ upstream' \in {upstream, Moved}
      /\ corpus' \in {corpus, Absent} /\ cache' \in {cache, upstream, Torn, Absent}
  BY DEF Download, CrashDownload, UpstreamMoves, ClearCaches, WriteBaseline, EditRecipe, Package,
         vars, sources, counters, Edit
<1>2. Types'
  BY <1>1 DEF IInv, Types
<1>3. crashes' = 0 => crashes = 0
  BY <1>1 DEF IInv, Types
<1>4. LexiconBuilder' /\ BigramsBuilder'
  BY <1>1, <1>3, LexiconFrame DEF IInv, BigramsBuilder, Described
<1>5. PackageBounds'
  <2>1. CASE \E flaw \in Flaws : Package(flaw)
    BY <2>1, PackageStep
  <2>2. CASE apk' = apk
    BY <2>2 DEF IInv, PackageBounds
  <2>3. QED
    BY <2>1, <2>2 DEF Download, CrashDownload, UpstreamMoves, ClearCaches, WriteBaseline, EditRecipe,
                      vars
<1>6. QED
  BY <1>2, <1>4, <1>5 DEF IInv

LEMMA Step ==
  ASSUME IInv, [Next]_vars
  PROVE  IInv'
<1>1. ASSUME NEW b \in Builders, Flush(b)
      PROVE  IInv'
  BY <1>1, FlushLexicon, FlushBigrams DEF Builders
<1>2. QED
  BY <1>1, BeginLexicon, BeginBigrams, CrashStep, RestStep DEF Next, Outs

LEMMA Invariance == Spec => []IInv
BY Start0, Step, PTL DEF Spec

-----------------------------------------------------------------------------
(* What an exit code says of the detectors.                                *)

\* A strict pass measured everything and found nothing.
LEMMA StrictPass ==
  ASSUME NEW dets, ExitCode(dets, TRUE) = ExitPass, NEW d \in DOMAIN dets
  PROVE  ~(dets[d].findings > 0) /\ dets[d].denominator # 0
<1>1. GateStatus(dets) # Fail /\ GateStatus(dets) # PassPartial
  BY DEF ExitCode, ExitPass, ExitFail
<1>2. DetectorStatus(dets[d]) \in {DetectorStatus(dets[n]) : n \in DOMAIN dets}
  OBVIOUS
<1>3. DetectorStatus(dets[d]) # Fail /\ DetectorStatus(dets[d]) # NotMeasured
  BY <1>1, <1>2 DEF GateStatus
<1>4. QED
  BY <1>3 DEF DetectorStatus, Fail, NotMeasured, Pass

\* One detector with a finding turns its gate red.
LEMMA AnyFindingFails ==
  ASSUME NEW dets, NEW d \in DOMAIN dets, dets[d].findings > 0
  PROVE  ExitCode(dets, FALSE) = ExitFail
<1>1. DetectorStatus(dets[d]) = Fail
  BY DEF DetectorStatus
<1>2. GateStatus(dets) = Fail
  BY <1>1 DEF GateStatus
<1>3. QED
  BY <1>2 DEF ExitCode

LEMMA DetShape ==
  ASSUME NEW f, NEW n
  PROVE  Det(f, n).findings = f /\ Det(f, n).denominator = n
BY DEF Det

LEMMA SomeIn ==
  ASSUME NEW S, IsFiniteSet(S)
  PROVE  Cardinality(S) \in Nat /\ (S # {} <=> Cardinality(S) > 0)
BY FS_CardinalityType, FS_EmptySet

LEMMA AssetsFinite == IsFiniteSet(Assets)
<1>1. IsFiniteSet({"lexicon"} \cup {"freq"})
  BY FS_Singleton, FS_AddElement
<1>2. IsFiniteSet(({"lexicon"} \cup {"freq"}) \cup {"bigrams"})
  BY <1>1, FS_AddElement
<1>3. IsFiniteSet((({"lexicon"} \cup {"freq"}) \cup {"bigrams"}) \cup {"abbreviations"})
  BY <1>2, FS_AddElement
<1>4. Assets = (({"lexicon"} \cup {"freq"}) \cup {"bigrams"}) \cup {"abbreviations"}
  BY DEF Assets
<1>5. QED
  BY <1>3, <1>4

-----------------------------------------------------------------------------
\* check_lexicon.py, check_apk.py, check_size.py: whatever was killed, edited or
\* cached, a package the three gates pass strictly holds today's lexicon of the
\* pinned bytes, every asset, a table over a lexicon, and no class outside the
\* baseline.
THEOREM GreenIsPinned == Spec => []GreenShipsThePinnedLexicon
<1>1. IInv => GreenShipsThePinnedLexicon
  <2> SUFFICES ASSUME IInv, Green
               PROVE  /\ apk.assets["lexicon"] = [source |-> Pinned, recipe |-> recipe]
                      /\ disk["lexicon"] = apk.assets["lexicon"]
                      /\ Assets \subseteq DOMAIN apk.assets
                      /\ apk.assets["bigrams"].over \in Lexicons
                      /\ ~apk.network /\ apk.dex \subseteq baseline
    BY DEF GreenShipsThePinnedLexicon
  <2>1. /\ ~(CheckArtifact("none").findings > 0) /\ CheckArtifact("none").denominator # 0
        /\ ~(CheckReproducibility("none").findings > 0)
        /\ CheckReproducibility("none").denominator # 0
    <3>1. ExitCode(LexiconGate("none"), TRUE) = ExitPass
      BY DEF Green
    <3>2. DOMAIN LexiconGate("none") = {"artifact", "reproducibility"}
          /\ LexiconGate("none")["artifact"] = CheckArtifact("none")
          /\ LexiconGate("none")["reproducibility"] = CheckReproducibility("none")
      BY DEF LexiconGate
    <3>3. QED
      BY <3>1, <3>2, StrictPass
  <2>2. disk["manifest"] # Absent /\ disk["lexicon"] = disk["manifest"] /\ disk["manifest"] # Torn
    BY <2>1, DetShape DEF CheckArtifact, Findings, Matches
  <2>3. Rebuild("none", FALSE) = "built" /\ Derive(cache) = disk["manifest"]
    <3>1. cache # Absent
      BY <2>1, DetShape DEF CheckReproducibility
    <3>2. ("none" = "filter") = FALSE
      OBVIOUS
    <3>3. CheckReproducibility("none") =
            Det(IF Rebuild("none", FALSE) # "built" \/ Derive(cache) # disk["manifest"]
                THEN 1 ELSE 0, 1)
      BY <3>1, <3>2 DEF CheckReproducibility, Fetched, Findings
    <3>4. CASE Rebuild("none", FALSE) # "built" \/ Derive(cache) # disk["manifest"]
      <4>1. CheckReproducibility("none") = Det(1, 1)
        BY <3>3, <3>4
      <4>2. QED
        BY <2>1, <4>1, DetShape
    <3>5. QED
      BY <3>4
  <2>4. disk["manifest"] = [source |-> Pinned, recipe |-> recipe]
    BY <2>3 DEF Rebuild, Fetched, Derive
  <2>5. apk # Absent
    <3>1. ExitCode(ApkGate("none"), TRUE) = ExitPass
      BY DEF Green
    <3>2. SUFFICES ASSUME apk = Absent PROVE FALSE
      OBVIOUS
    <3>3. "dex" \in DOMAIN ApkGate("none") /\ ApkGate("none")["dex"] = Det(0, 0)
      BY <3>2 DEF ApkGate
    <3>4. ApkGate("none")["dex"].denominator = 0
      BY <3>3, DetShape
    <3>5. QED
      BY <3>1, <3>3, <3>4, StrictPass
  <2>6. \A d \in {CheckPermissions("none"), CheckDex("none"), CheckLexiconAsset("none"),
                  CheckBigramAsset("none")} :
            ~(d.findings > 0) /\ d.denominator # 0
    <3>1. ExitCode(ApkGate("none"), TRUE) = ExitPass
      BY DEF Green
    <3>2. {"permissions", "dex", "lexicon", "bigrams"} \subseteq DOMAIN ApkGate("none")
          /\ ApkGate("none")["permissions"] = CheckPermissions("none")
          /\ ApkGate("none")["dex"] = CheckDex("none")
          /\ ApkGate("none")["lexicon"] = CheckLexiconAsset("none")
          /\ ApkGate("none")["bigrams"] = CheckBigramAsset("none")
      BY <2>5 DEF ApkGate
    <3>3. QED
      BY <3>1, <3>2, StrictPass
  <2>7. "lexicon" \in DOMAIN apk.assets /\ Assets \subseteq DOMAIN apk.assets
        /\ apk.assets["lexicon"] = disk["manifest"]
    <3> DEFINE missing == Assets \ DOMAIN apk.assets
               unlike  == ~Matches(apk.assets["lexicon"], disk["manifest"])
    <3>1. "lexicon" \in DOMAIN apk.assets
      <4>1. CASE "lexicon" \notin DOMAIN apk.assets
        <5>1. CheckLexiconAsset("none") = Det(Cardinality(missing), 0)
          BY <2>2, <4>1 DEF CheckLexiconAsset
        <5>2. CheckLexiconAsset("none").denominator = 0
          BY <5>1, DetShape
        <5>3. QED
          BY <2>6, <5>2
      <4>2. QED
        BY <4>1
    <3>2. CheckLexiconAsset("none") =
            Det(Cardinality(missing) + Findings(unlike), 1 + Cardinality(Assets))
      BY <2>2, <3>1 DEF CheckLexiconAsset
    <3>3. ~(Cardinality(missing) + Findings(unlike) > 0)
      BY <2>6, <3>2, DetShape
    <3>4. IsFiniteSet(missing)
      BY AssetsFinite, FS_Subset
    <3>5. Cardinality(missing) \in Nat /\ (missing # {} <=> Cardinality(missing) > 0)
      BY <3>4, SomeIn
    <3>6. Findings(unlike) \in {0, 1} /\ (unlike => Findings(unlike) = 1)
      BY DEF Findings
    <3> HIDE DEF missing, unlike
    <3>7. missing = {} /\ ~unlike
      BY <3>3, <3>5, <3>6
    <3>8. QED
      BY <3>1, <3>7 DEF missing, unlike, Matches
  <2>8. apk.assets["bigrams"].over \in Lexicons
    <3>1. disk["bigramManifest"] # Absent /\ disk["bigramManifest"] # Torn
          /\ apk.assets["bigrams"] = disk["bigramManifest"]
      BY <2>6, DetShape DEF CheckBigramAsset, Findings, Matches
    <3>2. disk["bigramManifest"] \in Tables
      BY <3>1 DEF IInv, Types, TableFiles
    <3>3. QED
      BY <3>1, <3>2 DEF Tables
  <2>9. ~apk.network
    BY <2>6, DetShape DEF CheckPermissions, Findings
  <2>10. apk.dex \subseteq baseline
    <3>1. ~(Cardinality(apk.dex \ baseline) > 0)
      <4>1. CheckDex("none") = Det(Cardinality(apk.dex \ baseline), Cardinality(apk.dex))
        BY DEF CheckDex
      <4>2. QED
        BY <2>6, <4>1, DetShape
    <3>2. IsFiniteSet(apk.dex \ baseline)
      <4>1. IsFiniteSet(Background \cup {Planted})
        BY ArtifactsAssumption, FS_AddElement
      <4>2. apk.dex \ baseline \subseteq Background \cup {Planted}
        BY <2>5 DEF IInv, PackageBounds
      <4>3. QED
        BY <4>1, <4>2, FS_Subset
    <3>3. QED
      BY <3>1, <3>2, SomeIn
  <2>11. QED
    BY <2>2, <2>4, <2>7, <2>8, <2>9, <2>10
<1>2. QED
  BY <1>1, Invariance, PTL

\* build_lexicon.py, build_bigrams.manifest_path_for: where nothing died and no
\* builder is under way, each manifest describes the files written with it,
\* though two tables were built one after the other, and though the lexicon was
\* built in the tree and elsewhere, as long as no build split its outputs.
THEOREM BuildsAgree == Spec => []UndisturbedBuildsAgree
<1>1. IInv => UndisturbedBuildsAgree
  <2> SUFFICES ASSUME IInv, crashes = 0, \A b \in Builders : pending[b] = <<>>
               PROVE  /\ ~split => Together({}) /\ Together(Outputs)
                      /\ disk["bigrams"] = disk["bigramManifest"]
                      /\ disk["comparison"] = disk["besideIt"]
    BY DEF UndisturbedBuildsAgree, Together, PathOf, Aside, Outputs
  <2>1. pending["lexicon"] = <<>> /\ pending["bigrams"] = <<>>
    BY DEF Builders
  <2>2. ~split => Together({}) /\ Together(Outputs)
    BY <2>1, Queue DEF IInv, LexiconBuilder, LexiconWrites
  <2>3. \A out \in Outs : Described(out)
    BY <2>1, Queue DEF IInv, BigramsBuilder
  <2>4. QED
    BY <2>2, <2>3 DEF Described, ManifestPathFor, Outs
<1>2. QED
  BY <1>1, Invariance, PTL

LEMMA LexiconControlsRed ==
  ASSUME Absent \notin {cache, disk["lexicon"], disk["manifest"]}, NEW c \in LexiconControls
  PROVE  ExitCode(LexiconGate(c), FALSE) = ExitFail
<1>1. "artifact" \in DOMAIN LexiconGate(c) /\ "reproducibility" \in DOMAIN LexiconGate(c)
      /\ LexiconGate(c)["artifact"] = CheckArtifact(c)
      /\ LexiconGate(c)["reproducibility"] = CheckReproducibility(c)
  BY DEF LexiconGate
<1>2. CASE c = "artifact"
  <2>1. CheckArtifact(c).findings > 0
    BY <1>2, DetShape DEF CheckArtifact, Findings
  <2>2. QED
    BY <1>1, <2>1, AnyFindingFails
<1>3. CASE c # "artifact"
  <2>1. Rebuild(c, c = "filter") # "built"
    <3>1. CASE c = "checksum"
      <4>1. Moved # Pinned
        <5>1. IsFiniteSet({Pinned}) /\ Cardinality({Pinned}) = 1
          BY FS_Singleton
        <5>2. IsFiniteSet({Pinned} \cup {Absent}) /\ Cardinality({Pinned} \cup {Absent}) \in {1, 2}
          BY <5>1, FS_AddElement
        <5>3. Cardinality(({Pinned} \cup {Absent}) \cup {Torn}) \in {1, 2, 3}
          BY <5>2, FS_AddElement
        <5>4. Moved = Pinned =>
                 {Pinned, Moved, Absent, Torn} = ({Pinned} \cup {Absent}) \cup {Torn}
          OBVIOUS
        <5>5. Cardinality({Pinned, Moved, Absent, Torn}) = 4
          BY ArtifactsAssumption
        <5>6. QED
          BY <5>3, <5>4, <5>5
      <4>2. QED
        BY <3>1, <4>1 DEF Rebuild, Fetched
    <3>2. CASE c = "filter"
      BY <3>2 DEF Rebuild, Fetched, CountsOK
    <3>3. CASE c = "nondeterminism"
      BY <3>3 DEF Rebuild, Fetched
    <3>4. QED
      BY <1>3, <3>1, <3>2, <3>3 DEF LexiconControls
  <2>2. CheckReproducibility(c).findings > 0
    BY <2>1, DetShape DEF CheckReproducibility, Findings
  <2>3. QED
    BY <1>1, <2>2, AnyFindingFails
<1>4. QED
  BY <1>2, <1>3

LEMMA ApkControlsRed ==
  ASSUME IInv, apk # Absent, Aapt2, disk["manifest"] # Absent, disk["bigramManifest"] # Absent,
         NEW c \in ApkControls, ~(c = "dex" /\ Planted \in baseline)
  PROVE  ExitCode(ApkGate(c), FALSE) = ExitFail
<1>1. DOMAIN ApkGate(c) = {"permissions", "dex", "service", "lexicon", "bigrams", "font"}
      /\ ApkGate(c)["permissions"] = CheckPermissions(c) /\ ApkGate(c)["dex"] = CheckDex(c)
      /\ ApkGate(c)["service"] = CheckImeService(c) /\ ApkGate(c)["lexicon"] = CheckLexiconAsset(c)
      /\ ApkGate(c)["bigrams"] = CheckBigramAsset(c) /\ ApkGate(c)["font"] = CheckFont(c)
  BY DEF ApkGate
<1>2. CASE c = "permission"
  <2>1. CheckPermissions(c).findings > 0
    BY <1>2, DetShape DEF CheckPermissions, Findings
  <2>2. QED
    BY <1>1, <2>1, AnyFindingFails
<1>3. CASE c = "service"
  <2>1. CheckImeService(c).findings > 0
    BY <1>3, DetShape DEF CheckImeService, Findings
  <2>2. QED
    BY <1>1, <2>1, AnyFindingFails
<1>4. CASE c = "bigram_content"
  <2>1. CheckBigramAsset(c).findings > 0
    BY <1>4, DetShape DEF CheckBigramAsset, Findings
  <2>2. QED
    BY <1>1, <2>1, AnyFindingFails
<1>5. CASE c = "font"
  <2>1. CheckFont(c).findings > 0
    BY <1>5, DetShape DEF CheckFont, Findings
  <2>2. QED
    BY <1>1, <2>1, AnyFindingFails
<1>6. CASE c \in {"lexicon", "asset_name"}
  <2> DEFINE names == IF c = "asset_name" THEN {"lexicon.gz"} ELSE Assets
             missing == names \ DOMAIN apk.assets
             unlike  == \/ c = "lexicon" \/ ~Matches(apk.assets["lexicon"], disk["manifest"])
  <2>1. IsFiniteSet(missing)
    <3>1. IsFiniteSet(names)
      BY AssetsFinite, FS_Singleton
    <3>2. QED
      BY <3>1, FS_Subset
  <2>2. Cardinality(missing) \in Nat /\ (missing # {} <=> Cardinality(missing) > 0)
    BY <2>1, SomeIn
  <2>3. CASE "lexicon" \notin DOMAIN apk.assets
    <3>1. CheckLexiconAsset(c) = Det(Cardinality(missing), 0)
      BY <2>3 DEF CheckLexiconAsset
    <3>2. missing # {}
      <4>1. "lexicon.gz" \notin DOMAIN apk.assets
        BY DEF IInv, PackageBounds, Assets
      <4>2. QED
        BY <2>3, <4>1 DEF Assets
    <3> HIDE DEF missing
    <3>3. CheckLexiconAsset(c).findings > 0
      BY <2>2, <3>1, <3>2, DetShape
    <3>4. QED
      BY <1>1, <3>3, AnyFindingFails
  <2>4. CASE "lexicon" \in DOMAIN apk.assets
    <3>1. CheckLexiconAsset(c) =
            Det(Cardinality(missing) + Findings(unlike), 1 + Cardinality(names))
      BY <2>4 DEF CheckLexiconAsset
    <3>2. Findings(unlike) \in {0, 1} /\ (c = "lexicon" => Findings(unlike) = 1)
      BY DEF Findings
    <3>3. c = "asset_name" => missing # {}
      BY DEF IInv, PackageBounds, Assets
    <3> HIDE DEF missing, unlike, names
    <3>4. Cardinality(missing) + Findings(unlike) > 0
      BY <1>6, <2>2, <3>2, <3>3
    <3>5. CheckLexiconAsset(c).findings > 0
      BY <3>1, <3>4, DetShape
    <3>6. QED
      BY <1>1, <3>5, AnyFindingFails
  <2>5. QED
    BY <2>3, <2>4
<1>7. CASE c = "dex"
  <2>1. CheckDex(c) = Det(Cardinality((apk.dex \cup {Planted}) \ baseline),
                          Cardinality(apk.dex \cup {Planted}))
    BY <1>7 DEF CheckDex
  <2>2. IsFiniteSet((apk.dex \cup {Planted}) \ baseline)
    <3>1. IsFiniteSet(Background \cup {Planted})
      BY ArtifactsAssumption, FS_AddElement
    <3>2. (apk.dex \cup {Planted}) \ baseline \subseteq Background \cup {Planted}
      BY DEF IInv, PackageBounds
    <3>3. QED
      BY <3>1, <3>2, FS_Subset
  <2>3. (apk.dex \cup {Planted}) \ baseline # {}
    BY <1>7
  <2>4. Cardinality((apk.dex \cup {Planted}) \ baseline) > 0
    BY <2>2, <2>3, SomeIn
  <2>5. CheckDex(c).findings > 0
    BY <2>1, <2>4, DetShape
  <2>6. QED
    BY <1>1, <2>5, AnyFindingFails
<1>8. QED
  BY <1>2, <1>3, <1>4, <1>5, <1>6, <1>7 DEF ApkControls

\* Half as much again of two thirds of the budget is more than the budget.
LEMMA SizeControlsRed ==
  ASSUME IInv, apk # Absent, NEW c \in SizeControls \cap DOMAIN Limits,
         3 * Measure[c] >= 2 * (Limits[c] + 1)
  PROVE  ExitCode(SizeGate(c), FALSE) = ExitFail
<1>1. Measure[c] \in Nat
  <2>1. IsFiniteSet(DOMAIN apk.assets)
    BY AssetsFinite, FS_Subset DEF IInv, PackageBounds
  <2>2. IsFiniteSet(apk.dex)
    <3>1. IsFiniteSet(Background \cup {Planted})
      BY ArtifactsAssumption, FS_AddElement
    <3>2. QED
      BY <3>1, FS_Subset DEF IInv, PackageBounds
  <2>3. Cardinality(DOMAIN apk.assets) \in Nat /\ Cardinality(apk.dex) \in Nat
    BY <2>1, <2>2, FS_CardinalityType
  <2>4. QED
    BY <2>3 DEF Measure, SizeControls
<1>2. Limits[c] \in Nat
  BY ArtifactsAssumption
<1>3. (3 * Measure[c]) \div 2 > Limits[c]
  <2>1. ASSUME NEW m \in Nat, NEW k \in Nat, 3 * m >= 2 * (k + 1)
        PROVE  (3 * m) \div 2 > k
    BY <2>1, SMT
  <2>2. QED
    BY <1>1, <1>2, <2>1
<1>4. c \in Over(c)
  BY <1>3 DEF Over
<1>5. Cardinality(Over(c)) > 0
  <2>1. IsFiniteSet({"total", "assets", "dex"})
    <3>1. IsFiniteSet({"total"} \cup {"assets"})
      BY FS_Singleton, FS_AddElement
    <3>2. IsFiniteSet(({"total"} \cup {"assets"}) \cup {"dex"})
      BY <3>1, FS_AddElement
    <3>3. {"total", "assets", "dex"} = ({"total"} \cup {"assets"}) \cup {"dex"}
      OBVIOUS
    <3>4. QED
      BY <3>2, <3>3
  <2>2. Over(c) \subseteq {"total", "assets", "dex"}
    BY ArtifactsAssumption DEF Over
  <2>3. IsFiniteSet(Over(c))
    BY <2>1, <2>2, FS_Subset
  <2>4. QED
    BY <1>4, <2>3, SomeIn
<1>6. "size" \in DOMAIN SizeGate(c) /\ SizeGate(c)["size"].findings > 0
  BY <1>5, DetShape DEF SizeGate
<1>7. QED
  BY <1>6, AnyFindingFails

\* check_lexicon.py:160, check_apk.py:451: no tree and no package that the gate
\* can measure hides a planted defect, but for a baseline that names the class;
\* of the size gate's two (check_size.py:74) a package shows each that fills two
\* thirds of its budget.
THEOREM PlantedIsRed == Spec => []ControlsGoRed
<1>1. IInv => ControlsGoRed
  BY LexiconControlsRed, ApkControlsRed, SizeControlsRed DEF ControlsGoRed
<1>2. QED
  BY <1>1, Invariance, PTL

-----------------------------------------------------------------------------
(* Minima and maxima of bounded sets of numbers.                             *)

LEMMA MinExists ==
  ASSUME NEW S \in SUBSET Nat, S # {}
  PROVE  Min(S) \in S /\ \A y \in S : Min(S) <= y
<1> DEFINE R == OpToRel(<, Nat)
<1>0. \A x, y \in Nat : x < y => <<x, y>> \in R
  BY DEF OpToRel
<1>1. PICK x \in S : \A y \in S : ~ (<<y, x>> \in R)
  <2>1. IsWellFoundedOn(R, Nat)
    BY NatLessThanWellFounded
  <2> HIDE DEF R
  <2>2. QED
    BY <2>1, WFMin
<1>2. \A y \in S : x <= y
  <2> SUFFICES ASSUME NEW y \in S
               PROVE  x <= y
    OBVIOUS
  <2>1. x \in Nat /\ y \in Nat /\ (y < x => <<y, x>> \in R)
    BY <1>0
  <2> HIDE DEF R
  <2>2. ~ (y < x)
    BY <1>1, <2>1
  <2>3. QED
    BY <2>1, <2>2
<1>3. QED
  BY <1>2 DEF Min

LEMMA MaxExists ==
  ASSUME NEW N \in Nat, NEW S \in SUBSET (0 .. N), S # {}
  PROVE  Max(S) \in S /\ \A y \in S : y <= Max(S)
<1> DEFINE T == {N - y : y \in S}
<1>1. T \in SUBSET Nat /\ T # {}
  <2>1. \A y \in S : N - y \in Nat
    OBVIOUS
  <2>2. QED
    BY <2>1
<1>2. Min(T) \in T /\ \A t \in T : Min(T) <= t
  BY <1>1, MinExists
<1>3. PICK x \in S : Min(T) = N - x
  BY <1>2
<1>4. \A y \in S : x >= y
  <2> SUFFICES ASSUME NEW y \in S
               PROVE  x >= y
    OBVIOUS
  <2>1. N - x <= N - y
    BY <1>2, <1>3
  <2>2. x \in Int /\ y \in Int /\ N \in Int
    OBVIOUS
  <2>3. QED
    BY <2>1, <2>2
<1>5. Max(S) \in S /\ \A y \in S : Max(S) >= y
  BY <1>4 DEF Max
<1>6. QED
  BY <1>5

-----------------------------------------------------------------------------
(***************************************************************************)

\* Counting up from 0 in a set of numbers.
LEMMA CountingUp ==
    ASSUME NEW n \in Nat, NEW S, 0 \in S, \A i \in 1 .. n : i - 1 \in S => i \in S
    PROVE  0 .. n \subseteq S
  <1> DEFINE Left == (0 .. n) \ S
  <1>1. ASSUME Left # {} PROVE FALSE
    <2>1. Left \in SUBSET Nat
      OBVIOUS
    <2>2. Min(Left) \in Left /\ \A y \in Left : Min(Left) <= y
      BY <1>1, <2>1, MinExists
    <2> DEFINE m == Min(Left)
    <2>3. m \in 1 .. n /\ m - 1 \in 0 .. n
      BY <2>2
    <2>4. m - 1 \notin Left
      BY <2>2, <2>3
    <2> QED
      BY <2>2, <2>3, <2>4
  <1> QED
    BY <1>1

\* f starts at first and goes on as g says.
StepFunctions(n, V) == [1 .. n -> [V -> V]]

Follows(f, n, V, first, g) ==
    /\ f \in [0 .. n -> V]
    /\ f[0] = first
    /\ \A i \in 1 .. n : f[i] = g[i][f[i - 1]]

\* A function may be defined step by step.
LEMMA StepByStep ==
    ASSUME NEW n \in Nat, NEW V, NEW first \in V, NEW g \in StepFunctions(n, V)
    PROVE  \E f : Follows(f, n, V, first, g)
  <1> USE DEF Follows, StepFunctions
  <1> DEFINE Defines(f, m) == Follows(f, m, V, first, g)
             S == {m \in 0 .. n : \E f : Defines(f, m)}
  <1>1. 0 \in S
    <2>1. Defines([i \in 0 .. 0 |-> first], 0)
      OBVIOUS
    <2>2. 0 \in 0 .. n
      OBVIOUS
    <2> HIDE DEF Defines
    <2> QED
      BY <2>1, <2>2
  <1>2. ASSUME NEW m \in 1 .. n, m - 1 \in S
        PROVE  m \in S
    <2>1. PICK f : Defines(f, m - 1)
      BY <1>2
    <2> DEFINE h == [i \in 0 .. m |-> IF i = m THEN g[m][f[m - 1]] ELSE f[i]]
    <2>2. f[m - 1] \in V /\ g[m] \in [V -> V]
      BY <2>1
    <2>3. \A i \in 0 .. m : i # m => i \in 0 .. m - 1
      OBVIOUS
    <2>4. h \in [0 .. m -> V] /\ h[0] = first
      BY <2>1, <2>2, <2>3
    <2>5. ASSUME NEW i \in 1 .. m
          PROVE  h[i] = g[i][h[i - 1]]
      <3>1. h[i - 1] = f[i - 1]
        BY <2>3
      <3>2. CASE i = m
        BY <3>1, <3>2
      <3>3. CASE i # m
        <4>1. i \in 1 .. m - 1 /\ h[i] = f[i]
          BY <3>3
        <4> QED
          BY <2>1, <3>1, <4>1
      <3> QED
        BY <3>2, <3>3
    <2> HIDE DEF h
    <2>6. Defines(h, m)
      BY <2>4, <2>5
    <2> QED
      BY <2>6
  <1> HIDE DEF S
  <1>3. 0 .. n \subseteq S
    BY <1>1, <1>2, CountingUp
  <1> QED
    BY <1>3 DEF S

-----------------------------------------------------------------------------
(* The two scans, position by position.                                      *)

Modes == {InString, InLine} \cup Nat

\* What the lexer does at one position.
LEMMA ModeSteps ==
    ASSUME NEW s \in Seq(Tokens)
    PROVE  /\ Mode(s) \in [0 .. Len(s) -> Modes]
           /\ Mode(s)[0] = InCode
           /\ \A i \in Positions(s) : Mode(s)[i] = After(Mode(s)[i - 1], s[i])
  <1> USE DEF InCode, InLine, InString
  <1> DEFINE n == Len(s)
             g == [i \in 1 .. n |-> [was \in Modes |-> After(was, s[i])]]
             step(f) == [i \in 0 .. n |-> IF i = 0 THEN 0 ELSE After(f[i - 1], s[i])]
  <1>1. g \in [1 .. n -> [Modes -> Modes]]
    <2>1. ASSUME NEW was \in Modes, NEW t PROVE After(was, t) \in Modes
      BY DEF Modes, After
    <2> QED
      BY <2>1
  <1>2. PICK f : Follows(f, n, Modes, 0, g)
    <2>1. n \in Nat /\ 0 \in Modes /\ g \in StepFunctions(n, Modes)
      BY <1>1 DEF StepFunctions, Modes
    <2> HIDE DEF g, n
    <2> QED
      BY <2>1, StepByStep
  <1>3. \A i \in 1 .. n : f[i] = After(f[i - 1], s[i])
    BY <1>2 DEF Follows
  <1>4. f = step(f)
    BY <1>2, <1>3 DEF Follows
  <1>5. Mode(s) = CHOOSE mode : mode = step(mode)
    BY DEF Mode
  <1>6. Mode(s) = step(Mode(s))
    <2> HIDE DEF step
    <2> QED
      BY <1>4, <1>5
  <1>7. /\ Mode(s)[0] = 0 /\ DOMAIN Mode(s) = 0 .. n
        /\ \A i \in 1 .. n : Mode(s)[i] = After(Mode(s)[i - 1], s[i])
    BY <1>6
  <1>8. \A i \in 0 .. n : Mode(s)[i] \in Modes
    <2> DEFINE S == {i \in 0 .. n : Mode(s)[i] \in Modes}
    <2>1. 0 \in S
      BY <1>7 DEF Modes
    <2>2. ASSUME NEW i \in 1 .. n, i - 1 \in S PROVE i \in S
      <3>1. Mode(s)[i] = After(Mode(s)[i - 1], s[i]) /\ Mode(s)[i - 1] \in Modes
        BY <1>7, <2>2
      <3>2. Mode(s)[i] \in Modes
        BY <3>1 DEF After, Modes
      <3> QED
        BY <3>2
    <2>3. n \in Nat
      OBVIOUS
    <2> HIDE DEF S, n
    <2>4. 0 .. n \subseteq S
      BY <2>1, <2>2, <2>3, CountingUp
    <2> QED
      BY <2>4 DEF S
  <1>9. Mode(s) = [i \in 0 .. n |-> Mode(s)[i]]
    BY <1>6
  <1> QED
    BY <1>7, <1>8, <1>9 DEF Positions

\* The same, of one position at a time.
LEMMA ModeAt ==
    ASSUME NEW s \in Seq(Tokens), NEW i \in Positions(s)
    PROVE  /\ i \in 1 .. Len(s) /\ Len(s) \in Nat /\ s[i] \in Tokens
           /\ Mode(s)[i - 1] \in Modes /\ Mode(s)[i] \in Modes
           /\ Mode(s)[i] = After(Mode(s)[i - 1], s[i])
  <1>1. i \in 1 .. Len(s) /\ Len(s) \in Nat
    BY DEF Positions
  <1>2. i \in 0 .. Len(s) /\ i - 1 \in 0 .. Len(s)
    BY <1>1
  <1> QED
    BY <1>1, <1>2, ModeSteps

\* And what the first substitution does there.
LEMMA SubstitutedSteps ==
    ASSUME NEW s \in Seq(Tokens)
    PROVE  /\ Substituted(s)[0] = FALSE
           /\ \A i \in Positions(s) :
                 Substituted(s)[i] <=> \/ Substituted(s)[i - 1] /\ s[i - 1] # "close"
                                       \/ s[i] = "open" /\ Closed(s, i)
  <1> DEFINE n == Len(s)
             next(was, i) == (was /\ s[i - 1] # "close") \/ (s[i] = "open" /\ Closed(s, i))
             g == [i \in 1 .. n |-> [was \in BOOLEAN |-> next(was, i)]]
             step(f) == [i \in 0 .. n |-> IF i = 0 THEN FALSE ELSE next(f[i - 1], i)]
  <1>0. \A was, i : next(was, i) \in BOOLEAN
    BY Zenon
  <1>1. g \in [1 .. n -> [BOOLEAN -> BOOLEAN]]
    <2> HIDE DEF next
    <2> QED
      BY <1>0, Zenon
  <1>2. PICK f : Follows(f, n, BOOLEAN, FALSE, g)
    <2>1. n \in Nat /\ FALSE \in BOOLEAN /\ g \in StepFunctions(n, BOOLEAN)
      BY <1>1 DEF StepFunctions
    <2> HIDE DEF g, n
    <2> QED
      BY <2>1, StepByStep
  <1>3. \A i \in 1 .. n : f[i] = next(f[i - 1], i)
    <2> TAKE i \in 1 .. n
    <2>1. i - 1 \in 0 .. n
      OBVIOUS
    <2>2. f[i - 1] \in BOOLEAN
      BY <1>2, <2>1, Zenon DEF Follows
    <2> HIDE DEF next
    <2> QED
      BY <1>2, <2>2, Zenon DEF Follows
  <1>4. f = step(f)
    <2>1. \A i \in 0 .. n : i # 0 => i \in 1 .. n
      OBVIOUS
    <2> HIDE DEF next
    <2> QED
      BY <1>2, <1>3, <2>1, Zenon DEF Follows
  <1>5. Substituted(s) = CHOOSE in : in = step(in)
    BY DEF Substituted
  <1>6. Substituted(s) = step(Substituted(s))
    <2> HIDE DEF step
    <2> QED
      BY <1>4, <1>5, Zenon
  <1>7. \A i \in 1 .. n : i \in 0 .. n /\ i # 0
    OBVIOUS
  <1>8. \A i \in 1 .. n : Substituted(s)[i] = next(Substituted(s)[i - 1], i)
    <2> HIDE DEF next
    <2> QED
      BY <1>6, <1>7, Zenon
  <1>9. Substituted(s)[0] = FALSE
    <2>1. 0 \in 0 .. n
      OBVIOUS
    <2> HIDE DEF next
    <2> QED
      BY <1>6, <2>1, Zenon
  <1> QED
    BY <1>8, <1>9, Zenon DEF Positions

-----------------------------------------------------------------------------
(* StrippingIsLexing: what is left.                                          *)

\* What is plain is a beginning of the file.
LEMMA PlainBegins ==
    ASSUME NEW s \in Seq(Tokens), NEW i \in Plain(s)
    PROVE  /\ i \in Positions(s) /\ Ends(s)
           /\ i # 1 => i - 1 \in Plain(s)
           /\ s[i] = "open" => Mode(s)[i - 1] = InCode
           /\ s[i] = "line" => Mode(s)[i - 1] # InString
  <1>1. i \in Positions(s) /\ Ends(s) /\ \A j \in Misleading(s) : i < j
    BY DEF Plain
  <1>2. i \in 1 .. Len(s) /\ Len(s) \in Nat
    BY <1>1, ModeAt
  <1>3. i # 1 => i - 1 \in Plain(s)
    <2>1. \A j \in Misleading(s) : j \in Int
      BY DEF Misleading, Positions
    <2>2. \A j \in Misleading(s) : i - 1 < j
      BY <1>1, <1>2, <2>1
    <2> QED
      BY <1>1, <1>2, <2>2 DEF Plain, Positions
  <1>4. i \notin Misleading(s)
    BY <1>1, <1>2
  <1> QED
    BY <1>1, <1>3, <1>4 DEF Misleading

\* In a file whose comments are closed, a block comment entered ends.
LEMMA BlocksEnd ==
    ASSUME NEW s \in Seq(Tokens), Ends(s), NEW i \in Positions(s), Mode(s)[i] > 0
    PROVE  Closed(s, i)
  <1> DEFINE n == Len(s)
             S == {k \in 0 .. n : k >= i => Mode(s)[k] > 0}
  <1>1. SUFFICES ASSUME ~Closed(s, i) PROVE FALSE
    OBVIOUS
  <1>2. n \in Nat /\ i \in 1 .. n
    BY DEF Positions
  <1>3. 0 \in S
    BY <1>2
  <1>4. ASSUME NEW k \in 1 .. n, k - 1 \in S PROVE k \in S
    <2>1. CASE k < i
      BY <2>1, <1>2
    <2>2. CASE k = i
      BY <2>2, <1>2
    <2>3. CASE k > i
      <3>1. k \in Positions(s) /\ s[k] # "close"
        BY <1>1, <1>2, <2>3 DEF Closed, Positions
      <3>2. Mode(s)[k - 1] > 0
        BY <1>2, <1>4, <2>3
      <3>3. Mode(s)[k - 1] \in Modes /\ Mode(s)[k] = After(Mode(s)[k - 1], s[k])
        BY <3>1, ModeAt
      <3>4. Mode(s)[k] > 0
        BY <3>1, <3>2, <3>3 DEF After, Modes, InCode, InLine, InString
      <3> QED
        BY <3>4
    <2> QED
      BY <1>2, <2>1, <2>2, <2>3
  <1> HIDE DEF S, n
  <1>5. 0 .. n \subseteq S
    BY <1>2, <1>3, <1>4, CountingUp
  <1>6. n \in S
    BY <1>2, <1>5
  <1>7. n \in 0 .. n /\ Mode(s)[n] \in Modes
    BY <1>2, ModeSteps DEF n
  <1>8. ~(Mode(s)[n] > 0)
    BY <1>7 DEF Ends, n, Modes, InLine, InString
  <1> QED
    BY <1>2, <1>6, <1>8 DEF S

\* No comment that is plain holds another.
LEMMA BlocksAreShallow ==
    ASSUME NEW s \in Seq(Tokens), NEW k \in Plain(s)
    PROVE  Mode(s)[k] <= 1 /\ Mode(s)[k - 1] <= 1
  <1> USE DEF InCode, InLine, InString
  <1> DEFINE n == Len(s)
             S == {i \in 0 .. n : i = 0 \/ i \in Plain(s) => Mode(s)[i] <= 1}
  <1>1. n \in Nat /\ Positions(s) = 1 .. n
    BY DEF Positions
  <1>2. 0 \in S
    BY <1>1, ModeSteps
  <1>3. ASSUME NEW i \in 1 .. n, i - 1 \in S PROVE i \in S
    <2> SUFFICES ASSUME i \in Plain(s) PROVE Mode(s)[i] <= 1
      BY <1>1
    <2>1. Mode(s)[i - 1] \in Modes /\ Mode(s)[i] = After(Mode(s)[i - 1], s[i])
      BY <1>1, ModeAt
    <2>2. /\ s[i] = "open" => Mode(s)[i - 1] = 0
          /\ i # 1 => i - 1 \in Plain(s)
      BY PlainBegins
    <2>3. Mode(s)[i - 1] <= 1
      BY <1>1, <1>3, <2>2
    <2> QED
      BY <2>1, <2>2, <2>3 DEF After, Modes
  <1> HIDE DEF S, n
  <1>4. 0 .. n \subseteq S
    BY <1>1, <1>2, <1>3, CountingUp
  <1>5. k \in 1 .. n /\ k \in 0 .. n /\ k - 1 \in 0 .. n /\ (k # 1 => k - 1 \in Plain(s))
    BY <1>1, PlainBegins
  <1>6. k \in S /\ k - 1 \in S
    BY <1>4, <1>5
  <1> QED
    BY <1>1, <1>5, <1>6 DEF S

\* The first substitution takes the block comments, their ends included.
LEMMA BlocksAreTaken ==
    ASSUME NEW s \in Seq(Tokens), NEW k \in Plain(s)
    PROVE  Substituted(s)[k] <=> (Mode(s)[k - 1] > 0 \/ s[k] = "open")
  <1> USE DEF InCode, InLine, InString
  <1> DEFINE n == Len(s)
             Taken(i) == Substituted(s)[i] <=> (Mode(s)[i - 1] > 0 \/ s[i] = "open")
             S == {i \in 0 .. n : i \in Plain(s) => Taken(i)}
  <1>1. n \in Nat /\ Positions(s) = 1 .. n
    BY DEF Positions
  <1>2. 0 \in S
    BY <1>1, PlainBegins
  <1>3. ASSUME NEW i \in 1 .. n, i - 1 \in S PROVE i \in S
    <2> SUFFICES ASSUME i \in Plain(s) PROVE Taken(i)
      OBVIOUS
    <2>1. /\ Substituted(s)[0] = FALSE /\ Mode(s)[0] = 0
          /\ Substituted(s)[i] <=> ((Substituted(s)[i - 1] /\ s[i - 1] # "close")
                                      \/ (s[i] = "open" /\ Closed(s, i)))
      BY <1>1, SubstitutedSteps, ModeSteps
    <2>2. /\ Ends(s) /\ (s[i] = "open" => Mode(s)[i - 1] = 0)
          /\ i # 1 => i - 1 \in Plain(s)
      BY PlainBegins
    <2>3. Mode(s)[i - 1] \in Modes /\ Mode(s)[i] = After(Mode(s)[i - 1], s[i])
      BY <1>1, ModeAt
    <2>4. s[i] = "open" => Closed(s, i)
      <3>1. HAVE s[i] = "open"
      <3>2. Mode(s)[i] > 0
        BY <2>2, <2>3, <3>1 DEF After
      <3> QED
        BY <1>1, <2>2, <3>2, BlocksEnd
    <2>5. (Substituted(s)[i - 1] /\ s[i - 1] # "close") <=> Mode(s)[i - 1] > 0
      <3>1. CASE i = 1
        BY <2>1, <3>1
      <3>2. CASE i # 1
        <4>1. i - 1 \in 1 .. n /\ i - 1 \in Plain(s)
          BY <1>1, <2>2, <3>2
        <4>2. Taken(i - 1)
          BY <1>3, <4>1
        <4>3. /\ Mode(s)[(i - 1) - 1] \in Modes
              /\ Mode(s)[i - 1] = After(Mode(s)[(i - 1) - 1], s[i - 1])
          BY <1>1, <4>1, ModeAt
        <4>4. s[i - 1] = "open" => Mode(s)[(i - 1) - 1] = 0
          BY <4>1, PlainBegins
        <4>5. Mode(s)[(i - 1) - 1] <= 1
          BY <4>1, BlocksAreShallow
        <4>6. CASE Mode(s)[(i - 1) - 1] > 0
          <5>1. s[i - 1] # "open" /\ Substituted(s)[i - 1]
            BY <4>2, <4>4, <4>6
          <5>2. s[i - 1] # "close" => Mode(s)[i - 1] = Mode(s)[(i - 1) - 1]
            BY <4>3, <4>6, <5>1 DEF After, Modes
          <5>3. s[i - 1] = "close" => Mode(s)[i - 1] = Mode(s)[(i - 1) - 1] - 1
            BY <4>3, <4>6 DEF After, Modes
          <5> QED
            BY <4>2, <4>3, <4>5, <4>6, <5>1, <5>2, <5>3 DEF Modes
        <4>7. CASE ~(Mode(s)[(i - 1) - 1] > 0)
          <5>1. Mode(s)[i - 1] > 0 <=> s[i - 1] = "open"
            BY <4>3, <4>4, <4>7 DEF After, Modes
          <5> QED
            BY <4>2, <4>7, <5>1
        <4> QED
          BY <4>6, <4>7
      <3> QED
        BY <3>1, <3>2
    <2> QED
      BY <2>1, <2>4, <2>5
  <1> HIDE DEF S, n, Taken
  <1>4. 0 .. n \subseteq S
    BY <1>1, <1>2, <1>3, CountingUp
  <1>5. k \in Positions(s)
    BY PlainBegins
  <1>6. Taken(k)
    BY <1>1, <1>4, <1>5 DEF S
  <1> QED
    BY <1>6 DEF Taken

\* What the second substitution then takes: the line comments.
LEMMA LinesAreTaken ==
    ASSUME NEW s \in Seq(Tokens), NEW k \in Plain(s)
    PROVE  Mode(s)[k] = InLine <=>
             \E j \in StrippedBlocks(s) :
                /\ s[j] = "line" /\ j <= k
                /\ \A m \in StrippedBlocks(s) : j < m /\ m <= k => s[m] # "nl"
  <1> USE DEF InCode, InLine, InString
  <1> DEFINE n == Len(s)
             left == StrippedBlocks(s)
             Open(j, i) == /\ s[j] = "line" /\ j <= i
                           /\ \A m \in left : j < m /\ m <= i => s[m] # "nl"
             Taken(i) == Mode(s)[i] = -1 <=> \E j \in left : Open(j, i)
             S == {i \in 0 .. n : i = 0 \/ i \in Plain(s) => Taken(i)}
  <1>1. n \in Nat /\ Positions(s) = 1 .. n
    BY DEF Positions
  <1>2. left \subseteq 1 .. n /\ \A i \in left : i \in Int
    BY <1>1 DEF StrippedBlocks
  <1>3. \A i \in Plain(s) : i \in left <=> ~(Mode(s)[i - 1] > 0 \/ s[i] = "open")
    BY <1>1, BlocksAreTaken, PlainBegins DEF StrippedBlocks, InBlock
  <1> HIDE DEF left
  <1>4. 0 \in S
    <2>1. Mode(s)[0] = 0 /\ \A j \in left : ~Open(j, 0)
      BY <1>1, <1>2, ModeSteps
    <2> QED
      BY <1>1, <2>1
  <1>5. ASSUME NEW i \in 1 .. n, i - 1 \in S PROVE i \in S
    <2> SUFFICES ASSUME i \in Plain(s) PROVE Taken(i)
      BY <1>1
    <2>1. /\ Mode(s)[i - 1] \in Modes /\ Mode(s)[i] = After(Mode(s)[i - 1], s[i])
      BY <1>1, ModeAt
    <2>2. /\ s[i] = "open" => Mode(s)[i - 1] = 0
          /\ s[i] = "line" => Mode(s)[i - 1] # -2
          /\ i # 1 => i - 1 \in Plain(s)
      BY PlainBegins
    <2>3. i \in left <=> ~(Mode(s)[i - 1] > 0 \/ s[i] = "open")
      BY <1>3
    <2>4. Taken(i - 1)
      BY <1>1, <1>5, <2>2
    <2>5. CASE s[i] = "line" /\ i \in left
      <3>1. Mode(s)[i] = -1
        BY <2>1, <2>2, <2>3, <2>5 DEF After, Modes
      <3>2. Open(i, i)
        BY <1>2, <2>5
      <3> QED
        BY <2>5, <3>1, <3>2
    <2>6. CASE s[i] = "nl" /\ i \in left
      <3>1. Mode(s)[i] # -1
        BY <2>1, <2>6 DEF After, Modes
      <3>2. \A j \in left : ~Open(j, i)
        <4> SUFFICES ASSUME NEW j \in left, Open(j, i) PROVE FALSE
          OBVIOUS
        <4>1. j # i /\ j < i
          BY <1>2, <2>6
        <4> QED
          BY <2>6, <4>1
      <3> QED
        BY <3>1, <3>2
    <2>7. CASE ~(s[i] = "line" /\ i \in left) /\ ~(s[i] = "nl" /\ i \in left)
      <3>1. \A j \in left : Open(j, i) <=> Open(j, i - 1)
        BY <1>2, <2>7
      <3>2. Mode(s)[i] = -1 <=> Mode(s)[i - 1] = -1
        BY <2>1, <2>2, <2>3, <2>7 DEF After, Modes
      <3> QED
        BY <2>4, <3>1, <3>2
    <2> QED
      BY <2>5, <2>6, <2>7
  <1> HIDE DEF S, n, Taken
  <1>6. 0 .. n \subseteq S
    BY <1>1, <1>4, <1>5, CountingUp
  <1>7. k \in Positions(s)
    BY PlainBegins
  <1>8. Taken(k)
    BY <1>1, <1>6, <1>7 DEF S
  <1> QED
    BY <1>8 DEF Taken, left

\* Both substitutions together leave what is in no comment.
LEMMA Lexes ==
    ASSUME NEW s \in Seq(Tokens), NEW i \in Plain(s)
    PROVE  i \in Stripped(s) <=> i \in Uncommented(s)
  <1> USE DEF InCode, InLine, InString
  <1> DEFINE left == StrippedBlocks(s)
             Clear == \A j \in At(s, left, "line") :
                         j <= i => At(s, Between(left, j, i), "nl") # {}
  <1>1. i \in Positions(s) /\ Mode(s)[i - 1] \in Modes
        /\ Mode(s)[i] = After(Mode(s)[i - 1], s[i]) /\ i \in 1 .. Len(s)
    BY PlainBegins, ModeAt
  <1>2. i \in Stripped(s) <=> i \in left /\ (s[i] = "nl" \/ Clear)
    BY DEF Stripped, StrippedBlocks
  <1>3. i \in left <=> ~(Mode(s)[i - 1] > 0 \/ s[i] = "open")
    BY <1>1, BlocksAreTaken DEF StrippedBlocks, InBlock
  <1>4. i \in Uncommented(s) <=> Mode(s)[i - 1] <= 0 /\ Mode(s)[i] \in {0, -2}
    BY <1>1 DEF Uncommented
  <1>5. CASE s[i] = "nl"
    BY <1>1, <1>2, <1>3, <1>4, <1>5 DEF Modes, After
  <1>6. CASE s[i] # "nl"
    <2>1. Clear <=> Mode(s)[i] # -1
      <3>1. left \subseteq 1 .. Len(s) /\ \A j \in left : j \in Int
        BY DEF StrippedBlocks, Positions
      <3>2. Mode(s)[i] = -1 <=>
               \E j \in left : /\ s[j] = "line" /\ j <= i
                               /\ \A m \in left : j < m /\ m <= i => s[m] # "nl"
        BY LinesAreTaken
      <3>3. ASSUME NEW j \in left
            PROVE  At(s, Between(left, j, i), "nl") = {} <=>
                      \A m \in left : j < m /\ m <= i => s[m] # "nl"
        BY <1>1, <1>6, <3>1 DEF At, Between
      <3> HIDE DEF left
      <3> QED
        BY <3>2, <3>3 DEF At
    <2> HIDE DEF left, Clear
    <2>2. s[i] = "open" => Mode(s)[i - 1] = 0
      BY PlainBegins
    <2> QED
      BY <1>1, <1>2, <1>3, <1>4, <1>6, <2>1, <2>2 DEF Modes, After
  <1> QED
    BY <1>5, <1>6

-----------------------------------------------------------------------------
(* Types.                                                                    *)

SourceTypes ==
    /\ text \in Seq(Tokens)
    /\ exempt \in BOOLEAN
    /\ elsewhere \in BOOLEAN
    /\ rows \in Seq(Row)

LEMMA SourceTypesHold == SourceSpec => []SourceTypes
  <1>1. SourceInit => SourceTypes
    <2>1. <<>> \in Seq(Tokens) /\ <<>> \in Seq(Row)
      OBVIOUS
    <2> QED
      BY <2>1 DEF SourceInit, SourceTypes
  <1>2. SourceTypes /\ [SourceNext]_sourceVars => SourceTypes'
    <2> SUFFICES ASSUME SourceTypes, [SourceNext]_sourceVars PROVE SourceTypes'
      OBVIOUS
    <2> USE DEF SourceTypes
    <2>1. ASSUME NEW t \in Tokens, WriteToken(t) PROVE SourceTypes'
      BY <2>1 DEF WriteToken
    <2>2. CASE CallElsewhere
      BY <2>2 DEF CallElsewhere
    <2>3. ASSUME NEW r \in Row, ResolveDependency(r) PROVE SourceTypes'
      BY <2>3 DEF ResolveDependency
    <2>4. CASE UNCHANGED sourceVars
      BY <2>4 DEF sourceVars
    <2> QED
      BY <2>1, <2>2, <2>3, <2>4 DEF SourceNext
  <1> QED
    BY <1>1, <1>2, PTL DEF SourceSpec

\* Positions are finitely many.
LEMMA FiniteCode ==
    ASSUME NEW s \in Seq(Tokens), NEW S \in SUBSET Positions(s)
    PROVE  /\ IsFiniteSet(S) /\ Cardinality(S) \in Nat
           /\ Cardinality(S) = 0 <=> S = {}
  <1>1. IsFiniteSet(Positions(s))
    BY FS_Interval DEF Positions
  <1>2. IsFiniteSet(S)
    BY <1>1, FS_Subset
  <1> QED
    BY <1>2, FS_CardinalityType, FS_EmptySet

LEMMA StrippedInside ==
    ASSUME NEW s \in Seq(Tokens)
    PROVE  Stripped(s) \subseteq Positions(s) /\ Positions(s) \subseteq 1 .. Len(s)
  BY DEF Stripped, Positions

\* A detector that passes found nothing in something.
LEMMA PassFoundNothing ==
    ASSUME NEW f \in Int, NEW n \in Int, DetectorStatus(Det(f, n)) = Pass
    PROVE  f <= 0 /\ n # 0
  BY DEF DetectorStatus, Det, Pass, Fail, NotMeasured

\* One that found something fails.
LEMMA FoundFails ==
    ASSUME NEW f \in Int, f > 0, NEW n
    PROVE  DetectorStatus(Det(f, n)) = Fail
  BY DEF DetectorStatus, Det

\* What stands where, after something is appended.
LEMMA Appended ==
    ASSUME NEW s \in Seq(Tokens), NEW tail \in Seq(Tokens)
    PROVE  /\ s \o tail \in Seq(Tokens)
           /\ Len(s \o tail) = Len(s) + Len(tail) /\ Len(s) \in Nat /\ Len(tail) \in Nat
           /\ \A i \in 1 .. Len(tail) : (s \o tail)[Len(s) + i] = tail[i]
  OBVIOUS

\* A block comment taken has its end ahead.
LEMMA TakenIsClosed ==
    ASSUME NEW s \in Seq(Tokens), NEW i \in Positions(s), Substituted(s)[i]
    PROVE  \E j \in Positions(s) : j >= i /\ s[j] = "close"
  <1> DEFINE n == Len(s)
             Closes(k) == \E j \in Positions(s) : j >= k /\ s[j] = "close"
             S == {k \in 0 .. n : k # 0 /\ Substituted(s)[k] => Closes(k)}
  <1>1. n \in Nat /\ Positions(s) = 1 .. n
    BY DEF Positions
  <1>2. 0 \in S
    BY <1>1
  <1>3. ASSUME NEW k \in 1 .. n, k - 1 \in S PROVE k \in S
    <2> SUFFICES ASSUME Substituted(s)[k] PROVE Closes(k)
      OBVIOUS
    <2>1. /\ Substituted(s)[0] = FALSE
          /\ \/ Substituted(s)[k - 1] /\ s[k - 1] # "close"
             \/ s[k] = "open" /\ Closed(s, k)
      BY <1>1, SubstitutedSteps
    <2>2. CASE Substituted(s)[k - 1] /\ s[k - 1] # "close"
      <3>1. k - 1 # 0
        BY <2>1, <2>2
      <3>2. PICK j \in Positions(s) : j >= k - 1 /\ s[j] = "close"
        BY <1>3, <2>2, <3>1
      <3>3. j # k - 1
        BY <2>2, <3>2
      <3>4. j >= k
        BY <1>1, <3>2, <3>3
      <3> QED
        BY <3>2, <3>4
    <2>3. CASE s[k] = "open" /\ Closed(s, k)
      BY <1>1, <2>3 DEF Closed
    <2> QED
      BY <2>1, <2>2, <2>3
  <1> HIDE DEF S, n, Closes
  <1>4. 0 .. n \subseteq S
    BY <1>1, <1>2, <1>3, CountingUp
  <1>5. i \in 0 .. n /\ i # 0
    BY <1>1
  <1> QED
    BY <1>4, <1>5 DEF S, Closes

\* What is appended on a line of its own, in no comment of its own, is left.
LEMMA PlantedIsLeft ==
    ASSUME NEW s \in Seq(Tokens), NEW tail \in Seq(Tokens),
           \A i \in 1 .. Len(tail) : tail[i] \notin {"open", "close"},
           NEW m \in 1 .. Len(tail), tail[m] = "nl",
           NEW k \in 1 .. Len(tail), m < k,
           \A i \in 1 .. Len(tail) : m < i => tail[i] # "line"
    PROVE  Len(s) + k \in Stripped(s \o tail)
  <1> DEFINE r == s \o tail
             n == Len(s)
             left == StrippedBlocks(r)
  <1>1. /\ r \in Seq(Tokens) /\ Len(r) = n + Len(tail) /\ n \in Nat /\ Len(tail) \in Nat
        /\ \A i \in 1 .. Len(tail) : r[n + i] = tail[i]
    BY Appended
  <1> HIDE DEF r, n
  <1>2. Positions(r) = 1 .. n + Len(tail)
    BY <1>1 DEF Positions
  <1>3. ASSUME NEW i \in Positions(r), i > n PROVE i \in left /\ r[i] = tail[i - n]
                                                  /\ i - n \in 1 .. Len(tail)
    <2>1. ASSUME NEW j \in Positions(r), j >= i PROVE r[j] # "close"
      <3>1. j - n \in 1 .. Len(tail) /\ j = n + (j - n)
        BY <1>1, <1>2, <1>3, <2>1
      <3>2. r[j] = tail[j - n]
        BY <1>1, <3>1
      <3> QED
        BY <3>1, <3>2
    <2>2. ~Substituted(r)[i]
      BY <1>1, <2>1, TakenIsClosed
    <2>3. i - n \in 1 .. Len(tail) /\ i = n + (i - n)
      BY <1>1, <1>2, <1>3
    <2>4. r[i] = tail[i - n]
      BY <1>1, <2>3
    <2> QED
      BY <2>2, <2>3, <2>4 DEF StrippedBlocks, InBlock
  <1>4. /\ n + k \in left /\ n + m \in left /\ r[n + m] = "nl" /\ n + m < n + k
        /\ left \subseteq Positions(r)
    <2>1. n + k \in Positions(r) /\ n + k > n /\ n + m \in Positions(r) /\ n + m > n
      BY <1>1, <1>2
    <2>2. r[n + m] = "nl"
      BY <1>1
    <2> QED
      BY <1>1, <1>3, <2>1, <2>2 DEF StrippedBlocks
  <1>5. ASSUME NEW j \in At(r, left, "line"), j <= n + k
        PROVE  At(r, Between(left, j, n + k), "nl") # {}
    <2>1. j \in Positions(r) /\ r[j] = "line"
      BY <1>4, <1>5 DEF At
    <2>2. ~(j > n + m)
      <3>1. SUFFICES ASSUME j > n + m PROVE FALSE
        OBVIOUS
      <3>2. j > n
        BY <1>1, <1>2, <2>1, <3>1
      <3>3. r[j] = tail[j - n] /\ j - n \in 1 .. Len(tail)
        BY <1>3, <2>1, <3>2
      <3>4. m < j - n
        BY <1>1, <1>2, <2>1, <3>1
      <3> QED
        BY <2>1, <3>3, <3>4
    <2>3. j < n + m
      BY <1>1, <1>2, <1>4, <2>1, <2>2
    <2>4. n + m \in At(r, Between(left, j, n + k), "nl")
      BY <1>4, <2>3 DEF At, Between
    <2> QED
      BY <2>4
  <1>6. n + k \in Stripped(r)
    <2>1. Stripped(r) = {i \in left : r[i] = "nl" \/
             \A j \in At(r, left, "line") : j <= i => At(r, Between(left, j, i), "nl") # {}}
      BY DEF Stripped, StrippedBlocks
    <2> QED
      BY <1>4, <1>5, <2>1
  <1> QED
    BY <1>6 DEF r, n

\* So the planted call is counted.
LEMMA PlantedIsCounted ==
    ASSUME NEW s \in Seq(Tokens), NEW at \in Stripped(s), s[at] = "call"
    PROVE  CallsLeft(s) \in Nat /\ CallsLeft(s) > 0
  <1>1. at \in At(s, Stripped(s), "call") /\ At(s, Stripped(s), "call") \in SUBSET Positions(s)
    BY StrippedInside DEF At
  <1> QED
    BY <1>1, FiniteCode DEF CallsLeft

\* And the planted call in a function of its own is not guarded.
LEMMA PlantedIsUnguarded ==
    ASSUME SourceTypes
    PROVE  DetectorStatus(CheckGuard(TRUE)) = Fail
  <1> DEFINE s == text \o GuardLeak
             n == Len(text)
             calls == At(s, Stripped(s), "call")
             files == Plus(calls # {}) + Plus(elsewhere)
             found == Cardinality(Unguarded(s)) + Plus(files > 1)
  <1>1. /\ GuardLeak \in Seq(Tokens) /\ Len(GuardLeak) = 3
        /\ GuardLeak[1] = "nl" /\ GuardLeak[2] = "privateFun" /\ GuardLeak[3] = "call"
    BY DEF GuardLeak, Tokens
  <1>2. /\ s \in Seq(Tokens) /\ Len(s) = n + 3 /\ n \in Nat
        /\ s[n + 2] = "privateFun" /\ s[n + 3] = "call"
    <2>1. 2 \in 1 .. Len(GuardLeak) /\ 3 \in 1 .. Len(GuardLeak) /\ text \in Seq(Tokens)
      BY <1>1 DEF SourceTypes
    <2>2. /\ s \in Seq(Tokens) /\ Len(s) = n + Len(GuardLeak) /\ n \in Nat
          /\ s[n + 2] = GuardLeak[2] /\ s[n + 3] = GuardLeak[3]
      BY <1>1, <2>1, Appended
    <2> QED
      BY <1>1, <2>2
  <1>3. n + 2 \in Stripped(s) /\ n + 3 \in Stripped(s)
    <2>1. \A i \in 1 .. Len(GuardLeak) : i = 1 \/ i = 2 \/ i = 3
      BY <1>1
    <2>2. /\ \A i \in 1 .. Len(GuardLeak) : GuardLeak[i] \notin {"open", "close", "line"}
          /\ 1 \in 1 .. Len(GuardLeak) /\ 2 \in 1 .. Len(GuardLeak)
          /\ 3 \in 1 .. Len(GuardLeak) /\ 1 < 2 /\ 1 < 3
      BY <1>1, <2>1
    <2> HIDE DEF n
    <2> QED
      BY <1>1, <2>2, PlantedIsLeft DEF SourceTypes, n
  <1> HIDE DEF s, n
  <1>4. n + 3 \in Unguarded(s)
    <2> DEFINE before == Between(Stripped(s), 0, n + 3)
               privates == At(s, before, "privateFun")
    <2>1. Stripped(s) \subseteq 1 .. n + 3
      BY <1>2, StrippedInside
    <2>2. n + 2 \in privates
      BY <1>2, <1>3 DEF At, Between
    <2>3. privates \in SUBSET (0 .. n + 3) /\ \A i \in privates : i < n + 3
      BY <1>2, <2>1 DEF At, Between
    <2> HIDE DEF before, privates
    <2>4. Max(privates) \in privates /\ \A y \in privates : y <= Max(privates)
      <3>1. n + 3 \in Nat /\ privates # {}
        BY <1>2, <2>2
      <3> QED
        BY <2>3, <3>1, MaxExists
    <2>5. Max(privates) = n + 2
      <3> DEFINE x == Max(privates)
      <3> HIDE DEF x
      <3>1. x \in 0 .. n + 3 /\ x < n + 3 /\ n + 2 <= x
        BY <2>2, <2>3, <2>4 DEF x
      <3>2. x = n + 2
        BY <1>2, <3>1
      <3> QED
        BY <3>2 DEF x
    <2>6. BodyStart(s, n + 3) = n + 2
      BY <2>2, <2>5 DEF BodyStart, privates, before
    <2>7. Between(Stripped(s), n + 2, n + 3) = {}
      BY <1>2, <2>1 DEF Between
    <2>8. At(s, Between(Stripped(s), BodyStart(s, n + 3), n + 3), "guard") = {}
      BY <2>6, <2>7 DEF At
    <2>9. n + 3 \in At(s, Stripped(s), "call")
      BY <1>2, <1>3 DEF At
    <2> QED
      BY <2>8, <2>9 DEF Unguarded
  <1>5. calls # {}
    BY <1>2, <1>3 DEF At
  <1>6. /\ Cardinality(Unguarded(s)) \in Nat /\ Cardinality(Unguarded(s)) # 0
    <2>1. Unguarded(s) \in SUBSET Positions(s)
      BY <1>2, StrippedInside DEF Unguarded, At
    <2> QED
      BY <1>2, <1>4, <2>1, FiniteCode
  <1>7. CheckGuard(TRUE) = IF files = 0 THEN Det(0, 0) ELSE Det(found, 2)
    BY DEF CheckGuard, With, s
  <1>8. files # 0 /\ found \in Int /\ found > 0
    <2>1. Plus(calls # {}) = 1 /\ Plus(elsewhere) \in {0, 1}
      BY <1>5 DEF Plus
    <2>2. Plus(files > 1) \in {0, 1}
      BY DEF Plus
    <2> HIDE DEF calls
    <2>3. files # 0
      BY <2>1
    <2> HIDE DEF files
    <2> QED
      BY <1>6, <2>2, <2>3
  <1> HIDE DEF files, found
  <1>9. CheckGuard(TRUE) = Det(found, 2)
    BY <1>7, <1>8
  <1> QED
    BY <1>8, <1>9, FoundFails

\* Up to what misleads them two substitutions see what a lexer sees, and they
\* always see what is planted.
THEOREM StrippingSeesCode == SourceSpec => []StrippingIsLexing
  <1>1. ASSUME SourceTypes PROVE StrippingIsLexing
    <2>1. Stripped(text) \cap Plain(text) = Uncommented(text) \cap Plain(text)
      BY <1>1, Lexes DEF SourceTypes
    <2>2. DetectorStatus(CheckSchema(TRUE)) = Fail /\ DetectorStatus(CheckDiagnostics(TRUE)) = Fail
      <3> DEFINE s == text \o SchemaLeak
                 n == Len(text)
      <3>1. /\ SchemaLeak \in Seq(Tokens) /\ Len(SchemaLeak) = 3
            /\ SchemaLeak[1] = "nl" /\ SchemaLeak[2] = "fun" /\ SchemaLeak[3] = "call"
        BY DEF SchemaLeak, Tokens
      <3>2. s \in Seq(Tokens) /\ s[n + 3] = "call"
        <4>1. 3 \in 1 .. Len(SchemaLeak) /\ text \in Seq(Tokens)
          BY <1>1, <3>1 DEF SourceTypes
        <4>2. s \in Seq(Tokens) /\ s[n + 3] = SchemaLeak[3]
          BY <3>1, <4>1, Appended
        <4> QED
          BY <3>1, <4>2
      <3>3. \A i \in 1 .. Len(SchemaLeak) : i = 1 \/ i = 2 \/ i = 3
        BY <3>1
      <3>4. /\ \A i \in 1 .. Len(SchemaLeak) : SchemaLeak[i] \notin {"open", "close", "line"}
            /\ 1 \in 1 .. Len(SchemaLeak) /\ 3 \in 1 .. Len(SchemaLeak) /\ 1 < 3
        BY <3>1, <3>3
      <3>5. n + 3 \in Stripped(s)
        BY <1>1, <3>1, <3>4, PlantedIsLeft DEF SourceTypes
      <3> HIDE DEF s, n
      <3>6. CallsLeft(s) \in Int /\ CallsLeft(s) > 0
        BY <3>2, <3>5, PlantedIsCounted
      <3>7. With(TRUE, SchemaLeak) = s
        BY DEF With, s
      <3> QED
        BY <3>6, <3>7, FoundFails DEF CheckSchema, CheckDiagnostics
    <2>3. DetectorStatus(ScanWithdrawn(TRUE)) = Fail
      <3> DEFINE leak == <<"nl", "line", "nl", "call">>
                 s == text \o leak
                 n == Len(text)
      <3>1. /\ leak \in Seq(Tokens) /\ Len(leak) = 4 /\ leak[1] = "nl"
            /\ leak[2] = "line" /\ leak[3] = "nl" /\ leak[4] = "call"
        BY DEF Tokens
      <3>2. With(TRUE, leak) = s
        BY DEF With
      <3>3. ScanWithdrawn(TRUE) = Det(CallsLeft(With(TRUE, leak)), 1)
        BY DEF ScanWithdrawn
      <3> HIDE DEF leak
      <3>4. s \in Seq(Tokens) /\ s[n + 4] = "call"
        <4>1. 4 \in 1 .. Len(leak) /\ text \in Seq(Tokens)
          BY <1>1, <3>1 DEF SourceTypes
        <4>2. s \in Seq(Tokens) /\ s[n + 4] = leak[4]
          BY <3>1, <4>1, Appended
        <4> QED
          BY <3>1, <4>2
      <3>5. \A i \in 1 .. Len(leak) : i = 1 \/ i = 2 \/ i = 3 \/ i = 4
        BY <3>1
      <3>6. /\ \A i \in 1 .. Len(leak) : leak[i] \notin {"open", "close"}
            /\ \A i \in 1 .. Len(leak) : 3 < i => leak[i] # "line"
            /\ 3 \in 1 .. Len(leak) /\ 4 \in 1 .. Len(leak) /\ 3 < 4
        BY <3>1, <3>5
      <3>7. n + 4 \in Stripped(s)
        BY <1>1, <3>1, <3>6, PlantedIsLeft DEF SourceTypes
      <3> HIDE DEF s, n
      <3>8. CallsLeft(s) \in Int /\ CallsLeft(s) > 0
        BY <3>4, <3>7, PlantedIsCounted
      <3> QED
        BY <3>2, <3>3, <3>8, FoundFails
    <2> QED
      BY <1>1, <2>1, <2>2, <2>3, PlantedIsUnguarded DEF StrippingIsLexing
  <1> QED
    BY <1>1, SourceTypesHold, PTL

-----------------------------------------------------------------------------
(* CallsAreGuarded.                                                          *)

\* What a content guard detector says of the file.
LEMMA ContentGuard ==
    ASSUME SourceTypes, DetectorStatus(CheckGuard(FALSE)) = Pass
    PROVE  /\ Unguarded(text) = {}
           /\ ~(elsewhere /\ At(text, Stripped(text), "call") # {})
  <1> DEFINE calls == At(text, Stripped(text), "call")
             files == Plus(calls # {}) + Plus(elsewhere)
             found == Cardinality(Unguarded(text)) + Plus(files > 1)
  <1>1. CheckGuard(FALSE) = IF files = 0 THEN Det(0, 0) ELSE Det(found, 2)
    <2>1. With(FALSE, GuardLeak) = text
      BY DEF With
    <2> QED
      BY <2>1, Zenon DEF CheckGuard
  <1>2. files # 0 /\ DetectorStatus(Det(found, 2)) = Pass
    <2>1. DetectorStatus(Det(0, 0)) # Pass
      BY PassFoundNothing
    <2> HIDE DEF files, found
    <2> QED
      BY <1>1, <2>1, Zenon
  <1>3. Unguarded(text) \in SUBSET Positions(text)
    BY StrippedInside DEF SourceTypes, Unguarded, At
  <1>4. /\ Cardinality(Unguarded(text)) \in Nat
        /\ Cardinality(Unguarded(text)) = 0 <=> Unguarded(text) = {}
    BY <1>3, FiniteCode DEF SourceTypes
  <1>5. /\ Plus(calls # {}) \in {0, 1} /\ (Plus(calls # {}) = 1 <=> calls # {})
        /\ Plus(elsewhere) \in {0, 1} /\ (Plus(elsewhere) = 1 <=> elsewhere)
        /\ Plus(files > 1) \in {0, 1} /\ (Plus(files > 1) = 1 <=> files > 1)
    BY DEF Plus, SourceTypes
  <1>6. found <= 0
    <2>1. found \in Int
      BY <1>4, <1>5
    <2> HIDE DEF found
    <2> QED
      BY <1>2, <2>1, PassFoundNothing
  <1>7. Cardinality(Unguarded(text)) = 0 /\ Plus(files > 1) = 0
    <2> DEFINE c == Cardinality(Unguarded(text))
               p == Plus(files > 1)
    <2>1. c \in Nat /\ p \in {0, 1} /\ c + p <= 0
      BY <1>4, <1>5, <1>6
    <2> HIDE DEF c, p
    <2>2. c = 0 /\ p = 0
      BY <2>1
    <2> QED
      BY <2>2 DEF c, p
  <1>8. ~(elsewhere /\ calls # {})
    <2> HIDE DEF calls
    <2> QED
      BY <1>5, <1>7
  <1> QED
    BY <1>4, <1>7, <1>8

\* What stands before a plain position is plain.
LEMMA PlainBefore ==
    ASSUME NEW s \in Seq(Tokens), NEW at \in Plain(s)
    PROVE  Between(Stripped(s), 0, at) = Between(Uncommented(s), 0, at)
  <1>1. ASSUME NEW i \in Positions(s), i < at PROVE i \in Plain(s)
    <2>1. \A j \in Misleading(s) : j \in Int /\ at < j
      BY DEF Plain, Misleading, Positions
    <2>2. at \in Int /\ i \in Int
      BY DEF Plain, Positions
    <2>3. \A j \in Misleading(s) : i < j
      BY <1>1, <2>1, <2>2
    <2> QED
      BY <2>3 DEF Plain
  <1>2. Stripped(s) \subseteq Positions(s) /\ Uncommented(s) \subseteq Positions(s)
    BY StrippedInside DEF Uncommented
  <1>3. ASSUME NEW i, i < at PROVE i \in Stripped(s) <=> i \in Uncommented(s)
    BY <1>1, <1>2, <1>3, Lexes
  <1> QED
    BY <1>3 DEF Between

\* The heads of functions before a call.
Heads(s, S, at) == {i \in Between(S, 0, at) : s[i] \in {"fun", "privateFun"}}

\* The detector starts where the function around the call starts, when the head
\* of that function is private or none before it is.
LEMMA BodyStartsAtHead ==
  ASSUME NEW s, NEW at, NEW n \in Nat, Stripped(s) \subseteq 1 .. n,
         NEW heads, heads = Heads(s, Stripped(s), at), heads # {},
         NEW privates, privates = At(s, heads, "privateFun"),
         privates = {} \/ Max(heads) \in privates
  PROVE  BodyStart(s, at) = Max(heads)
  <1> DEFINE before(t) == At(s, Between(Stripped(s), 0, at), t)
  <1>1. /\ before("privateFun") = privates
        /\ privates = {} => before("fun") = heads
    BY Zenon DEF At, Heads
  <1>2. BodyStart(s, at) = IF before("privateFun") # {} THEN Max(before("privateFun"))
                           ELSE IF before("fun") # {} THEN Max(before("fun")) ELSE 0
    BY DEF BodyStart
  <1> HIDE DEF before
  <1>3. CASE privates = {}
    BY <1>1, <1>2, <1>3
  <1>4. CASE Max(heads) \in privates
    <2>1. BodyStart(s, at) = Max(privates)
      BY <1>1, <1>2, <1>4
    <2>2. heads \in SUBSET (0 .. n) /\ privates \in SUBSET (0 .. n)
      <3>1. \A i \in Stripped(s) : i \in 0 .. n
        OBVIOUS
      <3>2. heads \subseteq Stripped(s) /\ privates \subseteq heads
        BY Zenon DEF Between, At, Heads
      <3> QED
        BY <3>1, <3>2
    <2>3. privates \subseteq heads
      BY Zenon DEF At
    <2>4. Max(heads) \in heads /\ \A y \in heads : y <= Max(heads)
      BY <2>2, MaxExists
    <2>5. Max(privates) \in privates /\ \A y \in privates : y <= Max(privates)
      BY <1>4, <2>2, MaxExists
    <2> DEFINE p == Max(privates)
               h == Max(heads)
    <2>6. p \in heads /\ h \in privates
      BY <1>4, <2>3, <2>5
    <2>7. p <= h /\ h <= p /\ p \in 0 .. n /\ h \in 0 .. n
      BY <2>2, <2>4, <2>5, <2>6
    <2> HIDE DEF p, h
    <2>8. p \in Int /\ h \in Int
      BY <2>7
    <2>9. p = h
      BY <2>7, <2>8
    <2> QED
      BY <2>1, <2>9 DEF p, h
  <1> QED
    BY <1>3, <1>4

\* When the guard detector is content a learning call is guarded in its function,
\* and no other file learns.
THEOREM ContentMeansGuarded == SourceSpec => []CallsAreGuarded
  <1>1. ASSUME SourceTypes PROVE CallsAreGuarded
    <2> SUFFICES ASSUME DetectorStatus(CheckGuard(FALSE)) = Pass,
                        NEW at \in At(text, Uncommented(text) \cap Plain(text), "call")
                 PROVE  /\ ~elsewhere
                        /\ LET heads    == HeadsBefore(text, at, {"fun", "privateFun"})
                               privates == HeadsBefore(text, at, {"privateFun"})
                           IN  heads # {} /\ (privates = {} \/ Max(heads) \in privates) =>
                                  GuardedInItsFunction(text, at)
      BY DEF CallsAreGuarded
    <2>1. Unguarded(text) = {} /\ ~(elsewhere /\ At(text, Stripped(text), "call") # {})
      BY <1>1, ContentGuard
    <2>2. at \in Plain(text) /\ text \in Seq(Tokens) /\ at \in At(text, Stripped(text), "call")
      BY <1>1, Lexes DEF At, SourceTypes
    <2>3. ~elsewhere
      BY <2>1, <2>2
    <2>4. Between(Stripped(text), 0, at) = Between(Uncommented(text), 0, at)
      BY <2>2, PlainBefore
    <2> DEFINE heads == HeadsBefore(text, at, {"fun", "privateFun"})
               privates == HeadsBefore(text, at, {"privateFun"})
    <2>5. ASSUME heads # {}, privates = {} \/ Max(heads) \in privates
          PROVE  GuardedInItsFunction(text, at)
      <3>1. Len(text) \in Nat /\ Stripped(text) \subseteq 1 .. Len(text)
        BY <1>1, StrippedInside DEF SourceTypes
      <3>2. heads = Heads(text, Stripped(text), at) /\ privates = At(text, heads, "privateFun")
        BY <2>4, Zenon DEF HeadsBefore, Heads, At
      <3> HIDE DEF heads, privates
      <3>3. BodyStart(text, at) = Max(heads)
        BY <2>5, <3>1, <3>2, BodyStartsAtHead
      <3>4. Max(heads) \in Nat
        <4>1. \A i \in Stripped(text) : i \in 0 .. Len(text)
          BY <3>1
        <4>2. heads \subseteq Stripped(text)
          BY <3>2, Zenon DEF Heads, Between
        <4>3. heads \in SUBSET (0 .. Len(text))
          BY <4>1, <4>2
        <4>4. heads # {}
          BY <2>5 DEF heads
        <4>5. Max(heads) \in heads
          BY <3>1, <4>3, <4>4, MaxExists
        <4> DEFINE h == Max(heads)
        <4>6. h \in heads
          BY <4>5
        <4> HIDE DEF h
        <4>7. h \in Nat
          BY <3>1, <4>3, <4>6
        <4> QED
          BY <4>7 DEF h
      <3>5. PICK g \in Between(Stripped(text), Max(heads), at) : text[g] = "guard"
        BY <2>1, <2>2, <3>3 DEF Unguarded, At
      <3>6. g \in Stripped(text) /\ Max(heads) < g /\ g < at /\ 0 < g
        BY <3>1, <3>4, <3>5 DEF Between
      <3>7. g \in Between(Uncommented(text), Max(heads), at)
        BY <2>4, <3>6, Zenon DEF Between
      <3> QED
        BY <3>5, <3>7 DEF GuardedInItsFunction, heads
    <2> QED
      BY <2>3, <2>5
  <1> QED
    BY <1>1, SourceTypesHold, PTL

-----------------------------------------------------------------------------
(* NothingForbiddenSlips.                                                    *)

\* A position's line begins after the last newline before it.
LEMMA LineStarts ==
    ASSUME NEW s \in Seq(Tokens), NEW i \in Positions(s)
    PROVE  LET L == LineStart(s, i)
           IN  /\ L \in Nat /\ L < i
               /\ L # 0 => s[L] = "nl"
               /\ \A k \in Positions(s) : L < k /\ k < i => s[k] # "nl"
  <1> DEFINE n == Len(s)
             news == {0} \cup At(s, Between(Positions(s), 0, i), "nl")
             L == Max(news)
  <1>1. n \in Nat /\ Positions(s) = 1 .. n
    BY DEF Positions
  <1>2. news = {0} \cup {k \in 1 .. n : k < i /\ s[k] = "nl"}
    BY <1>1 DEF At, Between
  <1>3. news \in SUBSET (0 .. n) /\ news # {}
    BY <1>1, <1>2
  <1> HIDE DEF news, n
  <1>4. L \in news /\ \A y \in news : y <= L
    BY <1>1, <1>3, MaxExists
  <1> HIDE DEF L
  <1>5. L \in Nat /\ i \in 1 .. n
    BY <1>1, <1>3, <1>4
  <1>6. L < i /\ (L # 0 => s[L] = "nl")
    BY <1>1, <1>2, <1>4, <1>5
  <1>7. ASSUME NEW k \in Positions(s), L < k, k < i PROVE s[k] # "nl"
    <2>1. CASE s[k] = "nl"
      <3>1. k \in news
        BY <1>1, <1>2, <1>7, <2>1
      <3> QED
        BY <1>1, <1>4, <1>5, <1>7, <3>1
    <2> QED
      BY <2>1
  <1>8. LineStart(s, i) = L
    BY DEF LineStart, L, news
  <1> QED
    BY <1>5, <1>6, <1>7, <1>8

\* What follows "//" on its line is a comment, when the line begins in code.
LEMMA CommentToLineEnd ==
    ASSUME NEW s \in Seq(Tokens), NEW h \in Positions(s), s[h] = "line",
           Mode(s)[h - 1] = InCode, NEW i \in Positions(s), h < i,
           \A k \in Positions(s) : h < k /\ k < i => s[k] # "nl"
    PROVE  Mode(s)[i - 1] = InLine
  <1> USE DEF InCode, InLine, InString
  <1> DEFINE n == Len(s)
             S == {k \in 0 .. n : h <= k /\ k < i => Mode(s)[k] = InLine}
  <1>1. n \in Nat /\ Positions(s) = 1 .. n
    BY DEF Positions
  <1>2. 0 \in S
    BY <1>1
  <1>3. ASSUME NEW k \in 1 .. n, k - 1 \in S PROVE k \in S
    <2>1. Mode(s)[k] = After(Mode(s)[k - 1], s[k])
      BY <1>1, ModeSteps
    <2>2. CASE k = h
      BY <2>1, <2>2 DEF After
    <2>3. CASE h < k /\ k < i
      <3>1. Mode(s)[k - 1] = InLine
        BY <1>1, <1>3, <2>3
      <3>2. s[k] # "nl"
        BY <1>1, <2>3
      <3> QED
        BY <2>1, <3>1, <3>2 DEF After
    <2> QED
      BY <1>1, <2>2, <2>3
  <1> HIDE DEF S, n
  <1>4. 0 .. n \subseteq S
    BY <1>1, <1>2, <1>3, CountingUp
  <1>5. i - 1 \in S /\ h <= i - 1 /\ i - 1 < i
    BY <1>1, <1>4
  <1> QED
    BY <1>5 DEF S

\* A marker on the line of a call excuses it.
LEMMA MarkersExcuse ==
    ASSUME NEW s \in Seq(Tokens), NEW i \in Positions(s), Suppressed(s, i)
    PROVE  Excused(s, i)
  <1> DEFINE L == LineStart(s, i)
  <1>1. Positions(s) = 1 .. Len(s) /\ Len(s) \in Nat
    BY DEF Positions
  <1>2. PICK j \in Positions(s) : s[j] = "allow" /\ LineStart(s, j) = L
    BY DEF Suppressed, SameLine, At
  <1>3. /\ L \in Nat /\ L < i /\ L < j
        /\ \A k \in Positions(s) : L < k /\ k < i => s[k] # "nl"
        /\ \A k \in Positions(s) : L < k /\ k < j => s[k] # "nl"
    BY <1>2, LineStarts
  <1> HIDE DEF L
  <1>4. ASSUME NEW k \in Between(Positions(s), j, i) \cup Between(Positions(s), i, j)
        PROVE  s[k] # "nl"
    <2>1. k \in Positions(s) /\ ((j < k /\ k < i) \/ (i < k /\ k < j))
      BY <1>4, Zenon DEF Between
    <2> QED
      BY <1>1, <1>3, <2>1
  <1> QED
    BY <1>2, <1>4 DEF Excused, At

\* A call in the code, on a line that begins in code, is a finding of the API
\* scanner, or is excused.
LEMMA CallsAreScanned ==
    ASSUME NEW s \in Seq(Tokens), NEW i \in Positions(s),
           s[i] = "call", i \in Code(s), ~exempt, ~Excused(s, i),
           Mode(s)[LineStart(s, i)] = InCode,
           s[LineStart(s, i) + 1] \notin {"star", "close"}
    PROVE  i \in Scan(s)
  <1> DEFINE L == LineStart(s, i)
  <1>1. Positions(s) = 1 .. Len(s) /\ Len(s) \in Nat
    BY DEF Positions
  <1>2. /\ L \in Nat /\ L < i
        /\ \A k \in Positions(s) : L < k /\ k < i => s[k] # "nl"
    BY LineStarts
  <1>3. s[L + 1] # "line"
    <2>1. SUFFICES ASSUME s[L + 1] = "line" PROVE FALSE
      OBVIOUS
    <2> HIDE DEF L
    <2> DEFINE h == L + 1
    <2>2. h \in Positions(s) /\ h # i /\ h < i /\ h - 1 = L
      BY <1>1, <1>2, <2>1
    <2>3. \A k \in Positions(s) : h < k /\ k < i => s[k] # "nl"
      BY <1>1, <1>2
    <2>4. s[h] = "line"
      BY <2>1
    <2> HIDE DEF h
    <2>5. Mode(s)[h - 1] = InCode
      BY <2>2 DEF L
    <2>6. Mode(s)[i - 1] = InLine
      BY <2>2, <2>3, <2>4, <2>5, CommentToLineEnd
    <2> QED
      BY <2>6 DEF Code, InLine, InCode
  <1>4. ~Suppressed(s, i)
    BY MarkersExcuse
  <1> QED
    BY <1>3, <1>4 DEF Scan, At

\* Coordinates that ship are finitely many, so none found means none blocked.
LEMMA DependenciesAreBlocked ==
    ASSUME rows \in Seq(Row), DetectorStatus(ScanDeps) # Fail,
           NEW i \in DOMAIN rows, rows[i].coord \in Blocklist
    PROVE  rows[i].scope = "TEST"
  <1> DEFINE shipping == {k \in DOMAIN rows : rows[k].scope = "SHIPPING"}
             seen == {rows[k].coord : k \in shipping}
             f == [k \in shipping |-> rows[k].coord]
  <1>1. ScanDeps = Det(Cardinality(seen \cap Blocklist), Cardinality(seen))
    BY DEF ScanDeps
  <1>2. IsFiniteSet(shipping)
    <2>1. DOMAIN rows = 1 .. Len(rows) /\ Len(rows) \in Nat
      OBVIOUS
    <2>2. IsFiniteSet(1 .. Len(rows))
      BY <2>1, FS_Interval
    <2>3. shipping \in SUBSET (1 .. Len(rows))
      BY <2>1
    <2> QED
      BY <2>2, <2>3, FS_Subset
  <1>3. f \in Surjection(shipping, seen)
    BY DEF Surjection
  <1> HIDE DEF f, shipping, seen
  <1>4. IsFiniteSet(seen)
    BY <1>2, <1>3, FS_Surjection
  <1>5. IsFiniteSet(seen \cap Blocklist)
    BY <1>4, FS_Intersection
  <1>6. Cardinality(seen \cap Blocklist) = 0
    <2>1. Cardinality(seen \cap Blocklist) \in Nat
      BY <1>5, FS_CardinalityType
    <2>2. ~(Cardinality(seen \cap Blocklist) > 0)
      BY <1>1 DEF DetectorStatus, Det
    <2> QED
      BY <2>1, <2>2
  <1>7. seen \cap Blocklist = {}
    BY <1>5, <1>6, FS_EmptySet
  <1>8. rows[i].scope # "SHIPPING"
    BY <1>7 DEF seen, shipping
  <1>9. rows[i] \in Row
    OBVIOUS
  <1> QED
    BY <1>8, <1>9 DEF Row

\* Nothing forbidden passes the scanners.
THEOREM ForbiddenIsFound == SourceSpec => []NothingForbiddenSlips
  <1>1. ASSUME SourceTypes PROVE NothingForbiddenSlips
    <2>1. ASSUME NEW i \in At(text, Code(text), "call"), ~Excused(text, i)
          PROVE  /\ i \in Positions(text) /\ text[i] = "call" /\ i \in Code(text)
                 /\ i \in ScanSources(text)
      <3>1. i \in Positions(text) /\ text[i] = "call" /\ i \in Code(text)
        BY DEF At, Code
      <3>2. ~Suppressed(text, i)
        BY <1>1, <2>1, <3>1, MarkersExcuse DEF SourceTypes
      <3> QED
        BY <3>1, <3>2 DEF ScanSources, At
    <2>2. ASSUME NEW i \in At(text, Code(text), "call"), ~Excused(text, i), ~exempt,
                 Mode(text)[LineStart(text, i)] = InCode,
                 text[LineStart(text, i) + 1] \notin {"star", "close"}
          PROVE  i \in Scan(text)
      BY <1>1, <2>1, <2>2, CallsAreScanned DEF SourceTypes
    <2>3. ASSUME DetectorStatus(ScanDeps) # Fail, NEW i \in DOMAIN rows,
                 rows[i].coord \in Blocklist
          PROVE  rows[i].scope = "TEST"
      BY <1>1, <2>3, DependenciesAreBlocked DEF SourceTypes
    <2> QED
      BY <2>1, <2>2, <2>3 DEF NothingForbiddenSlips
  <1> QED
    BY <1>1, SourceTypesHold, PTL

-----------------------------------------------------------------------------
(* SuspensionsAreSeen.                                                       *)

UpTo(S, i)  == {j \in S : j <= i}
Below(S, i) == {j \in S : j < i}

\* Counting a set of positions from the left.
LEMMA Counting ==
    ASSUME NEW n \in Nat, NEW S \in SUBSET (1 .. n)
    PROVE  /\ IsFiniteSet(S) /\ Cardinality(S) \in Nat
           /\ \A i \in 0 .. n + 1 :
                 /\ Cardinality(UpTo(S, i)) \in Nat /\ Cardinality(Below(S, i)) \in Nat
                 /\ Cardinality(UpTo(S, i)) <= Cardinality(S)
                 /\ Cardinality(Below(S, i)) <= Cardinality(S)
           /\ Cardinality(UpTo(S, 0)) = 0
           /\ UpTo(S, n) = S /\ Below(S, n + 1) = S
           /\ \A i \in 1 .. n : Cardinality(UpTo(S, i)) =
                 IF i \in S THEN Cardinality(UpTo(S, i - 1)) + 1
                            ELSE Cardinality(UpTo(S, i - 1))
  <1>1. IsFiniteSet(S)
    <2>1. IsFiniteSet(1 .. n)
      BY FS_Interval
    <2> QED
      BY <2>1, FS_Subset
  <1>2. Cardinality(S) \in Nat
    BY <1>1, FS_CardinalityType
  <1>3. ASSUME NEW T \in SUBSET S
        PROVE  IsFiniteSet(T) /\ Cardinality(T) \in Nat /\ Cardinality(T) <= Cardinality(S)
    BY <1>1, FS_Subset, FS_CardinalityType
  <1>4. ASSUME NEW i PROVE UpTo(S, i) \in SUBSET S /\ Below(S, i) \in SUBSET S
    BY DEF UpTo, Below
  <1>5. Cardinality(UpTo(S, 0)) = 0
    <2>1. \A j \in S : ~(j <= 0)
      OBVIOUS
    <2>2. UpTo(S, 0) = {}
      BY <2>1 DEF UpTo
    <2> QED
      BY <2>2, FS_EmptySet
  <1>6. UpTo(S, n) = S /\ Below(S, n + 1) = S
    <2>1. \A j \in S : j <= n /\ j < n + 1
      OBVIOUS
    <2> QED
      BY <2>1 DEF UpTo, Below
  <1>7. ASSUME NEW i \in 1 .. n
        PROVE  Cardinality(UpTo(S, i)) =
                  IF i \in S THEN Cardinality(UpTo(S, i - 1)) + 1
                             ELSE Cardinality(UpTo(S, i - 1))
    <2>1. CASE i \in S
      <3>1. UpTo(S, i) = UpTo(S, i - 1) \cup {i} /\ i \notin UpTo(S, i - 1)
        <4>1. /\ \A j \in S : j <= i <=> j <= i - 1 \/ j = i
              /\ i <= i /\ ~(i <= i - 1)
          OBVIOUS
        <4> QED
          BY <2>1, <4>1 DEF UpTo
      <3>2. IsFiniteSet(UpTo(S, i - 1))
        BY <1>3, <1>4
      <3> QED
        BY <2>1, <3>1, <3>2, FS_AddElement
    <2>2. CASE i \notin S
      <3>1. UpTo(S, i) = UpTo(S, i - 1)
        <4>1. \A j \in S : j <= i <=> j <= i - 1
          BY <2>2
        <4> QED
          BY <4>1 DEF UpTo
      <3> QED
        BY <2>2, <3>1
    <2> QED
      BY <2>1, <2>2
  <1> QED
    BY <1>1, <1>2, <1>3, <1>4, <1>5, <1>6, <1>7

\* The kth of a set of positions is in it, with k - 1 before it.
LEMMA NthIsThere ==
    ASSUME NEW n \in Nat, NEW S \in SUBSET (1 .. n), NEW k \in 1 .. Cardinality(S)
    PROVE  Nth(S, k) \in S /\ Cardinality(UpTo(S, Nth(S, k))) = k
  <1> DEFINE c(i) == Cardinality(UpTo(S, i))
             T == {i \in 0 .. n : c(i) >= k}
  <1>1. /\ Cardinality(S) \in Nat /\ UpTo(S, n) = S /\ c(0) = 0
        /\ \A i \in 0 .. n : c(i) \in Nat
        /\ \A i \in 1 .. n : c(i) = IF i \in S THEN c(i - 1) + 1 ELSE c(i - 1)
    <2>1. \A i \in 0 .. n : i \in 0 .. n + 1
      OBVIOUS
    <2> QED
      BY <2>1, Counting
  <1>2. n \in T
    BY <1>1
  <1> HIDE DEF c
  <1>3. T \in SUBSET Nat /\ T # {}
    BY <1>2
  <1> HIDE DEF T
  <1>4. Min(T) \in T /\ \A y \in T : Min(T) <= y
    BY <1>3, MinExists
  <1> DEFINE m == Min(T)
  <1>5. m \in 0 .. n /\ c(m) >= k
    BY <1>4 DEF T
  <1>6. m # 0
    BY <1>1, <1>5
  <1>7. m - 1 \in 0 .. n /\ c(m - 1) < k
    <2>1. m \in 1 .. n /\ m - 1 \in 0 .. n /\ ~(m <= m - 1)
      BY <1>5, <1>6
    <2>2. m - 1 \notin T
      BY <1>4, <2>1
    <2>3. c(m - 1) \in Nat /\ ~(c(m - 1) >= k)
      BY <1>1, <2>1, <2>2 DEF T
    <2> QED
      BY <1>1, <2>1, <2>3
  <1> HIDE DEF m
  <1>8. m \in S /\ c(m) = k
    <2>1. m \in 1 .. n /\ c(m) \in Nat /\ c(m - 1) \in Nat /\ k \in Nat
      BY <1>1, <1>5, <1>6, <1>7
    <2>2. c(m) = IF m \in S THEN c(m - 1) + 1 ELSE c(m - 1)
      BY <1>1, <2>1
    <2> QED
      BY <1>5, <1>7, <2>1, <2>2
  <1> QED
    BY <1>8 DEF Nth, UpTo, c

\* The kth comes before a position just when k of them do.
LEMMA NthComesBefore ==
    ASSUME NEW n \in Nat, NEW S \in SUBSET (1 .. n), NEW k \in 1 .. Cardinality(S),
           NEW at \in 1 .. n
    PROVE  Nth(S, k) \in 1 .. n /\ (Nth(S, k) < at <=> Cardinality(Below(S, at)) >= k)
  <1> DEFINE m == Nth(S, k)
  <1>1. m \in S /\ Cardinality(UpTo(S, m)) = k
    BY NthIsThere
  <1> HIDE DEF m
  <1>2. /\ IsFiniteSet(S) /\ k \in Nat /\ m \in 1 .. n
        /\ \A j \in S : j \in Int /\ 1 <= j /\ j <= n
    <2>1. IsFiniteSet(S) /\ Cardinality(S) \in Nat
      BY Counting
    <2>2. \A j \in S : j \in Int /\ 1 <= j /\ j <= n
      OBVIOUS
    <2>3. k \in Nat
      BY <2>1
    <2> QED
      BY <1>1, <2>1, <2>2, <2>3
  <1>3. IsFiniteSet(UpTo(S, m)) /\ IsFiniteSet(Below(S, at))
    <2>1. UpTo(S, m) \in SUBSET S /\ Below(S, at) \in SUBSET S
      BY DEF UpTo, Below
    <2> QED
      BY <1>2, <2>1, FS_Subset
  <1>4. Cardinality(UpTo(S, m)) \in Nat /\ Cardinality(Below(S, at)) \in Nat
    BY <1>3, FS_CardinalityType
  <1>5. ASSUME m < at PROVE Cardinality(Below(S, at)) >= k
    <2>1. UpTo(S, m) \in SUBSET Below(S, at)
      <3>1. \A j \in S : j <= m => j < at
        BY <1>2, <1>5
      <3> QED
        BY <3>1 DEF UpTo, Below
    <2> QED
      BY <1>1, <1>3, <1>4, <2>1, FS_Subset
  <1>6. ASSUME ~(m < at) PROVE Cardinality(Below(S, at)) < k
    <2>1. Below(S, at) \in SUBSET UpTo(S, m) /\ m \notin Below(S, at) /\ m \in UpTo(S, m)
      <3>1. /\ \A j \in S : j < at => j <= m
            /\ ~(m < at) /\ m <= m
        BY <1>2, <1>6
      <3> QED
        BY <1>1, <3>1 DEF UpTo, Below
    <2>2. /\ Cardinality(Below(S, at)) <= Cardinality(UpTo(S, m))
          /\ Cardinality(UpTo(S, m)) = Cardinality(Below(S, at)) => UpTo(S, m) = Below(S, at)
      BY <1>3, <2>1, FS_Subset
    <2>3. Cardinality(UpTo(S, m)) # Cardinality(Below(S, at))
      BY <2>1, <2>2
    <2> QED
      BY <1>1, <1>4, <2>2, <2>3
  <1>7. m < at <=> Cardinality(Below(S, at)) >= k
    BY <1>2, <1>4, <1>5, <1>6
  <1> QED
    BY <1>2, <1>7 DEF m

\* Between as many starts as ends, a position is inside some region, start and
\* end matched by number, just when more starts than ends come before it.
LEMMA RegionsByNumber ==
    ASSUME NEW n \in Nat, NEW starts \in SUBSET (1 .. n), NEW ends \in SUBSET (1 .. n),
           Cardinality(starts) = Cardinality(ends),
           NEW at \in 1 .. n, at \notin starts, at \notin ends
    PROVE  (\E k \in 1 .. Cardinality(starts) : Nth(starts, k) < at /\ at < Nth(ends, k))
             <=> Cardinality(Below(starts, at)) > Cardinality(Below(ends, at))
  <1> DEFINE a == Cardinality(Below(starts, at))
             b == Cardinality(Below(ends, at))
             N == Cardinality(starts)
  <1>1. at \in 0 .. n + 1
    OBVIOUS
  <1>2. N \in Nat /\ a \in Nat /\ b \in Nat /\ a <= N /\ b <= N
    BY <1>1, Counting
  <1>3. ASSUME NEW k \in 1 .. N
        PROVE  /\ Nth(starts, k) < at <=> a >= k
               /\ at < Nth(ends, k) <=> b < k
    <2>1. k \in 1 .. Cardinality(starts) /\ k \in 1 .. Cardinality(ends)
      OBVIOUS
    <2>2. Nth(starts, k) < at <=> a >= k
      BY <2>1, NthComesBefore
    <2>3. Nth(ends, k) \in 1 .. n /\ (Nth(ends, k) < at <=> b >= k)
      BY <2>1, NthComesBefore
    <2>4. Nth(ends, k) \in ends
      BY <2>1, NthIsThere
    <2> HIDE DEF a, b, N
    <2>5. Nth(ends, k) # at
      BY <2>4
    <2>6. k \in Nat
      BY <1>2
    <2>7. at < Nth(ends, k) <=> ~(Nth(ends, k) < at)
      BY <2>3, <2>5
    <2> QED
      BY <1>2, <2>2, <2>3, <2>6, <2>7
  <1> HIDE DEF a, b, N
  <1>4. ASSUME NEW k \in 1 .. N, a >= k, b < k PROVE a > b
    BY <1>2, <1>4
  <1>5. ASSUME a > b PROVE \E k \in 1 .. N : a >= k /\ b < k
    <2>1. b + 1 \in 1 .. N /\ a >= b + 1 /\ b < b + 1
      BY <1>2, <1>5
    <2> QED
      BY <2>1
  <1>6. (\E k \in 1 .. N : Nth(starts, k) < at /\ at < Nth(ends, k)) <=> a > b
    BY <1>3, <1>4, <1>5
  <1> QED
    BY <1>6 DEF a, b, N

\* Regions matched by their numbers are the nested regions.
LEMMA RegionsAreNested ==
    ASSUME NEW s \in Seq(Tokens), Plain(s) = Positions(s), WellNested(s),
           NEW live, live = Uncommented(s)
    PROVE  InsideRegion(s) = {i \in At(s, live, "call") : Depth(s, live, i) > 0}
  <1> DEFINE n == Len(s)
             starts == At(s, live, "begin")
             ends == At(s, live, "end")
             calls == At(s, live, "call")
  <1>1. n \in Nat /\ live \subseteq 1 .. n
    BY DEF Uncommented, Positions
  <1>2. /\ starts \in SUBSET (1 .. n) /\ ends \in SUBSET (1 .. n) /\ calls \subseteq 1 .. n
        /\ \A i \in calls : i \notin starts /\ i \notin ends
    BY <1>1 DEF At
  <1>3. ASSUME NEW i \in 0 .. n + 1
        PROVE  Depth(s, live, i) = Cardinality(Below(starts, i)) - Cardinality(Below(ends, i))
    <2>1. /\ At(s, Between(live, 0, i), "begin") = Below(starts, i)
          /\ At(s, Between(live, 0, i), "end") = Below(ends, i)
      BY <1>1 DEF At, Between, Below
    <2> QED
      BY <2>1 DEF Depth
  <1>4. Stripped(s) = live
    <2>1. Stripped(s) \subseteq Positions(s) /\ live \subseteq Positions(s)
      BY StrippedInside DEF Uncommented
    <2>2. \A i \in Positions(s) : i \in Stripped(s) <=> i \in live
      BY Lexes
    <2> QED
      BY <2>1, <2>2
  <1>5. InsideRegion(s) =
          UNION {At(s, Between(live, Nth(starts, k), Nth(ends, k)), "call") :
                   k \in 1 .. Cardinality(starts)}
    BY <1>4 DEF InsideRegion
  <1>6. InsideRegion(s) = {i \in calls : \E k \in 1 .. Cardinality(starts) :
                              Nth(starts, k) < i /\ i < Nth(ends, k)}
    <2>1. ASSUME NEW k
          PROVE  At(s, Between(live, Nth(starts, k), Nth(ends, k)), "call") =
                   {i \in calls : Nth(starts, k) < i /\ i < Nth(ends, k)}
      BY Zenon DEF At, Between
    <2> HIDE DEF calls, starts, ends
    <2> QED
      BY <1>5, <2>1
  <1>7. Depth(s, live, n + 1) = 0
    BY DEF WellNested
  <1> HIDE DEF n, starts, ends, calls
  <1>8. Cardinality(starts) = Cardinality(ends)
    <2>1. /\ Below(starts, n + 1) = starts /\ Cardinality(starts) \in Nat
          /\ Below(ends, n + 1) = ends /\ Cardinality(ends) \in Nat
      BY <1>1, <1>2, Counting
    <2>2. n + 1 \in 0 .. n + 1
      BY <1>1
    <2>3. Depth(s, live, n + 1) = Cardinality(starts) - Cardinality(ends)
      BY <1>3, <2>1, <2>2
    <2> QED
      BY <1>7, <2>1, <2>3
  <1>9. ASSUME NEW i \in calls
        PROVE  (\E k \in 1 .. Cardinality(starts) : Nth(starts, k) < i /\ i < Nth(ends, k))
                 <=> Depth(s, live, i) > 0
    <2>1. i \in 1 .. n /\ i \in 0 .. n + 1
      BY <1>1, <1>2
    <2>2. (\E k \in 1 .. Cardinality(starts) : Nth(starts, k) < i /\ i < Nth(ends, k))
            <=> Cardinality(Below(starts, i)) > Cardinality(Below(ends, i))
      BY <1>1, <1>2, <1>8, <2>1, RegionsByNumber
    <2>3. /\ Cardinality(Below(starts, i)) \in Nat
          /\ Cardinality(Below(ends, i)) \in Nat
      BY <1>1, <1>2, <2>1, Counting
    <2>4. Depth(s, live, i) = Cardinality(Below(starts, i)) - Cardinality(Below(ends, i))
      BY <1>3, <2>1
    <2> QED
      BY <2>2, <2>3, <2>4
  <1>10. InsideRegion(s) = {i \in calls : Depth(s, live, i) > 0}
    BY <1>6, <1>9
  <1> QED
    BY <1>10 DEF calls

\* Matching regions by order of appearance misses no suspending call.
THEOREM RegionsMissNothing == SourceSpec => []SuspensionsAreSeen
  <1>1. SourceTypes => SuspensionsAreSeen
    BY RegionsAreNested DEF SourceTypes, SuspensionsAreSeen
  <1> QED
    BY <1>1, SourceTypesHold, PTL
=============================================================================

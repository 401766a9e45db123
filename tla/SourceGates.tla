------------------------------ MODULE SourceGates ------------------------------
(***************************************************************************)
(* The gates that read source text: scripts/check_learning.py,             *)
(* check_withdrawn.py, check_trace_sections.py, check_forbidden_api.py and *)
(* check_no_network.py.  A Kotlin file is the sequence of the tokens these *)
(* scripts can tell apart; "call" stands for whatever a gate looks for (a  *)
(* learning call, a withdrawn constructor, a suspending call, a forbidden  *)
(* API).  A file is written one token after the other, at a path some rule *)
(* of the API gate may exempt, and the resolved dependencies one row after *)
(* the other.                                                              *)
(***************************************************************************)
EXTENDS GateLib, Integers, Sequences, FiniteSets, FiniteSetsExt

CONSTANTS
    Coordinates,   \* dependency coordinates
    Blocklist,     \* those on DEP_BLOCKLIST
    MaxWork        \* bound: tokens written, a row and a file counting double,
                   \* an exempt path once

ASSUME SourceAssumption == Blocklist \subseteq Coordinates /\ MaxWork \in Nat

\* "/*" and "*/" are open and close, "//" is line, any other "*" is star, quote
\* begins and ends a string literal; allow is an API-GATE-ALLOW or NET-GATE-ALLOW
\* marker with a reason, privateFun is "private fun" and fun any other head, that
\* of a "private suspend fun" included.
Tokens == {"fun", "privateFun", "guard", "call", "begin", "end", "allow",
           "open", "close", "line", "star", "quote", "nl"}

VARIABLES
    text,       \* the file the gate is about
    exempt,     \* whether the API rule's allow_paths or skip_paths name its path
    elsewhere,  \* whether a second file calls learn(), guarded
    rows        \* the dependency audit's rows

sourceVars == <<text, exempt, elsewhere, rows>>

Row == [scope : {"SHIPPING", "TEST"}, coord : Coordinates]

Plus(inject) == IF inject THEN 1 ELSE 0

Positions(s) == 1 .. Len(s)

At(s, S, t) == {i \in S : s[i] = t}

Between(S, i, j) == {k \in S : i < k /\ k < j}

-----------------------------------------------------------------------------
(* Comment stripping: re.sub of block comments, nearest end first, then of   *)
(* what follows "//" on a line.                                              *)

\* A block comment ends somewhere after position i.
Closed(s, i) == \E j \in Positions(s) : j > i /\ s[j] = "close"

\* Whether each position falls to the first substitution.
Substituted(s) ==
    LET in[i \in 0 .. Len(s)] ==
            IF i = 0 THEN FALSE
            ELSE \/ in[i - 1] /\ s[i - 1] # "close"
                 \/ s[i] = "open" /\ Closed(s, i)
    IN  in

InBlock(s) ==
    LET in == Substituted(s)
    IN  {i \in Positions(s) : in[i]}

\* Line comments are left where they stand.
StrippedBlocks(s) == Positions(s) \ InBlock(s)

Stripped(s) ==
    LET left == Positions(s) \ InBlock(s)
        comments == At(s, left, "line")
    IN  {i \in left : s[i] = "nl" \/
            \A j \in comments : j <= i => At(s, Between(left, j, i), "nl") # {}}

-----------------------------------------------------------------------------
(* check_learning.py *)

\* The planted defects are appended on a line of their own.
SchemaLeak == <<"nl", "fun", "call">>
GuardLeak  == <<"nl", "privateFun", "call">>

With(inject, defect) == IF inject THEN text \o defect ELSE text

\* Whatever is left after stripping counts.
CallsLeft(s) == Cardinality(At(s, Stripped(s), "call"))

CheckSchema(inject) == Det(CallsLeft(With(inject, SchemaLeak)), 1)

CheckDiagnostics(inject) == Det(CallsLeft(With(inject, SchemaLeak)), 1)

\* The search for the guard begins at the top of the file.
BodyStartAtTop(s, at) == 0

\* Where the search for the guard begins: the last "private fun" before the
\* call, or the last "fun " when there is none, or the start of the file.
BodyStart(s, at) ==
    LET left      == Between(Stripped(s), 0, at)
        before(t) == At(s, left, t)
    IN  IF before("privateFun") # {} THEN Max(before("privateFun"))
        ELSE IF before("fun") # {} THEN Max(before("fun")) ELSE 0

Unguarded(s) ==
    LET left == Stripped(s)
    IN  {at \in At(s, left, "call") :
            At(s, Between(left, BodyStart(s, at), at), "guard") = {}}

CheckGuard(inject) ==
    LET s     == With(inject, GuardLeak)
        calls == At(s, Stripped(s), "call")
        files == Plus(calls # {}) + Plus(elsewhere)
    IN  IF files = 0 THEN Det(0, 0)
        ELSE Det(Cardinality(Unguarded(s)) + Plus(files > 1), 2)

-----------------------------------------------------------------------------
(* check_withdrawn.py *)

ScanWithdrawn(inject) ==
    Det(CallsLeft(With(inject, <<"nl", "line", "nl", "call">>)), 1)

-----------------------------------------------------------------------------
(* check_trace_sections.py, scan_balance: the nth begin goes with the nth end. *)

Nth(S, n) == CHOOSE i \in S : Cardinality({j \in S : j <= i}) = n

\* Every region taken to close at the next end.
InsideRegionNearest(s) ==
    LET ends(i) == {j \in At(s, Stripped(s), "end") : j > i}
    IN  UNION {At(s, Between(Stripped(s), i, IF ends(i) = {} THEN i ELSE Min(ends(i))), "call") :
                 i \in At(s, Stripped(s), "begin")}

InsideRegion(s) ==
    LET starts == At(s, Stripped(s), "begin")
        ends   == At(s, Stripped(s), "end")
    IN  UNION {At(s, Between(Stripped(s), Nth(starts, n), Nth(ends, n)), "call") :
                 n \in 1 .. Cardinality(starts)}

ScanBalance(s) ==
    LET starts == At(s, Stripped(s), "begin")
        ends   == At(s, Stripped(s), "end")
    IN  IF Cardinality(starts) # Cardinality(ends) THEN Det(1, Cardinality(starts))
        ELSE Det(Cardinality(InsideRegion(s)), Cardinality(starts))

-----------------------------------------------------------------------------
(* check_forbidden_api.py and check_no_network.py: raw lines, each on its own. *)

LineStart(s, i) == Max({0} \cup At(s, Between(Positions(s), 0, i), "nl"))

SameLine(s, i) == {j \in Positions(s) : s[j] # "nl" /\ LineStart(s, j) = LineStart(s, i)}

Suppressed(s, i) == At(s, SameLine(s, i), "allow") # {}

\* A line that begins with "//" or with any "*", that of "*/" included, is taken
\* for a comment and skipped.
Scan(s) ==
    {i \in At(s, Positions(s), "call") :
        /\ s[LineStart(s, i) + 1] \notin {"line", "star", "close"}
        /\ ~exempt
        /\ ~Suppressed(s, i)}

\* The network gate reads comments as well.
ScanSources(s) == {i \in At(s, Positions(s), "call") : ~Suppressed(s, i)}

\* scan_deps: only SHIPPING rows are remembered as seen, counted and blocked.
\* A row seen for tests is not looked at again.
ScanDepsOnce ==
    LET first == {i \in DOMAIN rows : \A j \in 1 .. i - 1 : rows[j].coord # rows[i].coord}
        seen  == {rows[i].coord : i \in {j \in first : rows[j].scope = "SHIPPING"}}
    IN  Det(Cardinality(seen \cap Blocklist), Cardinality(seen))

ScanDeps ==
    LET shipping == {i \in DOMAIN rows : rows[i].scope = "SHIPPING"}
        seen     == {rows[i].coord : i \in shipping}
    IN  Det(Cardinality(seen \cap Blocklist), Cardinality(seen))

-----------------------------------------------------------------------------
Work == Len(text) + Plus(exempt) + 2 * Len(rows) + 2 * Plus(elsewhere)

SourceInit == text = <<>> /\ exempt \in BOOLEAN /\ elsewhere = FALSE /\ rows = <<>>

WriteToken(t) ==
    /\ Work < MaxWork
    /\ text' = Append(text, t)
    /\ UNCHANGED <<exempt, elsewhere, rows>>

CallElsewhere ==
    /\ ~elsewhere /\ Work + 1 < MaxWork
    /\ elsewhere' = TRUE
    /\ UNCHANGED <<text, exempt, rows>>

ResolveDependency(r) ==
    /\ Work + 1 < MaxWork
    /\ rows' = Append(rows, r)
    /\ UNCHANGED <<text, exempt, elsewhere>>

SourceNext ==
    \/ \E t \in Tokens : WriteToken(t)
    \/ CallElsewhere
    \/ \E r \in Row : ResolveDependency(r)

SourceSpec == SourceInit /\ [][SourceNext]_sourceVars

-----------------------------------------------------------------------------
(* What Kotlin makes of the text: a comment marker in a string is text, block *)
(* comments nest, and in a line comment only the end of the line matters.    *)

InCode   == 0    \* and n > 0 is inside n block comments
InLine   == -1
InString == -2

After(was, t) ==
    CASE was = InCode /\ t = "open"     -> 1
      [] was = InCode /\ t = "line"     -> InLine
      [] was = InCode /\ t = "quote"    -> InString
      [] was > 0 /\ t = "open"          -> was + 1
      [] was > 0 /\ t = "close"         -> was - 1
      [] was = InLine /\ t = "nl"       -> InCode
      [] was = InString /\ t = "quote"  -> InCode
      [] OTHER                          -> was

\* The lexer's mode after each position.
Mode(s) ==
    LET mode[i \in 0 .. Len(s)] == IF i = 0 THEN InCode ELSE After(mode[i - 1], s[i])
    IN  mode

\* What is in no comment: code, and string literals.
Uncommented(s) ==
    LET mode == Mode(s)
    IN  {i \in Positions(s) : mode[i - 1] <= 0 /\ mode[i] \in {InCode, InString}}

Code(s) ==
    LET mode == Mode(s)
    IN  {i \in Positions(s) : mode[i - 1] = InCode /\ mode[i] = InCode}

\* A marker that begins no comment of its own: "//" in a string, or "/*" in a
\* string or in another comment.
Misleading(s) ==
    LET mode == Mode(s)
    IN  {j \in Positions(s) : \/ s[j] = "line" /\ mode[j - 1] = InString
                              \/ s[j] = "open" /\ mode[j - 1] # InCode}

\* The last block comment is closed, as in any file that compiles.
Ends(s) == Mode(s)[Len(s)] <= 0

\* The positions up to which every comment marker means what it looks like.
Plain(s) ==
    LET misleading == Misleading(s)
    IN  {i \in Positions(s) : Ends(s) /\ \A j \in misleading : i < j}

\* How many more regions have begun than ended among these positions before i.
Depth(s, among, i) ==
    Cardinality(At(s, Between(among, 0, i), "begin"))
        - Cardinality(At(s, Between(among, 0, i), "end"))

WellNested(s) ==
    LET live == Uncommented(s)
    IN  /\ \A i \in Positions(s) : Depth(s, live, i) >= 0
        /\ Depth(s, live, Len(s) + 1) = 0

\* The heads of functions before a position.
HeadsBefore(s, at, kinds) == {i \in Between(Uncommented(s), 0, at) : s[i] \in kinds}

GuardedInItsFunction(s, at) ==
    LET heads == HeadsBefore(s, at, {"fun", "privateFun"})
    IN  \E g \in Between(Uncommented(s), Max(heads), at) : s[g] = "guard"

-----------------------------------------------------------------------------
\* Up to the first marker that misleads them, two substitutions leave what a
\* lexer finds in no comment, no less and no more; and whatever a file holds,
\* misleading or not, it cannot hide the defect each gate plants after it
\* (check_learning.py:74 and its control's "every value must go red",
\* check_withdrawn.py, check_trace_sections.py).
StrippingIsLexing ==
    /\ Stripped(text) \cap Plain(text) = Uncommented(text) \cap Plain(text)
    /\ \A planted \in {CheckSchema(TRUE), CheckGuard(TRUE), CheckDiagnostics(TRUE),
                       ScanWithdrawn(TRUE)} :
          DetectorStatus(planted) = Fail

\* check_learning.py:74 says "Strip comments before matching": what goes is a
\* comment.  Refuted: "//" in a string takes the rest of its line with it, and a
\* learning call, a text type or a withdrawn constructor there is never seen.
OnlyCommentsAreStripped ==
    Ends(text) => At(text, Code(text), "call") \subseteq Stripped(text)

\* When the guard detector is content, a learning call whose nearest head is a
\* "private fun", or before which there are only heads of other kinds, has the
\* mayLearn guard between the nearest head and itself, and no other file calls
\* learn() (check_learning.check_guard).
CallsAreGuarded ==
    DetectorStatus(CheckGuard(FALSE)) = Pass =>
        \A at \in At(text, Uncommented(text) \cap Plain(text), "call") :
            /\ ~elsewhere
            /\ LET heads    == HeadsBefore(text, at, {"fun", "privateFun"})
                   privates == HeadsBefore(text, at, {"privateFun"})
               IN  heads # {} /\ (privates = {} \/ Max(heads) \in privates) =>
                      GuardedInItsFunction(text, at)

\* check_learning.py:188 says "The guard must be in the SAME function, not merely
\* somewhere earlier in the file."  Refuted: behind a "private fun" that has the
\* guard, a call in a function with any other head passes.
GuardIsInTheSameFunction ==
    DetectorStatus(CheckGuard(FALSE)) = Pass =>
        \A at \in At(text, Uncommented(text) \cap Plain(text), "call") :
            HeadsBefore(text, at, {"fun", "privateFun"}) # {} =>
                GuardedInItsFunction(text, at)

\* Matching regions by order of appearance misses no suspending call: in a
\* well-nested file every call inside any traced region is a finding, and none
\* outside one is (check_trace_sections.scan_balance).
SuspensionsAreSeen ==
    Plain(text) = Positions(text) /\ WellNested(text) =>
        LET live == Uncommented(text)
        IN  InsideRegion(text) = {i \in At(text, live, "call") : Depth(text, live, i) > 0}

\* A marker with a reason stands on the call's line.
Excused(s, i) ==
    \E j \in At(s, Positions(s), "allow") :
        At(s, Between(Positions(s), j, i) \cup Between(Positions(s), i, j), "nl") = {}

\* A forbidden call the compiler sees, with no reason beside it, is a finding of
\* the network gate wherever it stands, and of the API gate when the rule covers
\* the path and its line begins in code and not with an asterisk: there, "//" at
\* the start leaves no code on the line.  And a coordinate that ships is blocked
\* however often, and however early, it was also resolved for tests
\* (check_forbidden_api.scan, check_no_network.scan_sources, scan_deps).
NothingForbiddenSlips ==
    /\ \A i \in At(text, Code(text), "call") :
          ~Excused(text, i) =>
              /\ i \in ScanSources(text)
              /\ LET start == LineStart(text, i)
                 IN  /\ ~exempt
                     /\ Mode(text)[start] = InCode
                     /\ text[start + 1] \notin {"star", "close"}
                     => i \in Scan(text)
    /\ DetectorStatus(ScanDeps) # Fail =>
          \A i \in DOMAIN rows :
              rows[i].coord \in Blocklist => rows[i].scope = "TEST"

\* check_forbidden_api.py:122-123 says of a rule that it "still covers 100% of
\* src/main".  Refuted where a line begins inside a block comment: a call after
\* the "*/" that ends it stands on a line that begins with an asterisk, and is
\* skipped as if the comment went on.
EveryMainLineIsCovered ==
    \A i \in At(text, Code(text), "call") :
        ~exempt /\ ~Excused(text, i) /\ Mode(text)[LineStart(text, i)] > 0 =>
            i \in Scan(text)
=============================================================================

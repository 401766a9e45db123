---------------------------- MODULE MCGateRunner ----------------------------
(***************************************************************************)
(* Four gates of run_gates.py: one over the upstream lexicon sources that  *)
(* may be absent, one that prints no JSON, one that measures the release   *)
(* apk, and the meta-gate that is only a control.                          *)
(***************************************************************************)
EXTENDS GateRunner, TLC

CONSTANTS net3, lex2, store1, denom1, cache, d1, d2

MCOrder == <<lex2, store1, net3, denom1>>
MCMeta == {denom1}
MCSilent == {store1}
MCMayBeAbsent == {lex2}
MCReads == (net3 :> {Release}) @@ (lex2 :> {cache}) @@ (denom1 :> {}) @@ (store1 :> {})
MCFiles == {Signed, Unsigned, Stray, cache}
MCDetectors == {d1, d2}
=============================================================================

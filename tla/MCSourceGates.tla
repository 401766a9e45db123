---------------------------- MODULE MCSourceGates ----------------------------
(***************************************************************************)
(* Every Kotlin file of up to five tokens, and dependency audits of two    *)
(* rows over a blocked and a harmless coordinate.                          *)
(***************************************************************************)
EXTENDS SourceGates

CONSTANTS okhttp, collections

MCCoordinates == {okhttp, collections}
=============================================================================

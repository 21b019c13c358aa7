--------------------------- MODULE MCCardMonitor ----------------------------
(* Small instances of CardMonitor for TLC. *)
EXTENDS CardMonitor

CONSTANTS a, b

MCCards == {a, b}
MCSplits == {a}
=============================================================================

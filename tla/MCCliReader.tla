---------------------------- MODULE MCCliReader -----------------------------
(* Small instances of CliReader for TLC. *)
EXTENDS CliReader

CONSTANTS a, b, d

MCCards == {a, b, d}

\* Card d answers SELECT with 61 xx.
MCChained == {d}
=============================================================================

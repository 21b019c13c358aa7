---------------------------- MODULE MCCardTable -----------------------------
(* Small instances of CardTable for TLC. *)
EXTENDS CardTable, TLC

CONSTANTS a, b, p

\* b is another number, and what is left of the number of a when a row is cut in it.
MCCids == {a, b}
MCCutsOf == [c \in MCCids |-> IF c = a THEN {b} ELSE {}]
MCProjects == {p}

Good(c) == [cid |-> c, data |-> "whole", project |-> p]
Unnamed(c) == [cid |-> c, data |-> "blank", project |-> NoProject]
Bad == [cid |-> NoCid, data |-> "blank", project |-> NoProject]

\* Files a user may really pick: written by this program on another day, edited
\* by hand (a number repeated, a number missing).
CleanFiles == {<<Good(a)>>, <<Good(b), Good(a), Good(b)>>, <<Bad, Unnamed(b)>>}

NoFiles == {}

\* The same, and files whose encoding breaks part of the way.
AllFiles == CleanFiles \cup {<<Garbled>>, <<Good(a), Garbled, Good(b)>>}

Symmetry == Permutations(MCCids)
=============================================================================

---------------------------- MODULE MCGuiReader -----------------------------
(* Small instances of GuiReader for TLC. *)
EXTENDS GuiReader, TLC

CONSTANTS a, b, p

MCCards == {a, b}
OneCard == {a}
MCSplits == {a}

\* Nothing is exported in these instances, so no row is cut.
NoCuts == [c \in Cids |-> {}]

MCProjects == {p}

FileRow(c) == [cid |-> c, data |-> "whole", project |-> NoProject]
TwoFiles == {<<FileRow(a), FileRow(b)>>, <<FileRow(b), FileRow(a)>>}
OneFile == {<<FileRow(a)>>}
NoFiles == {}

Symmetry == Permutations(MCCards)
=============================================================================

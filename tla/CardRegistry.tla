---------------------------- MODULE CardRegistry ----------------------------
(***************************************************************************)
(* What the record table of the reader promises, without Tk, files or      *)
(* threads: an append-only list of people, one record per citizen number,  *)
(* that is emptied only as a whole.  CardTable implements it.              *)
(***************************************************************************)
EXTENDS Naturals, Sequences

CONSTANTS
    Records     \* what can be registered; every record has a field cid

VARIABLE registry

-----------------------------------------------------------------------------
Registered == {registry[i].cid : i \in DOMAIN registry}

Init == registry = << >>

\* A person is registered once; what is already there keeps its place.
Register(r) ==
    /\ r.cid \notin Registered
    /\ registry' = Append(registry, r)

\* The user throws everything away.
Clear ==
    /\ registry # << >>
    /\ registry' = << >>

Next == Clear \/ \E r \in Records : Register(r)

Spec == Init /\ [][Next]_registry
=============================================================================

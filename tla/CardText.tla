------------------------------ MODULE CardText ------------------------------
(***************************************************************************)
(* parse_name and parse_address of gui_reader.py: how the text of a name   *)
(* or an address, whose parts the card separates by '#', is split.         *)
(*                                                                         *)
(* A text is a sequence of tokens: separators, blanks, and pieces of       *)
(* words.  Pieces with no blank or separator between them are one word.    *)
(* The code looks for two things in a word: the mark of a subdistrict      *)
(* ("mark"; anywhere, inside a word too) and four digits at the beginning  *)
(* of the text ("digits"); any other piece is "plain".                     *)
(***************************************************************************)
EXTENDS Naturals, Sequences

Sep == [kind |-> "sep", word |-> 0]
Blank == [kind |-> "blank", word |-> 0]
IsMark(t) == t.kind = "mark"

FirstOf(I) == CHOOSE i \in I : \A j \in I : i <= j
LastOf(I) == CHOOSE i \in I : \A j \in I : j <= i

\* The elements of s other than e.  (Remove of SequencesExt, as a function that a proof
\* can follow from prefix to prefix; so is Pieces below.)
Without(s, e) ==
    LET without[n \in 0 .. Len(s)] ==
            IF n = 0 THEN << >>
            ELSE IF s[n] = e THEN without[n - 1] ELSE Append(without[n - 1], s[n])
    IN  without[Len(s)]

\* replace('#', ''), which makes one word of two that only separators part, and
\* replace('#', ' ').
Glued(s) == Without(s, Sep)
Spaced(s) == [i \in DOMAIN s |-> IF s[i] = Sep THEN Blank ELSE s[i]]

\* strip(), and the same at the left end only.
Solid(s) == {i \in DOMAIN s : s[i] # Blank}
Strip(s) ==
    IF Solid(s) = {} THEN << >>
    ELSE SubSeq(s, FirstOf(Solid(s)), LastOf(Solid(s)))
LStrip(s) ==
    IF Solid(s) = {} THEN << >> ELSE SubSeq(s, FirstOf(Solid(s)), Len(s))

\* s has n separators in a row, from position i on.
SepsAt(s, n, i) ==
    i + n - 1 <= Len(s) /\ \A j \in i .. i + n - 1 : s[j] = Sep

Has(s, n) == \E i \in 1 .. Len(s) : SepsAt(s, n, i)

\* split('#' * n, 1): what stands before and after the first n separators.
First(s, n) ==
    CHOOSE i \in 1 .. Len(s) :
        SepsAt(s, n, i) /\ \A j \in 1 .. i - 1 : ~SepsAt(s, n, j)
Before(s, n) == SubSeq(s, 1, First(s, n) - 1)
After(s, n) == SubSeq(s, First(s, n) + n, Len(s))

\* split('#'): a separator begins another piece, any other token joins the last one.
Continued(pieces, t) ==
    IF t = Sep THEN Append(pieces, << >>)
    ELSE [pieces EXCEPT ![Len(pieces)] = Append(@, t)]
Pieces(s) ==
    LET pieces[n \in 0 .. Len(s)] ==
            IF n = 0 THEN << << >> >> ELSE Continued(pieces[n - 1], s[n])
    IN  pieces[Len(s)]

\* The n-th of the parts, or nothing.
Part(parts, n) == IF n <= Len(parts) THEN parts[n] ELSE << >>

Stripped(parts) == [n \in DOMAIN parts |-> Strip(parts[n])]

\* f"{x} {y}", and ' '.join of those of the two that are not empty.
Spread(x, y) == x \o << Blank >> \o y
Beside(x, y) ==
    IF x = << >> THEN y ELSE IF y = << >> THEN x ELSE Spread(x, y)

-----------------------------------------------------------------------------
Name(title, first, last, full) ==
    [title |-> title, first |-> first, last |-> last, full |-> full]
UnsplitName(s) == Name(<< >>, << >>, << >>, Spaced(s))

\* The full text has a blank between the parts, whichever of them are empty.
SplitName(title, first, last) ==
    Name(title, first, last, Spread(Spread(title, first), last))

\* Defect: the name is split at every '#', and the third part is the surname.
DefectSplitsAtOne(s) ==
    LET names == Stripped(Pieces(s))
    IN  IF Has(s, 2) /\ Len(names) >= 2
        THEN SplitName(names[1], names[2], Part(names, 3))
        ELSE UnsplitName(s)

\* Defect: no '#' is asked for before '##', and what follows is not looked at.
DefectTitleAlone(s) ==
    LET names == Stripped(Pieces(Before(s, 2)))
    IN  IF Has(s, 2)
        THEN SplitName(names[1], Part(names, 2), Strip(Part(Pieces(After(s, 2)), 1)))
        ELSE UnsplitName(s)

\* parse_name: a text with exactly one '##', and a '#' before it, is split; of any
\* other only the full text is kept.
ParseName(s) ==
    LET names == Stripped(Pieces(Before(s, 2)))
        last == After(s, 2)
    IN  IF Has(s, 2) /\ ~Has(last, 2) /\ Len(names) >= 2
        THEN SplitName(names[1], names[2], Strip(last))
        ELSE UnsplitName(s)

-----------------------------------------------------------------------------
\* parse_address in stages.  A stage takes and gives back the locals of the code:
\* the five parts and rest, the text not yet split.

Split(house, moo, rest) ==
    [house |-> house, moo |-> moo, sub |-> << >>, dist |-> << >>, prov |-> << >>,
     rest |-> rest, bound |-> TRUE]

\* Four digits and blanks in front are taken for a year and dropped.
DropYear(s) ==
    IF Len(s) > 1 /\ s[1].kind = "digits" /\ s[2] = Blank THEN LStrip(Tail(s)) ELSE s

\* The blanks from which only blanks lead to a mark.
BlanksBeforeMark(s) ==
    {i \in DOMAIN s :
        /\ s[i] = Blank
        /\ \E j \in i + 1 .. Len(s) :
              IsMark(s[j]) /\ \A k \in i + 1 .. j - 1 : s[k] = Blank}

\* The text up to position i, and from there on.
Upto(s, i) == Strip(SubSeq(s, 1, i - 1))
From(s, i) == Strip(SubSeq(s, i, Len(s)))

\* '###' parts the house from the rest; the village ends at '##', else before a mark
\* that follows a blank, else at '#', else with the text.
SplitAtThree(s) ==
    LET house == Strip(Before(s, 3))
        tail == After(s, 3)
        marks == BlanksBeforeMark(tail)
    IN  CASE Has(tail, 2) -> Split(house, Strip(Before(tail, 2)), After(tail, 2))
          [] ~Has(tail, 2) /\ marks # {} ->
                Split(house, Upto(tail, FirstOf(marks)), From(tail, FirstOf(marks)))
          [] ~Has(tail, 2) /\ marks = {} /\ Has(tail, 1) ->
                Split(house, Strip(Before(tail, 1)), After(tail, 1))
          [] OTHER -> Split(house, Strip(tail), << >>)

\* No '###': '##' ends the village, and '#' parts the house from it.
SplitAtTwo(s) ==
    LET front == Before(s, 2)
    IN  IF Has(front, 1)
        THEN Split(Strip(Before(front, 1)), Strip(After(front, 1)), After(s, 2))
        ELSE Split(Strip(front), << >>, After(s, 2))

\* Only single '#': the parts in their order.  Nothing is assigned to rest, which
\* stays unbound.
SplitAtOne(s) ==
    LET parts == Stripped(Pieces(s))
    IN  [house |-> Part(parts, 1), moo |-> Part(parts, 2), sub |-> Part(parts, 3),
         dist |-> Part(parts, 4), prov |-> Part(parts, 5),
         rest |-> << >>, bound |-> FALSE]

Divide(s) ==
    CASE Has(s, 3) -> SplitAtThree(s)
      [] Has(s, 2) /\ ~Has(s, 3) -> SplitAtTwo(s)
      [] Has(s, 1) /\ ~Has(s, 2) -> SplitAtOne(s)
      [] OTHER -> Split(<< >>, << >>, s)

\* The parts of the rest that are not blank.
Remaining(d) == Without(Stripped(Pieces(d.rest)), << >>)

\* Defect: the province is taken for the end of the address.
DefectShareRest(d) ==
    LET parts == Remaining(d)
    IN  [d EXCEPT !.sub = IF parts = << >> THEN @ ELSE parts[1],
                  !.dist = IF Len(parts) >= 2 THEN parts[2] ELSE @,
                  !.prov = IF Len(parts) > 3 THEN parts[3] ELSE @]

\* Defect: empty parts count.
DefectKeepsEmptyParts(d) ==
    LET parts == Stripped(Pieces(d.rest))
    IN  [d EXCEPT !.sub = IF parts = << >> THEN @ ELSE parts[1],
                  !.dist = IF Len(parts) >= 2 THEN parts[2] ELSE @,
                  !.prov = IF Len(parts) >= 3 THEN parts[3] ELSE @]

\* The rest holds subdistrict, district and province.
ShareRest(d) ==
    LET parts == Remaining(d)
    IN  [d EXCEPT !.sub = IF parts = << >> THEN @ ELSE parts[1],
                  !.dist = IF Len(parts) >= 2 THEN parts[2] ELSE @,
                  !.prov = IF Len(parts) >= 3 THEN parts[3] ELSE @]

\* Post-processing 1: a mark in the village begins the subdistrict, if that is empty.
TakeMarked(d) ==
    LET marks == {i \in DOMAIN d.moo : IsMark(d.moo[i])}
        village == Upto(d.moo, FirstOf(marks))
        marked == From(d.moo, FirstOf(marks))
    IN  IF d.sub # << >> \/ marks = {} THEN d
        ELSE IF d.dist # << >>
        THEN [d EXCEPT !.prov = d.dist, !.dist = d.sub, !.sub = marked, !.moo = village]
        ELSE [d EXCEPT !.sub = marked, !.moo = village]

\* Defect: the village is not cut from the house.
DefectTakeVillage(d) ==
    IF ~Has(d.house, 1) THEN d
    ELSE [d EXCEPT !.moo = IF @ = << >> THEN Strip(After(d.house, 1)) ELSE @]

\* Post-processing 2: what follows '#' in the house is the village, if that is empty.
TakeVillage(d) ==
    IF ~Has(d.house, 1) THEN d
    ELSE [d EXCEPT !.house = Strip(Before(d.house, 1)),
                   !.moo = IF @ = << >> THEN Strip(After(d.house, 1)) ELSE @]

Address(house, moo, sub, dist, prov, full) ==
    [house |-> house, moo |-> moo, sub |-> sub, dist |-> dist, prov |-> prov, full |-> full]

\* The full text of an address that was split joins the parts that are not empty.
Joined(house, moo, sub, dist, prov) ==
    Address(house, moo, sub, dist, prov,
            Beside(Beside(Beside(Beside(house, moo), sub), dist), prov))

\* '#' is deleted from every part.
Cleaned(d) ==
    Joined(Strip(Glued(d.house)), Strip(Glued(d.moo)), Strip(Glued(d.sub)),
           Strip(Glued(d.dist)), Strip(Glued(d.prov)))

\* Defect: an address that cannot be split is dropped.
DefectParseAddress(s) ==
    LET d == Divide(DropYear(s))
    IN  IF ~d.bound
        THEN Address(<< >>, << >>, << >>, << >>, << >>, << >>)
        ELSE Cleaned(TakeVillage(TakeMarked(ShareRest(d))))

\* parse_address.  The test of rest raises when rest is unbound, and the handler
\* keeps the full text only.
ParseAddress(s) ==
    LET d == Divide(DropYear(s))
    IN  IF ~d.bound
        THEN Address(<< >>, << >>, << >>, << >>, << >>, Spaced(DropYear(s)))
        ELSE Cleaned(TakeVillage(TakeMarked(ShareRest(d))))

-----------------------------------------------------------------------------
\* The columns of the exported file hold the parts; no column holds the full text.
NameColumns(n) == [title |-> n.title, first |-> n.first, last |-> n.last]
AddressColumns(d) ==
    [house |-> d.house, moo |-> d.moo, sub |-> d.sub, dist |-> d.dist, prov |-> d.prov]

\* Defect: the import puts the surname first.
DefectImportedName(row) ==
    Name(row.title, row.first, row.last, Beside(Beside(row.title, row.last), row.first))

\* The import joins the columns that are not empty to the full text again.
ImportedName(row) ==
    Name(row.title, row.first, row.last, Beside(Beside(row.title, row.first), row.last))
ImportedAddress(row) ==
    Joined(row.house, row.moo, row.sub, row.dist, row.prov)
=============================================================================

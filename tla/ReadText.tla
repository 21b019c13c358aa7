------------------------------ MODULE ReadText ------------------------------
(***************************************************************************)
(* Any text a card may hold, built token by token, and what parse_name and *)
(* parse_address (CardText) make of it.  A piece of a word is known by its *)
(* place in the text, so no two pieces are the same.                       *)
(***************************************************************************)
EXTENDS CardText

CONSTANTS
    Texts,      \* texts to begin with
    MaxTokens   \* bound: tokens of a text that is built

\* What a text is made of: the separator, the blank, and pieces of words.
Token == {Sep, Blank} \cup [kind : {"plain", "mark", "digits"}, word : Nat]

ASSUME TokensAssumption == MaxTokens \in Nat
ASSUME TextsAssumption == Texts \subseteq Seq(Token)

VARIABLE text   \* what the card holds

Kinds == {"sep", "blank", "plain", "mark", "digits"}

Init == text \in Texts \cup {<< >>}

\* One more token.  Only at the beginning can it matter for being four digits.
Extend(kind) ==
    /\ Len(text) < MaxTokens
    /\ kind = "digits" => text = << >>
    /\ text' = Append(text, CASE kind = "sep" -> Sep
                              [] kind = "blank" -> Blank
                              [] OTHER -> [kind |-> kind, word |-> Len(text) + 1])

Next == \E kind \in Kinds : Extend(kind)

Spec == Init /\ [][Next]_text

-----------------------------------------------------------------------------
\* thai2unicode strips the text before it is parsed.
Given == Strip(text)
TheName == ParseName(Given)
TheAddress == ParseAddress(Given)

\* What a reader of a text takes for its words: the pieces between blanks, or
\* separators where the card has them.
Words(s) ==
    Without(Pieces([i \in DOMAIN s |-> IF s[i] = Blank THEN Sep ELSE s[i]]), << >>)

\* The number of separators.
Seps == Len(Given) - Len(Glued(Given))

\* The pieces between single separators.
Fields == Pieces(Given)
Field(n) == Strip(Fields[n])
Filled(n) == n <= Len(Fields) /\ Field(n) # << >>

\* No blank stands beside a separator.
Tidy == \A i, j \in DOMAIN Given : j = i + 1 => {Given[i], Given[j]} # {Sep, Blank}

\* s comes of t, a text of different pieces, by leaving out some: any two pieces of s
\* are pieces of t, in the same order.
IsPartOf(s, t) ==
    /\ \A i \in DOMAIN s : \E k \in DOMAIN t : t[k] = s[i]
    /\ \A i, j \in DOMAIN s :
          i < j => \E k, l \in DOMAIN t : k < l /\ t[k] = s[i] /\ t[l] = s[j]

\* The pieces of words, without blanks and separators.
Letters(s) == Without(s, Blank)

\* The parts of an address hold something.
SomePart(d) == \E p \in {d.house, d.moo, d.sub, d.dist, d.prov} : p # << >>

\* gui_reader.py:66, "title#first##last".  A name in the documented form is split as
\* it says, whatever words its parts have.
DocumentedNameIsSplit ==
    Len(Fields) = 4 /\ Filled(1) /\ Filled(2) /\ Fields[3] = << >> /\ Filled(4)
        => /\ TheName.title = Field(1)
           /\ TheName.first = Field(2)
           /\ TheName.last = Field(4)

\* A name of four parts, the third of which is a middle name, is kept to the last
\* word, in its order, whichever of its parts are empty: split or not.
FourPartNameIsKept == Seps = 3 => Words(TheName.full) = Words(Given)

\* gui_reader.py:103, "house###village##subdistrict#district#province".
DocumentedAddressIsSplit ==
    /\ Len(Fields) = 8
    /\ \A n \in {1, 4, 6, 7, 8} : Filled(n)
    /\ \A n \in {2, 3, 5} : Fields[n] = << >>
    => LET d == TheAddress
       IN  /\ d.house = Strip(DropYear(Fields[1]))
           /\ d.moo = Field(4)
           /\ d.sub = Field(6) /\ d.dist = Field(7) /\ d.prov = Field(8)

\* gui_reader.py:205-223.  Whatever an address looks like, what its parts hold is on
\* the card, in that order, and nothing is in two of them; no separator is left.
\* (Where a separator is deleted, two words may run together.)
AddressKeepsOrder == IsPartOf(Letters(TheAddress.full), Letters(Glued(Given)))

\* Only the village and the subdistrict, which are cut at a mark and may keep a
\* separator until it is deleted, can have half a word or two run together: a word of
\* the house, the district or the province is a word of the card.
WordsStayWhole ==
    \A p \in {TheAddress.house, TheAddress.dist, TheAddress.prov} :
       \A i \in DOMAIN Words(p) : \E k \in DOMAIN Words(Given) : Words(Given)[k] = Words(p)[i]

\* An address without blanks beside separators, no part of which could be told, keeps
\* all its words.
UnsplitAddressIsKept ==
    Tidy /\ ~SomePart(TheAddress) => Words(TheAddress.full) = Words(DropYear(Given))

\* The province is known only with the district, and that only with the subdistrict:
\* post-processing 1 relies on it, and so does whoever reads the exported columns.
PartsFillInOrder ==
    LET d == TheAddress
    IN  /\ d.prov # << >> => d.dist # << >>
        /\ d.dist # << >> => d.sub # << >>

\* README_GUI.md:83-90.  A name or an address of which some part could be told has the
\* same words after it was exported and imported again; an address, and a name all of
\* whose parts could be told, is the same to the last blank.
SplitTextSurvivesTheFile ==
    LET n == TheName
        d == TheAddress
        back == ImportedName(NameColumns(n))
    IN  /\ n.title # << >> \/ n.first # << >> \/ n.last # << >>
              => NameColumns(back) = NameColumns(n) /\ Words(back.full) = Words(n.full)
        /\ n.title # << >> /\ n.first # << >> /\ n.last # << >> => back = n
        /\ SomePart(d) => ImportedAddress(AddressColumns(d)) = d
=============================================================================

--------------------------- MODULE ReadTextProofs ---------------------------
(***************************************************************************)
(* Proofs about ReadText, for texts of any length, from the lemmas of      *)
(* CardTextProofs about the operators.                                     *)
(***************************************************************************)
EXTENDS ReadText, CardTextProofs

-----------------------------------------------------------------------------
(* A card holds a text of tokens. *)

OfTokens == text \in Seq(Token)

\* A text is a sequence of tokens.
LEMMA TextOfTokens == Spec => []OfTokens
<1>1. Init => OfTokens
  BY TextsAssumption, EmptySeq DEF Init, OfTokens
<1>2. OfTokens /\ [Next]_text => OfTokens'
  <2> USE DEF OfTokens
  <2> SUFFICES ASSUME text \in Seq(Token), NEW kind \in Kinds, Extend(kind)
               PROVE  text' \in Seq(Token)
    BY DEF Next
  <2> DEFINE t == CASE kind = "sep" -> Sep
                    [] kind = "blank" -> Blank
                    [] OTHER -> [kind |-> kind, word |-> Len(text) + 1]
  <2>1. t \in Token
    <3>1. Len(text) + 1 \in Nat
      BY LenProperties
    <3>2. CASE kind = "sep"
      BY <3>2 DEF Token
    <3>3. CASE kind = "blank"
      BY <3>3 DEF Token
    <3>4. CASE kind \in {"plain", "mark", "digits"}
      <4>1. t = [kind |-> kind, word |-> Len(text) + 1]
        BY <3>4
      <4> QED
        BY <3>1, <3>4, <4>1 DEF Token
    <3> QED
      BY <3>2, <3>3, <3>4 DEF Kinds
  <2>2. text' = Append(text, t)
    BY DEF Extend
  <2> HIDE DEF t
  <2> QED
    BY <2>1, <2>2, AppendProperties
<1> QED
  BY <1>1, <1>2, PTL DEF Spec

\* So is what is parsed, and separators and blanks are tokens.
LEMMA GivenOfTokens ==
  ASSUME OfTokens
  PROVE  Given \in Seq(Token) /\ Sep \in Token /\ Blank \in Token
<1>1. Given \in Seq(Token)
  BY StripHolds DEF OfTokens, Given
<1> QED
  BY <1>1 DEF Token

\* The words as a reader of the text takes them are those of the lemmas.
LEMMA WordsAre == \A s : Words(s) = WordsOf(s)
BY DEF Words, WordsOf, Dashed

\* What is a part of a text by what it holds is one place by place.
LEMMA PartIsPart ==
  ASSUME NEW T, NEW v \in Seq(T), NEW w \in Seq(T), PartOf(v, w)
  PROVE  IsPartOf(v, w)
<1>1. DOMAIN v = 1 .. Len(v) /\ DOMAIN w = 1 .. Len(w)
  BY LenProperties
<1>2. ASSUME NEW i \in 1 .. Len(v) PROVE \E k \in 1 .. Len(w) : w[k] = v[i]
  <2>1. Holds(v, v[i])
    BY DEF Holds
  <2>2. Holds(w, v[i])
    BY <2>1 DEF PartOf
  <2> QED
    BY <2>2 DEF Holds
<1>3. ASSUME NEW i \in 1 .. Len(v), NEW j \in 1 .. Len(v), i < j
      PROVE  \E k, l \in 1 .. Len(w) : k < l /\ w[k] = v[i] /\ w[l] = v[j]
  <2>1. HoldsInOrder(v, v[i], v[j])
    BY <1>3 DEF HoldsInOrder
  <2>2. HoldsInOrder(w, v[i], v[j])
    BY <2>1 DEF PartOf
  <2> QED
    BY <2>2 DEF HoldsInOrder
<1>4. \A i \in DOMAIN v : \E k \in DOMAIN w : w[k] = v[i]
  BY <1>1, <1>2
<1>5. ASSUME NEW i \in DOMAIN v, NEW j \in DOMAIN v, i < j
      PROVE  \E k, l \in DOMAIN w : k < l /\ w[k] = v[i] /\ w[l] = v[j]
  <2>1. i \in 1 .. Len(v) /\ j \in 1 .. Len(v)
    BY <1>1
  <2>2. PICK k \in 1 .. Len(w), l \in 1 .. Len(w) : k < l /\ w[k] = v[i] /\ w[l] = v[j]
    BY <1>3, <1>5, <2>1
  <2> QED
    BY <1>1, <2>2
<1> QED
  BY <1>4, <1>5 DEF IsPartOf

-----------------------------------------------------------------------------
(* Addresses of any form. *)

\* gui_reader.py:102-261.  The full text of an address, whatever was split from it, has
\* the pieces of the card's text alone, in the card's order, and none twice.
THEOREM AddressOrder == Spec => []AddressKeepsOrder
<1>1. ASSUME OfTokens PROVE AddressKeepsOrder
  <2> DEFINE g == Given
             t == DropYear(g)
             d == TakeVillage(TakeMarked(ShareRest(Divide(t))))
             e == ParseAddress(g)
  <2>1. g \in Seq(Token) /\ Blank \in Token
    BY <1>1, GivenOfTokens
  <2> HIDE DEF g
  <2>2. t \in Seq(Token) /\ PartOf(t, g)
    BY <2>1, DropYearDrops
  <2>3. \/ e = Address(<< >>, << >>, << >>, << >>, << >>, Spaced(t))
        \/ e = Cleaned(d) /\ Parted(d, t, Token)
    BY <2>1, ParsedAddress
  <2> HIDE DEF t, d, e
  <2>4. e.full \in Seq(Token) /\ PartOf(Without(e.full, Blank), Core(t))
    <3>1. CASE e = Address(<< >>, << >>, << >>, << >>, << >>, Spaced(t))
      <4>1. e.full = Spaced(t)
        BY <3>1 DEF Address
      <4> QED
        BY <2>1, <2>2, <4>1, SpacedIs
    <3>2. CASE e = Cleaned(d) /\ Parted(d, t, Token)
      BY <2>1, <2>2, <3>2, CleanedFull
    <3> QED
      BY <2>3, <3>1, <3>2
  <2>5. PartOf(Core(t), Core(g))
    BY <2>1, <2>2, CoreOfPart
  <2>6. PartOf(Without(e.full, Blank), Core(g))
    BY <2>4, <2>5 DEF PartOf
  <2>7. Without(e.full, Blank) \in Seq(Token) /\ Core(g) \in Seq(Token)
    BY <2>1, <2>4, WithoutIsSeq, CoreIs
  <2>8. IsPartOf(Without(e.full, Blank), Core(g))
    <3> DEFINE v == Without(e.full, Blank)
               w == Core(g)
    <3>1. v \in Seq(Token) /\ w \in Seq(Token) /\ PartOf(v, w)
      BY <2>6, <2>7
    <3> HIDE DEF v, w
    <3>2. IsPartOf(v, w)
      BY <3>1, PartIsPart
    <3> QED
      BY <3>2 DEF v, w
  <2> QED
    BY <2>8 DEF AddressKeepsOrder, Letters, TheAddress, Core, e, g
<1>2. OfTokens => AddressKeepsOrder
  BY <1>1
<1> QED
  BY <1>2, TextOfTokens, PTL

\* gui_reader.py:177-223.  The province is known only with the district, and that only
\* with the subdistrict, whatever the card holds: empty parts do not count, a
\* subdistrict taken from the village comes before nothing, and no part is nothing but
\* the separators that are deleted.
THEOREM AddressFillsInOrder == Spec => []PartsFillInOrder
<1>1. ASSUME OfTokens PROVE PartsFillInOrder
  <2> DEFINE g == Given
             t == DropYear(g)
             d == TakeVillage(TakeMarked(ShareRest(Divide(t))))
             e == ParseAddress(g)
  <2>1. g \in Seq(Token)
    BY <1>1, GivenOfTokens
  <2> HIDE DEF g
  <2>2. \/ e = Address(<< >>, << >>, << >>, << >>, << >>, Spaced(t))
        \/ e = Cleaned(d) /\ Parted(d, t, Token)
    BY <2>1, ParsedAddress
  <2> HIDE DEF t, d, e
  <2>3. (e.prov # << >> => e.dist # << >>) /\ (e.dist # << >> => e.sub # << >>)
    <3>1. CASE e = Address(<< >>, << >>, << >>, << >>, << >>, Spaced(t))
      BY <3>1 DEF Address
    <3>2. CASE e = Cleaned(d) /\ Parted(d, t, Token)
      <4>1. /\ e.sub = Strip(Glued(d.sub)) /\ e.dist = Strip(Glued(d.dist))
            /\ e.prov = Strip(Glued(d.prov))
        BY <3>2 DEF Cleaned, Joined, Address
      <4>2. /\ d.sub \in Seq(Token) /\ d.dist \in Seq(Token) /\ d.prov \in Seq(Token)
            /\ (d.prov # << >> => d.dist # << >>) /\ (d.dist # << >> => d.sub # << >>)
            /\ (d.sub # << >> => HasWord(d.sub)) /\ (d.dist # << >> => HasWord(d.dist))
        BY <3>2 DEF Parted, Locals
      <4>3. \A x \in Seq(Token) : /\ Strip(Glued(x)) # << >> <=> HasWord(x)
                                  /\ x = << >> => ~HasWord(x)
        BY CleanedPart, HoldsOfEmpty DEF HasWord
      <4> QED
        BY <4>1, <4>2, <4>3
    <3> QED
      BY <2>2, <3>1, <3>2
  <2> QED
    BY <2>3 DEF PartsFillInOrder, TheAddress, e, g
<1>2. OfTokens => PartsFillInOrder
  BY <1>1
<1> QED
  BY <1>2, TextOfTokens, PTL

-----------------------------------------------------------------------------
(* The file. *)

\* A name that was split is its three parts and the full text made of them.
LEMMA SplitOrNot ==
  ASSUME NEW T, NEW s \in Seq(T)
  PROVE  LET n == ParseName(s)
         IN  \/ n.title = << >> /\ n.first = << >> /\ n.last = << >>
             \/ \E a, b, c \in Seq(T) : n = SplitName(a, b, c)
<1> DEFINE names == Stripped(Pieces(Before(s, 2)))
           last == After(s, 2)
<1>1. CASE Has(s, 2) /\ ~Has(last, 2) /\ Len(names) >= 2
  <2>1. Before(s, 2) \in Seq(T) /\ last \in Seq(T)
    <3>1. 2 \in Nat \ {0}
      OBVIOUS
    <3> QED
      BY <1>1, <3>1, DividedText
  <2>2. names \in Seq(Seq(T \ {Sep}))
    BY <2>1, StrippedPieces
  <2>3. Strip(last) \in Seq(T)
    BY <2>1, StripHolds
  <2> DEFINE c == Strip(last)
  <2>4. ParseName(s) = SplitName(names[1], names[2], c)
    BY <1>1 DEF ParseName
  <2> HIDE DEF names, c
  <2>5. names[1] \in Seq(T \ {Sep}) /\ names[2] \in Seq(T \ {Sep})
    <3>1. DOMAIN names = 1 .. Len(names) /\ Len(names) \in Nat
      BY <2>2, LenProperties
    <3>2. Len(names) >= 2
      BY <1>1 DEF names
    <3>3. 1 \in 1 .. Len(names) /\ 2 \in 1 .. Len(names)
      BY <3>1, <3>2
    <3> QED
      BY <2>2, <3>3, ElementOfSeq
  <2>6. names[1] \in Seq(T) /\ names[2] \in Seq(T) /\ c \in Seq(T)
    <3>1. T \ {Sep} \subseteq T
      OBVIOUS
    <3> QED
      BY <2>3, <2>5, <3>1, SeqMonotonic DEF c
  <2> QED
    BY <2>4, <2>6
<1>2. CASE ~(Has(s, 2) /\ ~Has(last, 2) /\ Len(names) >= 2)
  <2>1. ParseName(s) = UnsplitName(s)
    BY <1>2 DEF ParseName
  <2> QED
    BY <2>1 DEF UnsplitName, Name
<1> QED
  BY <1>1, <1>2

\* The name that the columns of one that was split give back.
ComesBack(n) ==
  LET back == ImportedName(NameColumns(n))
  IN  /\ NameColumns(back) = NameColumns(n) /\ WordsOf(back.full) = WordsOf(n.full)
      /\ n.title # << >> /\ n.first # << >> /\ n.last # << >> => back = n

LEMMA SplitNameComesBack ==
  ASSUME NEW T, Sep \in T, Blank \in T, NEW a \in Seq(T), NEW b \in Seq(T), NEW c \in Seq(T)
  PROVE  ComesBack(SplitName(a, b, c))
<1> DEFINE x == Beside(a, b)
           y == Spread(a, b)
           f == Beside(x, c)
           g == Spread(y, c)
           n == SplitName(a, b, c)
           back == ImportedName(NameColumns(n))
<1>1. n = Name(a, b, c, g)
  BY DEF SplitName
<1>2. back = Name(a, b, c, f)
  BY <1>1 DEF ImportedName, NameColumns, Name
<1>3. x \in Seq(T) /\ y \in Seq(T) /\ WordsFollow(x, a, b) /\ WordsFollow(y, a, b) /\ y # << >>
  BY BesideWords, BesideIs
<1>4. a # << >> /\ b # << >> => x = y
  BY DEF Beside
<1> HIDE DEF x, y
<1>5. WordsFollow(f, x, c) /\ WordsFollow(g, y, c)
  BY <1>3, BesideWords
<1>6. WordsOf(f) = WordsOf(g)
  BY <1>3, <1>5 DEF WordsFollow
<1>7. a # << >> /\ b # << >> /\ c # << >> => f = g
  BY <1>3, <1>4 DEF Beside
<1> HIDE DEF f, g, n, back
<1>8. NameColumns(back) = NameColumns(n)
  BY <1>1, <1>2 DEF NameColumns, Name
<1>9. WordsOf(back.full) = WordsOf(n.full)
  BY <1>1, <1>2, <1>6 DEF Name
<1>10. n.title # << >> /\ n.first # << >> /\ n.last # << >> => back = n
  BY <1>1, <1>2, <1>7 DEF Name
<1> QED
  BY <1>8, <1>9, <1>10 DEF ComesBack, n, back

\* An address that was split is its five parts joined.
LEMMA AddressIsJoined ==
  ASSUME NEW s
  PROVE  LET d == ParseAddress(s)
         IN  ~SomePart(d) \/ d = Joined(d.house, d.moo, d.sub, d.dist, d.prov)
<1> DEFINE t == DropYear(s)
           e == TakeVillage(TakeMarked(ShareRest(Divide(t))))
<1>1. CASE ~Divide(t).bound
  BY <1>1 DEF ParseAddress, Address, SomePart
<1>2. CASE Divide(t).bound
  <2>1. ParseAddress(s) = Cleaned(e)
    BY <1>2 DEF ParseAddress
  <2> HIDE DEF e
  <2>2. \A h, m, u, i, p : LET d == Joined(h, m, u, i, p)
                           IN  d = Joined(d.house, d.moo, d.sub, d.dist, d.prov)
    BY DEF Joined, Address
  <2> QED
    BY <2>1, <2>2 DEF Cleaned
<1> QED
  BY <1>1, <1>2

\* README_GUI.md:83-90.  However long the text and however it was split, the columns of
\* a name or an address of which some part is known give its words back, though the two
\* full texts of a name are joined in two ways (gui_reader.py:83 and 668-675).
THEOREM SplitTextSurvives == Spec => []SplitTextSurvivesTheFile
<1>1. ASSUME OfTokens PROVE SplitTextSurvivesTheFile
  <2> DEFINE n == ParseName(Given)
             d == ParseAddress(Given)
             back == ImportedName(NameColumns(n))
  <2>1. Given \in Seq(Token) /\ Sep \in Token /\ Blank \in Token
    BY <1>1, GivenOfTokens
  <2>2. \/ n.title = << >> /\ n.first = << >> /\ n.last = << >>
        \/ \E a, b, c \in Seq(Token) : n = SplitName(a, b, c)
    BY <2>1, SplitOrNot
  <2>3. ~SomePart(d) \/ d = Joined(d.house, d.moo, d.sub, d.dist, d.prov)
    BY AddressIsJoined
  <2> HIDE DEF n, d
  <2>4. n.title # << >> \/ n.first # << >> \/ n.last # << >> => ComesBack(n)
    BY <2>1, <2>2, SplitNameComesBack
  <2>5. /\ n.title # << >> \/ n.first # << >> \/ n.last # << >>
             => NameColumns(back) = NameColumns(n) /\ Words(back.full) = Words(n.full)
        /\ n.title # << >> /\ n.first # << >> /\ n.last # << >> => back = n
    BY <2>4, WordsAre DEF ComesBack
  <2>6. SomePart(d) => ImportedAddress(AddressColumns(d)) = d
    BY <2>3 DEF ImportedAddress, AddressColumns
  <2> QED
    BY <2>5, <2>6 DEF SplitTextSurvivesTheFile, TheName, TheAddress, n, d
<1>2. OfTokens => SplitTextSurvivesTheFile
  BY <1>1
<1> QED
  BY <1>2, TextOfTokens, PTL

-----------------------------------------------------------------------------
(* Names. *)

\* gui_reader.py:65-99.  A name with three separators keeps its words, split or not: where
\* '##' makes it split, the third separator is before it, so that title, first name and
\* last name are all there is.
THEOREM FourPartNames == Spec => []FourPartNameIsKept
<1>1. ASSUME OfTokens PROVE FourPartNameIsKept
  <2>1. Given \in Seq(Token) /\ Sep \in Token /\ Blank \in Token
    BY <1>1, GivenOfTokens
  <2>2. Len(Given) - Len(Glued(Given)) = 3 => WordsOf(ParseName(Given).full) = WordsOf(Given)
    BY <2>1, FourPartName
  <2> QED
    BY <2>2, WordsAre DEF FourPartNameIsKept, Seps, TheName
<1>2. OfTokens => FourPartNameIsKept
  BY <1>1
<1> QED
  BY <1>2, TextOfTokens, PTL

\* gui_reader.py:66-88.  "title#first##last": the first '##' is where the documented form
\* has it, whatever words the parts are.
THEOREM DocumentedNames == Spec => []DocumentedNameIsSplit
<1>1. ASSUME OfTokens PROVE DocumentedNameIsSplit
  <2> DEFINE F == Pieces(Given)
  <2>1. Given \in Seq(Token) /\ Sep \in Token
    BY <1>1, GivenOfTokens
  <2>2. Len(F) = 4 /\ F[2] # << >> /\ F[3] = << >> =>
          /\ ParseName(Given).title = Strip(F[1])
          /\ ParseName(Given).first = Strip(F[2])
          /\ ParseName(Given).last = Strip(F[4])
    BY <2>1, DocumentedName
  <2>3. Strip(<< >>) = << >>
    BY DEF Strip, Solid
  <2> HIDE DEF F
  <2>4. ASSUME Len(F) = 4, Strip(F[2]) # << >>, F[3] = << >>
        PROVE  /\ ParseName(Given).title = Strip(F[1])
               /\ ParseName(Given).first = Strip(F[2])
               /\ ParseName(Given).last = Strip(F[4])
    <3>1. F[2] # << >>
      BY <2>3, <2>4
    <3> QED
      BY <2>2, <2>4, <3>1
  <2> QED
    BY <2>4 DEF DocumentedNameIsSplit, Fields, Field, Filled, TheName, F
<1>2. OfTokens => DocumentedNameIsSplit
  BY <1>1
<1> QED
  BY <1>2, TextOfTokens, PTL

-----------------------------------------------------------------------------
(* Addresses in the documented form. *)

\* gui_reader.py:103-131, 177-189.  "house###village##subdistrict#district#province":
\* each part is where the documented form has it, the house without a year before it,
\* and no later step of the parser moves one.
THEOREM DocumentedAddresses == Spec => []DocumentedAddressIsSplit
<1>1. ASSUME OfTokens PROVE DocumentedAddressIsSplit
  <2> DEFINE F == Pieces(Given)
  <2>1. Given \in Seq(Token) /\ Sep \in Token
    BY <1>1, GivenOfTokens
  <2>2. Strip(<< >>) = << >>
    BY DEF Strip, Solid
  <2>3. \A p \in 1 .. Len(F) : F[p] \in Seq(Token \ {Sep})
    BY <2>1, PieceIsWords
  <2>4. Len(F) = 8 => HasPieces(Given, 8, F)
    BY DEF HasPieces
  <2> HIDE DEF F
  <2>5. ASSUME Len(F) = 8, F[2] = << >>, F[3] = << >>, F[5] = << >>,
               Strip(F[1]) # << >>, Strip(F[6]) # << >>, Strip(F[7]) # << >>, Strip(F[8]) # << >>
        PROVE  LET d == ParseAddress(Given)
               IN  /\ d.house = Strip(DropYear(F[1])) /\ d.moo = Strip(F[4])
                   /\ d.sub = Strip(F[6]) /\ d.dist = Strip(F[7]) /\ d.prov = Strip(F[8])
    <3>1. F[1] # << >> /\ HasPieces(Given, 8, F)
      BY <2>2, <2>4, <2>5
    <3>2. \A p \in 1 .. 8 : F[p] \in Seq(Token \ {Sep})
      BY <2>3, <2>5
    <3>3. ParseAddress(Given) =
            Joined(Strip(DropYear(F[1])), Strip(F[4]), Strip(F[6]), Strip(F[7]), Strip(F[8]))
      BY <2>1, <2>5, <3>1, <3>2, DocumentedAddress
    <3>4. \A h, m, a, b, c : LET d == Joined(h, m, a, b, c)
                             IN  d.house = h /\ d.moo = m /\ d.sub = a /\ d.dist = b /\ d.prov = c
      BY DEF Joined, Address
    <3> QED
      BY <3>3, <3>4
  <2>6. ASSUME Len(Fields) = 8, \A n \in {1, 4, 6, 7, 8} : Filled(n),
               \A n \in {2, 3, 5} : Fields[n] = << >>
        PROVE  LET d == TheAddress
               IN  /\ d.house = Strip(DropYear(Fields[1]))
                   /\ d.moo = Field(4)
                   /\ d.sub = Field(6) /\ d.dist = Field(7) /\ d.prov = Field(8)
    <3>1. /\ Len(F) = 8 /\ F[2] = << >> /\ F[3] = << >> /\ F[5] = << >>
          /\ Strip(F[1]) # << >> /\ Strip(F[6]) # << >> /\ Strip(F[7]) # << >> /\ Strip(F[8]) # << >>
      BY <2>6 DEF Fields, Field, Filled, F
    <3> QED
      BY <2>5, <3>1 DEF Fields, Field, TheAddress, F
  <2> QED
    BY <2>6 DEF DocumentedAddressIsSplit
<1>2. OfTokens => DocumentedAddressIsSplit
  BY <1>1
<1> QED
  BY <1>2, TextOfTokens, PTL

\* gui_reader.py:120-158, 212-216.  A word of the house, the district or the province is
\* a word of the card: they are cut at separators and at blanks alone, and no separator
\* is left in them to be deleted.
THEOREM WordsAreWhole == Spec => []WordsStayWhole
<1>1. ASSUME OfTokens PROVE WordsStayWhole
  <2> DEFINE g == Given
             t == DropYear(g)
             c == Cleaned(TakeVillage(TakeMarked(ShareRest(Divide(t)))))
             e == ParseAddress(g)
  <2>1. g \in Seq(Token) /\ Sep \in Token /\ Blank \in Token
    BY <1>1, GivenOfTokens
  <2> HIDE DEF g
  <2>2. t \in Seq(Token) /\ WordPart(t, g)
    BY <2>1, WordsOfDropYear
  <2>3. \/ ~Divide(t).bound /\ e = Address(<< >>, << >>, << >>, << >>, << >>, Spaced(t))
        \/ Divide(t).bound /\ e = c
    BY DEF ParseAddress
  <2> HIDE DEF t, e
  <2>4. WholeParts(e, t)
    <3>1. CASE ~Divide(t).bound /\ e = Address(<< >>, << >>, << >>, << >>, << >>, Spaced(t))
      BY <3>1, WordsOfNothing DEF WholeParts, Address
    <3>2. CASE Divide(t).bound /\ e = c
      BY <2>1, <2>2, <3>2, CleanedWhole
    <3> QED
      BY <2>3, <3>1, <3>2
  <2> HIDE DEF c
  <2>5. \A p \in {e.house, e.dist, e.prov} : WordPart(p, g)
    BY <2>2, <2>4, WordPartOfPart DEF WholeParts
  <2>6. \A p \in {e.house, e.dist, e.prov} : p \in Seq(Token)
    <3>1. \/ e = Address(<< >>, << >>, << >>, << >>, << >>, Spaced(t))
          \/ \E d : e = Cleaned(d) /\ Parted(d, t, Token)
      BY <2>1, ParsedAddress DEF e, t
    <3>2. CASE e = Address(<< >>, << >>, << >>, << >>, << >>, Spaced(t))
      <4>1. << >> \in Seq(Token)
        BY EmptySeq
      <4> QED
        BY <3>2, <4>1 DEF Address
    <3>3. CASE \E d : e = Cleaned(d) /\ Parted(d, t, Token)
      <4>1. PICK d : e = Cleaned(d) /\ Parted(d, t, Token)
        BY <3>3
      <4>2. d.house \in Seq(Token) /\ d.dist \in Seq(Token) /\ d.prov \in Seq(Token)
        BY <4>1 DEF Parted, Locals
      <4>3. \A x \in Seq(Token) : Strip(Glued(x)) \in Seq(Token)
        BY CleanedPart
      <4>4. /\ e.house = Strip(Glued(d.house)) /\ e.dist = Strip(Glued(d.dist))
            /\ e.prov = Strip(Glued(d.prov))
        BY <4>1 DEF Cleaned, Joined, Address
      <4> QED
        BY <4>2, <4>3, <4>4
    <3> QED
      BY <3>1, <3>2, <3>3
  <2>7. ASSUME NEW p \in {e.house, e.dist, e.prov}, NEW i \in DOMAIN Words(p)
        PROVE  \E k \in DOMAIN Words(g) : Words(g)[k] = Words(p)[i]
    <3> DEFINE v == WordsOf(p)
               w == WordsOf(g)
    <3>1. v \in Seq(Seq(Token)) /\ w \in Seq(Seq(Token))
      BY <2>1, <2>6, WordsJoined
    <3>2. Words(p) = v /\ Words(g) = w /\ \A a : Holds(v, a) => Holds(w, a)
      BY <2>5, WordsAre DEF WordPart
    <3> HIDE DEF v, w
    <3>3. DOMAIN v = 1 .. Len(v) /\ DOMAIN w = 1 .. Len(w)
      BY <3>1, LenProperties
    <3>4. Holds(v, v[i])
      BY <3>2, <3>3 DEF Holds
    <3>5. Holds(w, v[i])
      BY <3>2, <3>4
    <3> QED
      BY <3>2, <3>3, <3>5 DEF Holds
  <2> QED
    BY <2>7 DEF WordsStayWhole, TheAddress, e, g
<1>2. OfTokens => WordsStayWhole
  BY <1>1
<1> QED
  BY <1>2, TextOfTokens, PTL

\* gui_reader.py:177-250, 261.  Without blanks beside separators no part is empty for want
\* of words: an address all of whose parts are empty has the words of the card in full.
THEOREM AddressKeepsText == Spec => []UnsplitAddressIsKept
<1>1. ASSUME OfTokens PROVE UnsplitAddressIsKept
  <2> SUFFICES ASSUME Tidy, ~SomePart(TheAddress)
               PROVE  Words(TheAddress.full) = Words(DropYear(Given))
    BY DEF UnsplitAddressIsKept
  <2> DEFINE g == Given
             t == DropYear(g)
             d == TakeVillage(TakeMarked(ShareRest(Divide(t))))
             e == ParseAddress(g)
  <2>1. g \in Seq(Token) /\ Sep \in Token /\ Blank \in Token
    BY <1>1, GivenOfTokens
  <2>2. Neat(g)
    <3>1. \A i, j \in DOMAIN g : j = i + 1 => {g[i], g[j]} # {Sep, Blank}
      BY DEF Tidy
    <3> HIDE DEF g
    <3>2. DOMAIN g = 1 .. Len(g) /\ Len(g) \in Nat
      BY <2>1, LenProperties
    <3>3. ASSUME NEW i \in 1 .. Len(g) - 1, g[i] = Sep, g[i + 1] = Blank PROVE FALSE
      <4>1. i \in 1 .. Len(g) /\ i + 1 \in 1 .. Len(g)
        BY <3>2
      <4>2. {g[i], g[i + 1]} # {Sep, Blank}
        BY <3>1, <3>2, <4>1
      <4> QED
        BY <3>3, <4>2
    <3> QED
      BY <3>3 DEF Neat
  <2> HIDE DEF g
  <2>3. t \in Seq(Token) /\ (t # g => \E u \in Seq(Token) : g = u \o t)
    BY <2>1, DropYearDrops
  <2>4. \/ /\ ~Divide(t).bound
           /\ e = Address(<< >>, << >>, << >>, << >>, << >>, Spaced(t))
        \/ /\ Divide(t).bound
           /\ e = Cleaned(d)
           /\ Parted(d, t, Token)
           /\ VillageHasWord(ShareRest(Divide(t))) => WordsKept(d, t)
    BY <2>1, ParsedAddress
  <2>5. ~SomePart(e)
    BY DEF TheAddress, e, g
  <2> HIDE DEF t, e
  <2>6. Neat(t)
    BY <2>1, <2>2, <2>3, NeatJoined
  <2>7. WordsOf(e.full) = WordsOf(t)
    <3>1. CASE e = Address(<< >>, << >>, << >>, << >>, << >>, Spaced(t))
      <4>1. e.full = Spaced(t)
        BY <3>1 DEF Address
      <4> QED
        BY <2>1, <2>3, <4>1, SpacedIs
    <3>2. CASE /\ Divide(t).bound
               /\ e = Cleaned(d)
               /\ Parted(d, t, Token)
               /\ VillageHasWord(ShareRest(Divide(t))) => WordsKept(d, t)
      <4>1. ShareRest(Divide(t)).moo = Divide(t).moo
        BY <2>3, <3>2, DivideDivides, ShareRestParts
      <4>2. Divide(t).moo # << >> => HasWord(Divide(t).moo)
        BY <2>1, <2>3, <2>6, <3>2, NeatVillage
      <4>3. VillageHasWord(ShareRest(Divide(t)))
        BY <4>1, <4>2 DEF VillageHasWord
      <4>4. WordsKept(d, t) /\ Parted(d, t, Token)
        BY <3>2, <4>3
      <4> HIDE DEF d
      <4>5. /\ e.house = Strip(Glued(d.house)) /\ e.moo = Strip(Glued(d.moo))
            /\ e.sub = Strip(Glued(d.sub)) /\ e.dist = Strip(Glued(d.dist))
            /\ e.prov = Strip(Glued(d.prov))
            /\ e.full = Beside(Beside(Beside(Beside(e.house, e.moo), e.sub), e.dist), e.prov)
        BY <3>2 DEF Cleaned, Joined, Address
      <4>6. /\ e.house = << >> /\ e.moo = << >> /\ e.sub = << >> /\ e.dist = << >>
            /\ e.prov = << >>
        BY <2>5 DEF SomePart
      <4>7. \A x \in Seq(Token) : Strip(Glued(x)) # << >> <=> HasWord(x)
        BY CleanedPart
      <4>8. d.house \in Seq(Token) /\ d.moo \in Seq(Token) /\ d.sub \in Seq(Token)
        BY <4>4 DEF Parted, Locals
      <4>9. ~HasWord(d.house) /\ ~HasWord(d.moo) /\ ~HasWord(d.sub)
        BY <4>5, <4>6, <4>7, <4>8
      <4>10. ~HasWord(t)
        BY <4>4, <4>9 DEF WordsKept
      <4>11. WordsOf(t) = << >>
        BY <2>3, <4>10, WordsOfGaps
      <4>12. e.full = << >>
        BY <4>5, <4>6 DEF Beside
      <4> QED
        BY <4>11, <4>12, WordsOfNothing
    <3> QED
      BY <2>4, <3>1, <3>2
  <2> QED
    BY <2>7, WordsAre DEF TheAddress, e, t, g
<1>2. OfTokens => UnsplitAddressIsKept
  BY <1>1
<1> QED
  BY <1>2, TextOfTokens, PTL
=============================================================================

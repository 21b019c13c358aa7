-------------------------- MODULE CardFieldsProofs --------------------------
(***************************************************************************)
(* Proofs about CardFields: reading a card field by field, whatever the    *)
(* texts on the cards, is what CardMonitor says in one step.               *)
(***************************************************************************)
EXTENDS CardFields, CardMonitorProofs

-----------------------------------------------------------------------------
(* The steps of CardFields and those of CardMonitor. *)

\* Neither a field nor the delivery of a record.
Elsewhere ==
  \/ Poll \/ Enumerate \/ NameReader \/ ShowReader \/ PaintReader
  \/ ConnectFails \/ ConnectFindsNoCard \/ Connect \/ Absent
  \/ Select \/ Identify \/ Claim \/ Say \/ MonitorStops
  \/ MainStep \/ UserStep \/ WorldStep
  \/ UNCHANGED vars

LEMMA StepCases ==
  [FieldsNext]_allVars => ReadField \/ DeliverFields \/ (Elsewhere /\ UNCHANGED fields)
BY DEF FieldsNext, FieldsMonitorStep, FieldsTkCall, Elsewhere, allVars

LEMMA ElsewhereIsStep == Elsewhere => [Next]_vars
BY DEF Elsewhere, Next, MonitorStep, TkCall

\* Seen from the reading of a card, the rest of the program leaves it alone, ends it,
\* or is not yet there.
Leaves == mon' = mon /\ cid' = cid /\ data' = data /\ faults' = faults /\ link' \in {link, Dead}
Ends == mon' = "stopped" /\ faults' = faults /\ UNCHANGED <<link, cid, data>>
Precedes == /\ mon \notin {"read", "deliver", "stopped"} /\ mon' # "deliver"
            /\ faults' = faults \/ (faults > 0 /\ faults' = faults - 1)

LEMMA ElsewhereCases == Elsewhere => Leaves \/ Ends \/ Precedes
<1>1. CASE Poll \/ Enumerate \/ NameReader \/ ShowReader \/ PaintReader
  BY <1>1 DEF Poll, Enumerate, NameReader, ShowReader, PaintReader, Goto, world, Precedes
<1>2. CASE ConnectFails \/ ConnectFindsNoCard \/ Connect \/ Absent \/ Claim \/ Say
  BY <1>2 DEF ConnectFails, ConnectFindsNoCard, Connect, Absent, Claim, Say, Goto, world,
              Precedes
<1>3. CASE Select
  BY <1>3 DEF Select, Transmit, NoAnswer, Goto, Precedes
<1>4. CASE Identify
  BY <1>4 DEF Identify, Transmit, NoAnswer, Goto, Precedes
<1>5. CASE MonitorStops
  BY <1>5 DEF MonitorStops, Goto, world, Ends
<1>6. CASE MainStep \/ UserStep \/ UNCHANGED vars
  BY <1>6 DEF MainStep, UserStep, RunPaint, RunStatus, RunAdd, TakeEvent, RefreshFinds,
       RefreshFindsNone, Settle, ClickRefresh, Forget, Close, world, thread, vars, Leaves
<1>7. CASE WorldStep
  BY <1>7 DEF WorldStep, InsertCard, RemoveCard, ReplugReader, thread, Leaves
<1> QED
  BY <1>1, <1>2, <1>3, <1>4, <1>5, <1>6, <1>7 DEF Elsewhere

-----------------------------------------------------------------------------
(* The locals of a read. *)

Fields == 1 .. Len(FieldOrder)

LEMMA EightFields == Len(FieldOrder) = 8 /\ Fields = 1 .. 8 /\ DOMAIN NoRecord = Fields
BY DEF FieldOrder, Fields, NoRecord

\* What a read keeps while fields are read and cards are swapped.
FieldTypes ==
  /\ rec \in [Fields -> Cards \cup {NoCid}]
  /\ next \in Fields
  /\ lost \in Nat /\ faults + lost <= MaxFaults

Idle ==
  /\ mon \notin {"read", "stopped"} => lost = 0 /\ next = 1
  /\ mon \notin {"read", "deliver", "stopped"} => rec = NoRecord

ReadFromOne ==
  mon \in {"read", "deliver"} => \A f \in Fields : rec[f] \in {cid, NoCid}

\* A fault leaves its mark in the record, and so does the end of the connection.  Two
\* faults leave one in another field than the gender.
LossShows ==
  mon = "read" =>
    /\ lost > 0 => \E f \in Fields : f < next /\ rec[f] = NoCid
    /\ lost > 1 => \E f \in Fields : f < next /\ f # 4 /\ rec[f] = NoCid
    /\ lost = 0 /\ link \in Cards => \A f \in Fields : f < next => rec[f] = cid

DataIsOfRecord == mon = "deliver" => data = DataOf(rec)

FieldsInv ==
  /\ TypeInv /\ OneCardInv
  /\ FieldTypes /\ Idle /\ ReadFromOne /\ LossShows /\ DataIsOfRecord

LEMMA FieldsInitInv == FieldsInit => FieldsInv
<1> SUFFICES ASSUME FieldsInit PROVE FieldsInv
  OBVIOUS
<1>1. TypeInv /\ OneCardInv
  BY InitTypes DEF FieldsInit, Init, OneCardInv
<1>2. mon = "poll" /\ faults = MaxFaults /\ rec = NoRecord /\ next = 1 /\ lost = 0
  BY DEF FieldsInit, Init
<1>3. NoRecord \in [Fields -> Cards \cup {NoCid}]
  BY DEF NoRecord, Fields
<1>4. FieldTypes
  BY <1>2, <1>3, EightFields, BoundsAssumption DEF FieldTypes
<1> QED
  BY <1>1, <1>2, <1>4 DEF FieldsInv, Idle, ReadFromOne, LossShows, DataIsOfRecord

\* Steps that do not read.
LEMMA ElsewhereKeeps ==
  ASSUME FieldsInv, Elsewhere, UNCHANGED fields
  PROVE  FieldsInv'
<1>1. TypeInv' /\ OneCardInv'
  BY ElsewhereIsStep, TypesAreInductive, OneCardStep DEF FieldsInv
<1>2. rec' = rec /\ next' = next /\ lost' = lost
  BY DEF fields
<1>3. faults \in Nat /\ NoCid \notin Cards /\ Dead \notin Cards
  BY CardsAssumption, BoundsAssumption DEF FieldsInv, TypeInv, TypeOK
<1>4. CASE Leaves
  <2>1. FieldTypes' /\ Idle' /\ DataIsOfRecord'
    BY <1>2, <1>4 DEF FieldsInv, FieldTypes, Idle, DataIsOfRecord, Leaves
  <2>2. ReadFromOne' /\ LossShows'
    BY <1>2, <1>3, <1>4 DEF FieldsInv, ReadFromOne, LossShows, Leaves
  <2> QED
    BY <1>1, <2>1, <2>2 DEF FieldsInv
<1>5. CASE Ends
  BY <1>1, <1>2, <1>5
     DEF FieldsInv, FieldTypes, Idle, DataIsOfRecord, ReadFromOne, LossShows, Ends
<1>6. CASE Precedes
  <2>1. rec = NoRecord /\ next = 1 /\ lost = 0
    BY <1>6 DEF FieldsInv, Idle, Precedes
  <2>2. faults' + lost' <= MaxFaults
    BY <1>2, <1>3, <1>6, BoundsAssumption DEF FieldsInv, FieldTypes, Precedes
  <2>3. FieldTypes' /\ Idle' /\ DataIsOfRecord'
    BY <1>2, <1>6, <2>1, <2>2
       DEF FieldsInv, FieldTypes, Idle, DataIsOfRecord, Precedes
  <2>4. \A f \in Fields : rec'[f] = NoCid /\ ~(f < next')
    BY <1>2, <2>1 DEF NoRecord, Fields
  <2>5. ReadFromOne' /\ LossShows'
    BY <1>2, <2>1, <2>4 DEF ReadFromOne, LossShows
  <2> QED
    BY <1>1, <2>3, <2>5 DEF FieldsInv
<1> QED
  BY <1>4, <1>5, <1>6, ElsewhereCases
\* The delivery forgets the record that was read.
LEMMA DeliverKeeps ==
  ASSUME FieldsInv, DeliverFields
  PROVE  FieldsInv'
<1>1. Deliver /\ rec' = NoRecord /\ next' = next /\ lost' = lost
  BY DEF DeliverFields
<1>2. mon = "deliver" /\ mon' = "say" /\ faults' = faults
  BY <1>1 DEF Deliver, Goto, world
<1>3. TypeInv' /\ OneCardInv'
  BY <1>1, TypesAreInductive, OneCardStep DEF FieldsInv, Next, MonitorStep, TkCall
<1>4. NoRecord \in [Fields -> Cards \cup {NoCid}]
  BY DEF NoRecord, Fields
<1>5. FieldTypes' /\ Idle'
  BY <1>1, <1>2, <1>4 DEF FieldsInv, FieldTypes, Idle
<1> QED
  BY <1>2, <1>3, <1>5 DEF FieldsInv, ReadFromOne, LossShows, DataIsOfRecord

\* What one transmission adds to the record.
LEMMA OneTransmission ==
  ASSUME FieldsInv, ReadField
  PROVE  /\ mon = "read" /\ rec' \in [Fields -> Cards \cup {NoCid}]
         /\ \A f \in Fields : f # next => rec'[f] = rec[f]
         /\ \/ link \in Cards /\ link = cid /\ rec'[next] = cid /\ faults' = faults
            \/ link \notin Cards /\ rec'[next] = NoCid /\ faults' = faults
            \/ rec'[next] = NoCid /\ faults > 0 /\ faults' = faults - 1
<1>1. /\ mon = "read" /\ NoCid \notin Cards /\ Dead \notin Cards
      /\ rec \in [Fields -> Cards \cup {NoCid}] /\ next \in Fields
  BY CardsAssumption DEF ReadField, FieldsInv, FieldTypes
<1>2. link \in Cards => link = cid
  BY <1>1 DEF FieldsInv, OneCardInv
<1>3. CASE Transmit /\ rec' = [rec EXCEPT ![next] = link]
  BY <1>1, <1>2, <1>3 DEF Transmit
<1>4. CASE NoAnswer /\ rec' = [rec EXCEPT ![next] = NoCid]
  BY <1>1, <1>4 DEF NoAnswer
<1> QED
  BY <1>3, <1>4 DEF ReadField

\* Faults move from those still to come to those used up by the read.
LEMMA FaultsMove ==
  ASSUME NEW m \in Nat, NEW f \in Nat, NEW g \in Nat, NEW l \in Nat, f + l <= m, g <= f
  PROVE  /\ l + (f - g) \in Nat
         /\ g + (l + (f - g)) <= m
         /\ l + (f - g) = 0 => l = 0 /\ g = f
OBVIOUS

\* One fault is used up at most by one field.
LEMMA FaultsAdd ==
  ASSUME NEW f \in Nat, NEW g \in Nat, NEW l \in Nat, g = f \/ (f > 0 /\ g = f - 1),
         l + (f - g) > 1
  PROVE  l > 1 \/ (l = 1 /\ g = f - 1 /\ f > 0)
OBVIOUS

\* The record is of one card, and shows what was lost, after each field.
LEMMA ReadFieldKeeps ==
  ASSUME FieldsInv, ReadField
  PROVE  FieldsInv'
<1>1. /\ next \in 1 .. 8 /\ lost \in Nat /\ faults \in Nat
      /\ faults + lost <= MaxFaults /\ MaxFaults \in Nat
      /\ NoCid \notin Cards
  BY EightFields, CardsAssumption, BoundsAssumption
     DEF FieldsInv, FieldTypes, TypeInv, TypeOK
<1>2. /\ faults' \in Nat /\ faults' <= faults /\ faults' \in 0 .. MaxFaults
  BY <1>1, OneTransmission
<1>3. UNCHANGED <<readers, slot, link, reader, currentCid, attempt, cid, say, found,
                  main, events, labels>>
  BY DEF ReadField
<1>4. ReadFromOne' /\ rec' \in [Fields -> Cards \cup {NoCid}]
  <2>1. \A f \in Fields : rec[f] \in {cid, NoCid}
    BY OneTransmission DEF FieldsInv, ReadFromOne
  <2>2. \A f \in Fields : rec'[f] \in {cid, NoCid}
    BY <2>1, OneTransmission
  <2> QED
    BY <1>3, <2>2, OneTransmission DEF ReadFromOne
<1>5. CASE next < Len(FieldOrder)
  <2>1. /\ next' = next + 1 /\ lost' = lost + (faults - faults')
        /\ mon' = "read" /\ data' = data
    BY <1>5, OneTransmission DEF ReadField
  <2>2. next' \in Fields /\ lost' \in Nat /\ faults' + lost' <= MaxFaults
    <3>1. next' \in Fields
      BY <1>1, <1>5, <2>1, EightFields
    <3>2. lost' = lost + (faults - faults')
      BY <2>1
    <3> QED
      BY <1>1, <1>2, <3>1, <3>2, FaultsMove
  <2>3. TypeInv' /\ OneCardInv'
    BY <1>2, <1>3, <2>1, OneTransmission
       DEF FieldsInv, TypeInv, TypeOK, Identified, OneCardInv, labels
  <2>4. lost' > 0 => \E f \in Fields : f < next' /\ rec'[f] = NoCid
    <3>1. CASE lost > 0
      <4>1. PICK f \in Fields : f < next /\ rec[f] = NoCid
        BY <3>1, OneTransmission DEF FieldsInv, LossShows
      <4>2. rec'[f] = NoCid /\ f < next'
        BY <1>1, <2>1, <4>1, EightFields, OneTransmission
      <4> QED
        BY <4>2
    <3>2. CASE lost = 0 /\ lost' > 0
      <4>1. rec'[next] = NoCid
        BY <1>1, <2>1, <3>2, OneTransmission
      <4> QED
        BY <1>1, <2>1, <4>1, EightFields
    <3> QED
      BY <1>1, <3>1, <3>2
  <2>6. lost' > 1 => \E f \in Fields : f < next' /\ f # 4 /\ rec'[f] = NoCid
    <3> SUFFICES ASSUME lost' > 1
                 PROVE  \E f \in Fields : f < next' /\ f # 4 /\ rec'[f] = NoCid
      OBVIOUS
    <3>1. CASE lost > 1
      <4>1. PICK f \in Fields : f < next /\ f # 4 /\ rec[f] = NoCid
        BY <3>1, OneTransmission DEF FieldsInv, LossShows
      <4>2. rec'[f] = NoCid /\ f < next'
        BY <1>1, <2>1, <4>1, EightFields, OneTransmission
      <4> QED
        BY <4>1, <4>2
    <3>2. CASE ~(lost > 1)
      <4>1. faults' = faults \/ (faults > 0 /\ faults' = faults - 1)
        BY OneTransmission
      <4>2. lost + (faults - faults') > 1
        BY <2>1
      <4>3. lost = 1 /\ faults' = faults - 1 /\ faults > 0
        BY <1>1, <1>2, <3>2, <4>1, <4>2, FaultsAdd
      <4>4. rec'[next] = NoCid
        BY <1>1, <4>3, OneTransmission
      <4>5. PICK f \in Fields : f < next /\ rec[f] = NoCid
        BY <1>1, <4>3, OneTransmission DEF FieldsInv, LossShows
      <4>6. rec'[f] = NoCid /\ f < next'
        BY <1>1, <2>1, <4>5, EightFields, OneTransmission
      <4> QED
        BY <1>1, <2>1, <4>4, <4>5, <4>6, EightFields
    <3> QED
      BY <3>1, <3>2
  <2>5. lost' = 0 /\ link' \in Cards => \A f \in Fields : f < next' => rec'[f] = cid'
    <3> SUFFICES ASSUME lost' = 0, link' \in Cards, NEW f \in Fields, f < next'
                 PROVE  rec'[f] = cid'
      OBVIOUS
    <3>1. lost = 0 /\ faults' = faults
      <4>1. lost + (faults - faults') = 0
        BY <2>1
      <4> QED
        BY <1>1, <1>2, <4>1, FaultsMove
    <3>2. link \in Cards /\ link = cid /\ rec'[next] = cid
      BY <1>1, <1>3, <3>1, OneTransmission
    <3>3. f < next => rec[f] = cid
      BY <3>1, <3>2, OneTransmission DEF FieldsInv, LossShows
    <3>4. f < next \/ f = next
      BY <1>1, <2>1, EightFields
    <3> QED
      BY <1>1, <1>3, <3>2, <3>3, <3>4, EightFields, OneTransmission
  <2> QED
    BY <1>4, <2>1, <2>2, <2>3, <2>4, <2>5, <2>6
       DEF FieldsInv, FieldTypes, Idle, LossShows, DataIsOfRecord
<1>6. CASE ~(next < Len(FieldOrder))
  <2>1. /\ next' = 1 /\ lost' = 0 /\ data' = DataOf(rec') /\ mon' = "deliver"
    BY <1>6 DEF ReadField, Goto
  <2>2. data' \in Data
    BY <2>1 DEF DataOf, Data
  <2>3. TypeInv'
    BY <1>2, <1>3, <2>1, <2>2, OneTransmission
       DEF FieldsInv, TypeInv, TypeOK, Identified, labels, MonitorPhases
  <2>4. FieldTypes'
    BY <1>2, <1>4, <2>1, EightFields DEF FieldTypes
  <2> QED
    BY <1>4, <2>1, <2>3, <2>4
       DEF FieldsInv, OneCardInv, Idle, LossShows, DataIsOfRecord
<1> QED
  BY <1>5, <1>6

LEMMA FieldsInvIsInductive == FieldsInv /\ [FieldsNext]_allVars => FieldsInv'
BY StepCases, ElsewhereKeeps, DeliverKeeps, ReadFieldKeeps

LEMMA FieldsInvHolds == FieldsSpec => []FieldsInv
BY FieldsInitInv, FieldsInvIsInductive, PTL DEF FieldsSpec

\* The monitor and the locals of its read keep their types.
THEOREM FieldsTypeCorrect == FieldsSpec => []FieldsTypeOK
<1>1. FieldsInv => FieldsTypeOK
  <2> SUFFICES ASSUME FieldsInv PROVE FieldsTypeOK
    OBVIOUS
  <2>1. lost \in 0 .. MaxFaults
    BY BoundsAssumption DEF FieldsInv, FieldTypes, TypeInv, TypeOK
  <2> QED
    BY <2>1, EightFields DEF FieldsTypeOK, FieldsInv, FieldTypes, TypeInv, Fields
<1> QED
  BY FieldsInvHolds, <1>1, PTL

\* A record bears the number of the card its fields were read from.
THEOREM FieldsAreOfOneCard == FieldsSpec => []FieldsOfOneCard
<1>1. FieldsInv => FieldsOfOneCard
  BY EightFields DEF FieldsInv, FieldTypes, ReadFromOne, FieldsOfOneCard
<1> QED
  BY FieldsInvHolds, <1>1, PTL

-----------------------------------------------------------------------------
(* What a record amounts to. *)

\* The functions in the definitions of Without and Pieces, for the empty text.
NothingLeft(e, f) ==
  f = [n \in 0 .. Len(<< >>) |->
         IF n = 0 THEN << >>
         ELSE IF << >>[n] = e THEN f[n - 1] ELSE Append(f[n - 1], << >>[n])]

NothingSplit(f) ==
  f = [n \in 0 .. Len(<< >>) |->
         IF n = 0 THEN << << >> >> ELSE Text!Continued(f[n - 1], << >>[n])]

\* Nothing is left of the empty text, which is one empty piece.
LEMMA NoText ==
  /\ \A e : Text!Without(<< >>, e) = << >>
  /\ Text!Pieces(<< >>) = << << >> >>
<1>1. 0 .. Len(<< >>) = {0}
  OBVIOUS
<1>2. ASSUME NEW e PROVE Text!Without(<< >>, e) = << >>
  <2> DEFINE G == CHOOSE f : NothingLeft(e, f)
  <2>1. NothingLeft(e, [n \in {0} |-> << >>])
    BY <1>1 DEF NothingLeft
  <2>2. NothingLeft(e, G)
    BY <2>1
  <2>3. G[0] = << >>
    <3> HIDE DEF G
    <3> QED
      BY <1>1, <2>2 DEF NothingLeft
  <2>4. Text!Without(<< >>, e) = G[Len(<< >>)]
    BY DEF Text!Without, NothingLeft
  <2> QED
    BY <2>3, <2>4
<1>3. Text!Pieces(<< >>) = << << >> >>
  <2> DEFINE G == CHOOSE f : NothingSplit(f)
  <2>1. NothingSplit([n \in {0} |-> << << >> >>])
    BY <1>1 DEF NothingSplit
  <2>2. NothingSplit(G)
    BY <2>1
  <2>3. G[0] = << << >> >>
    <3> HIDE DEF G
    <3> QED
      BY <1>1, <2>2 DEF NothingSplit
  <2>4. Text!Pieces(<< >>) = G[Len(<< >>)]
    BY DEF Text!Pieces, NothingSplit
  <2> QED
    BY <2>3, <2>4
<1> QED
  BY <1>2, <1>3

\* Of a text that could not be read the parsers make nothing.
LEMMA EmptyTexts ==
  Text!ParseName(<< >>).full = << >> /\ Text!ParseAddress(<< >>).full = << >>
<1>1. \A n : ~Text!Has(<< >>, n)
  BY DEF Text!Has
<1>2. Text!Strip(<< >>) = << >>
  BY DEF Text!Strip, Text!Solid
<1>3. Text!ParseName(<< >>).full = << >>
  <2>1. Text!ParseName(<< >>) = Text!UnsplitName(<< >>)
    BY <1>1 DEF Text!ParseName
  <2>2. Text!Spaced(<< >>) = << >>
    BY DEF Text!Spaced
  <2> QED
    BY <2>1, <2>2 DEF Text!UnsplitName, Text!Name
<1>4. Text!ParseAddress(<< >>).full = << >>
  <2> DEFINE d == Text!Split(<< >>, << >>, << >>)
  <2>1. Text!DropYear(<< >>) = << >>
    BY DEF Text!DropYear
  <2>2. Text!Divide(<< >>) = d
    BY <1>1 DEF Text!Divide
  <2>3. Text!Remaining(d) = << >>
    <3>1. d.rest = << >>
      BY DEF Text!Split
    <3>2. Text!Stripped(<< << >> >>) = << << >> >>
      BY <1>2 DEF Text!Stripped
    <3>3. Text!Without(<< << >> >>, << >>) = << >>
      <4> DEFINE s == << << >> >>
                 L == [n \in 0 .. 1 |-> << >>]
                 Left(f) == f = [n \in 0 .. Len(s) |->
                                   IF n = 0 THEN << >>
                                   ELSE IF s[n] = << >> THEN f[n - 1]
                                        ELSE Append(f[n - 1], s[n])]
                 G == CHOOSE f : Left(f)
      <4>1. Len(s) = 1 /\ s[1] = << >> /\ 0 .. 1 = {0, 1}
        OBVIOUS
      <4>2. Left(L)
        <5>1. \A n \in 0 .. 1 : n = 0 \/ (s[n] = << >> /\ L[n - 1] = << >>)
          BY <4>1
        <5> QED
          BY <4>1, <5>1
      <4>3. Left(G)
        BY <4>2
      <4>4. G[1] = << >>
        <5>1. G[0] = << >> /\ G[1] = G[0]
          <6> HIDE DEF G
          <6> QED
            BY <4>1, <4>3
        <5> QED
          BY <5>1
      <4>5. Text!Without(s, << >>) = G[Len(s)]
        BY DEF Text!Without
      <4> QED
        BY <4>1, <4>4, <4>5
    <3> QED
      BY <3>1, <3>2, <3>3, NoText DEF Text!Remaining
  <2>4. Text!ShareRest(d) = d
    <3>1. Text!ShareRest(d) = [d EXCEPT !.sub = d.sub, !.dist = d.dist, !.prov = d.prov]
      <4>1. ~(Len(<< >>) >= 2) /\ ~(Len(<< >>) >= 3)
        OBVIOUS
      <4> HIDE DEF d
      <4> QED
        BY <2>3, <4>1 DEF Text!ShareRest
    <3> QED
      BY <3>1 DEF Text!Split
  <2>5. Text!TakeMarked(d) = d
    BY DEF Text!TakeMarked, Text!Split
  <2>6. Text!TakeVillage(d) = d
    BY <1>1 DEF Text!TakeVillage, Text!Split
  <2>7. Text!Cleaned(d).full = << >>
    <3>1. Text!Strip(Text!Glued(<< >>)) = << >>
      BY <1>2, NoText DEF Text!Glued
    <3> QED
      BY <3>1 DEF Text!Cleaned, Text!Joined, Text!Address, Text!Beside, Text!Split
  <2>8. d.bound
    BY DEF Text!Split
  <2> HIDE DEF d
  <2> QED
    BY <2>1, <2>2, <2>4, <2>5, <2>6, <2>7, <2>8 DEF Text!ParseAddress
<1> QED
  BY <1>3, <1>4

\* A record of one card has a gap exactly where a field other than the gender was lost.
LEMMA GapShows ==
  ASSUME NEW r \in [Fields -> Cards \cup {NoCid}], NEW c \in Cards,
         \A f \in Fields : r[f] \in {c, NoCid}
  PROVE  HasGap(Info(r)) <=> \E f \in Fields : f # 4 /\ r[f] = NoCid
<1>1. NoCid \notin Cards
  BY CardsAssumption
<1>2. /\ ThaiNames[NoCid].full = << >> /\ EnglishNames[NoCid].full = << >>
      /\ Addresses[NoCid].full = << >>
  BY EmptyTexts DEF ThaiNames, EnglishNames, Addresses, Parsed
<1>3. /\ ThaiNames[c].full # << >> /\ EnglishNames[c].full # << >>
      /\ Addresses[c].full # << >>
  <2>1. ~HasGap(Info(FieldsOf(c)))
    BY TextsAssumption
  <2>2. FieldsOf(c)[1] = c /\ FieldsOf(c)[2] = c /\ FieldsOf(c)[8] = c
    BY EightFields DEF FieldsOf
  <2> QED
    BY <2>1, <2>2 DEF HasGap, Info
<1>4. HasGap(Info(r)) <=>
        \/ ThaiNames[r[1]].full = << >> \/ EnglishNames[r[2]].full = << >>
        \/ Addresses[r[8]].full = << >>
        \/ r[3] = NoCid \/ r[5] = NoCid \/ r[6] = NoCid \/ r[7] = NoCid
  BY DEF HasGap, Info
<1>5. ThaiNames[r[1]].full = << >> <=> r[1] = NoCid
  BY <1>1, <1>2, <1>3, EightFields
<1>6. EnglishNames[r[2]].full = << >> <=> r[2] = NoCid
  BY <1>1, <1>2, <1>3, EightFields
<1>7. Addresses[r[8]].full = << >> <=> r[8] = NoCid
  BY <1>1, <1>2, <1>3, EightFields
<1>8. (\E f \in Fields : f # 4 /\ r[f] = NoCid)
        <=> \/ r[1] = NoCid \/ r[2] = NoCid \/ r[3] = NoCid \/ r[5] = NoCid
            \/ r[6] = NoCid \/ r[7] = NoCid \/ r[8] = NoCid
  BY EightFields
<1> QED
  BY <1>4, <1>5, <1>6, <1>7, <1>8

\* A record without a gap is the card's, but for the gender, and is split if the card's
\* is.
LEMMA NoGapIsTheCards ==
  ASSUME NEW r \in [Fields -> Cards \cup {NoCid}], NEW c \in Cards,
         \A f \in Fields : r[f] \in {c, NoCid}, ~HasGap(Info(r))
  PROVE  /\ [Info(r) EXCEPT !.gender = "any"] = [Info(FieldsOf(c)) EXCEPT !.gender = "any"]
         /\ IsSplit(Info(r)) <=> IsSplit(Info(FieldsOf(c)))
<1>1. \A f \in Fields : f # 4 => r[f] = c
  BY GapShows
<1>2. /\ r[1] = c /\ r[2] = c /\ r[3] = c /\ r[5] = c /\ r[6] = c /\ r[7] = c /\ r[8] = c
  BY <1>1, EightFields
<1>3. \A f \in Fields : FieldsOf(c)[f] = c
  BY EightFields DEF FieldsOf
<1>4. LET q == FieldsOf(c)
      IN  q[1] = c /\ q[2] = c /\ q[3] = c /\ q[5] = c /\ q[6] = c /\ q[7] = c /\ q[8] = c
  BY <1>3, EightFields
<1> QED
  BY <1>2, <1>4 DEF Info, IsSplit

\* The card whose record is read or handed over.
LEMMA ReadsACard ==
  FieldsInv /\ mon \in {"read", "deliver"} => cid \in Cards
BY DEF FieldsInv, TypeInv, Identified

\* A lost transmission leaves a gap in the record, unless it was the gender's.
THEOREM OnlyGenderLost == FieldsSpec => []OnlyGenderHidesALoss
<1>1. FieldsInv => OnlyGenderHidesALoss
  <2> SUFFICES ASSUME FieldsInv, mon = "deliver", ~HasGap(Info(rec))
               PROVE  [Info(rec) EXCEPT !.gender = "any"]
                        = [Info(FieldsOf(cid)) EXCEPT !.gender = "any"]
    BY DEF OnlyGenderHidesALoss
  <2>1. /\ rec \in [Fields -> Cards \cup {NoCid}] /\ cid \in Cards
        /\ \A f \in Fields : rec[f] \in {cid, NoCid}
    BY ReadsACard DEF FieldsInv, FieldTypes, ReadFromOne
  <2> QED
    BY <2>1, NoGapIsTheCards
<1> QED
  BY FieldsInvHolds, <1>1, PTL

-----------------------------------------------------------------------------
(* The refinement. *)

\* The faults as CardMonitor counts them: those used up by a read still count.
\* Plain numbers, before they meet the rest of the state.
LEMMA NoneLost == \A f, l \in Nat : l = 0 => f + l = f
OBVIOUS

LEMMA FaultsKept == \A f, g, l \in Nat : g <= f => g + 0 \in 0 .. f + l
OBVIOUS

LEMMA FaultsUsed ==
  \A f, g, l \in Nat : g <= f /\ (l > 0 \/ (f > 0 /\ g = f - 1)) => g + 0 # f + l
OBVIOUS

LEMMA FaultsMoved == \A f, g, l \in Nat : g + (l + (f - g)) = f + l
OBVIOUS

LEMMA PositiveOrNone == \A l \in Nat : l > 0 \/ l = 0
OBVIOUS

LEMMA SameFaults ==
  ASSUME FieldsInv, UNCHANGED fields
  PROVE  /\ faults' = faults => faults' + lost' = faults + lost
         /\ mon \notin {"read", "stopped"} => faults + lost = faults /\ lost' = 0
<1>1. faults \in Nat /\ lost \in Nat /\ lost' = lost
  BY BoundsAssumption DEF FieldsInv, FieldTypes, TypeInv, TypeOK, fields
<1>2. mon \notin {"read", "stopped"} => lost = 0
  BY DEF FieldsInv, Idle
<1> QED
  BY <1>1, <1>2

LEMMA FinderImplements ==
  ASSUME FieldsInv, UNCHANGED fields,
         Poll \/ Enumerate \/ NameReader \/ ShowReader \/ PaintReader
  PROVE  Whole!Next
<1> USE DEF Goto, Whole!Goto, world, Whole!world, labels, Whole!labels
<1>1. faults' + lost' = faults + lost
  BY SameFaults DEF Poll, Enumerate, NameReader, ShowReader, PaintReader
<1>2. CASE Poll
  BY <1>1, <1>2 DEF Poll, Whole!Poll, Whole!Next, Whole!MonitorStep
<1>3. CASE Enumerate
  BY <1>1, <1>3 DEF Enumerate, Whole!Enumerate, Whole!Next, Whole!MonitorStep
<1>4. CASE NameReader
  BY <1>1, <1>4 DEF NameReader, Whole!NameReader, Whole!Next, Whole!MonitorStep
<1>5. CASE ShowReader
  BY <1>1, <1>5 DEF ShowReader, Whole!ShowReader, Whole!Next, Whole!MonitorStep, Whole!TkCall
<1>6. CASE PaintReader
  BY <1>1, <1>6 DEF PaintReader, Whole!PaintReader, Post, Whole!Post, Paint, Whole!Paint,
                    ColorOf, Whole!ColorOf, Whole!Next, Whole!MonitorStep, Whole!TkCall
<1> QED
  BY <1>2, <1>3, <1>4, <1>5, <1>6
LEMMA ConnectImplements ==
  ASSUME FieldsInv, UNCHANGED fields,
         \/ ConnectFails \/ ConnectFindsNoCard \/ Connect \/ Absent \/ Claim \/ Say
         \/ MonitorStops
  PROVE  Whole!Next
<1> USE DEF Goto, Whole!Goto, world, Whole!world, labels, Whole!labels, Whole!Next,
            Whole!MonitorStep
<1>1. faults' + lost' = faults + lost
  BY SameFaults DEF ConnectFails, ConnectFindsNoCard, Connect, Absent, Claim, Say, MonitorStops
<1>2. CASE ConnectFails
  BY <1>1, <1>2 DEF ConnectFails, Whole!ConnectFails
<1>3. CASE ConnectFindsNoCard
  BY <1>1, <1>3 DEF ConnectFindsNoCard, Whole!ConnectFindsNoCard
<1>4. CASE Connect
  BY <1>1, <1>4 DEF Connect, Whole!Connect
<1>5. CASE Absent
  BY <1>1, <1>5 DEF Absent, Whole!Absent
<1>6. CASE Claim
  BY <1>1, <1>6 DEF Claim, Whole!Claim
<1>7. CASE Say
  BY <1>1, <1>7 DEF Say, Whole!Say, Post, Whole!Post, Status, Whole!Status, Whole!TkCall
<1>8. CASE MonitorStops
  BY <1>1, <1>8 DEF MonitorStops, Whole!MonitorStops
<1> QED
  BY <1>2, <1>3, <1>4, <1>5, <1>6, <1>7, <1>8

\* No fault is used up by a read yet, or any longer.
LEMMA IdentifyImplements ==
  ASSUME FieldsInv, UNCHANGED fields, Select \/ Identify
  PROVE  Whole!Next
<1>1. faults + lost = faults /\ faults' + lost' = faults'
  <2>1. mon \in {"select", "identify"}
    BY DEF Select, Identify
  <2>2. faults + lost = faults /\ lost' = 0
    BY <2>1, SameFaults
  <2>3. faults' \in Nat
    <3>1. TypeInv'
      BY TypesAreInductive DEF FieldsInv, Next, MonitorStep
    <3> QED
      BY <3>1, BoundsAssumption DEF TypeInv, TypeOK
  <2>4. faults' + lost' = faults'
    BY <2>2, <2>3, NoneLost
  <2> QED
    BY <2>2, <2>4
<1>2. CASE Select
  BY <1>1, <1>2 DEF Select, Whole!Select, Transmit, Whole!Transmit, NoAnswer, Whole!NoAnswer,
       Goto, Whole!Goto, labels, Whole!labels, Whole!Next, Whole!MonitorStep
<1>3. CASE Identify
  BY <1>1, <1>3 DEF Identify, Whole!Identify, Transmit, Whole!Transmit, NoAnswer,
       Whole!NoAnswer, Goto, Whole!Goto, labels, Whole!labels, Whole!Next, Whole!MonitorStep
<1> QED
  BY <1>2, <1>3

LEMMA MainImplements ==
  ASSUME FieldsInv, UNCHANGED fields, MainStep \/ UserStep
  PROVE  Whole!Next
<1> USE DEF world, Whole!world, labels, Whole!labels, thread, Whole!thread, TakeEvent,
            Whole!TakeEvent, Paint, Whole!Paint, Whole!Next, Whole!MainStep, Whole!UserStep
<1>1. faults' + lost' = faults + lost
  BY SameFaults DEF MainStep, UserStep, RunPaint, RunStatus, RunAdd, RefreshFinds,
       RefreshFindsNone, Settle, ClickRefresh, Forget, Close
<1>2. CASE RunPaint \/ RunStatus \/ RunAdd
  BY <1>1, <1>2 DEF RunPaint, Whole!RunPaint, RunStatus, Whole!RunStatus, RunAdd, Whole!RunAdd
<1>3. CASE RefreshFinds \/ RefreshFindsNone \/ Settle
  BY <1>1, <1>3 DEF RefreshFinds, Whole!RefreshFinds, RefreshFindsNone,
       Whole!RefreshFindsNone, Settle, Whole!Settle
<1>4. CASE ClickRefresh \/ Forget \/ Close
  BY <1>1, <1>4 DEF ClickRefresh, Whole!ClickRefresh, Forget, Whole!Forget, Close, Whole!Close
<1> QED
  BY <1>2, <1>3, <1>4 DEF MainStep, UserStep

LEMMA WorldImplements ==
  ASSUME FieldsInv, UNCHANGED fields, WorldStep
  PROVE  Whole!Next
<1>1. faults' + lost' = faults + lost
  BY SameFaults DEF WorldStep, InsertCard, RemoveCard, ReplugReader
<1> QED
  BY <1>1 DEF WorldStep, InsertCard, Whole!InsertCard, RemoveCard, Whole!RemoveCard,
       ReplugReader, Whole!ReplugReader, thread, Whole!thread, labels, Whole!labels,
       Whole!Next, Whole!WorldStep

LEMMA DeliverImplements ==
  ASSUME FieldsInv, DeliverFields
  PROVE  Whole!Next
<1>1. Deliver /\ lost' = lost
  BY DEF DeliverFields
<1>2. faults' + lost' = faults + lost
  BY <1>1 DEF Deliver, world
<1> QED
  BY <1>1, <1>2 DEF Deliver, Whole!Deliver, Post, Whole!Post, Add, Whole!Add, Goto, Whole!Goto,
       world, Whole!world, labels, Whole!labels, Whole!Next, Whole!MonitorStep, Whole!TkCall

\* A field before the last is a stutter; the last one is CardMonitor's Read.
LEMMA ReadFieldImplements ==
  ASSUME FieldsInv, ReadField
  PROVE  Whole!Next \/ UNCHANGED Whole!vars
<1>1. /\ next \in 1 .. 8 /\ lost \in Nat /\ faults \in Nat
      /\ faults' \in Nat /\ faults' <= faults
      /\ NoCid \notin Cards
  <2>1. next \in 1 .. 8 /\ lost \in Nat /\ faults \in Nat /\ NoCid \notin Cards
    BY EightFields, CardsAssumption, BoundsAssumption DEF FieldsInv, FieldTypes, TypeInv, TypeOK
  <2> QED
    BY <2>1, OneTransmission
<1>2. UNCHANGED <<readers, slot, link, reader, currentCid, attempt, cid, say, found,
                  main, events, labels>>
  BY DEF ReadField
<1>3. CASE next < Len(FieldOrder)
  <2>1. lost' = lost + (faults - faults') /\ mon' = mon /\ data' = data
    BY <1>3 DEF ReadField
  <2>2. faults' + lost' = faults + lost
    <3>1. faults' + (lost + (faults - faults')) = faults + lost
      BY <1>1, FaultsMoved
    <3> QED
      BY <2>1, <3>1
  <2> QED
    BY <1>2, <2>1, <2>2 DEF Whole!vars, Whole!world, Whole!thread, labels, Whole!labels
<1>4. CASE ~(next < Len(FieldOrder))
  <2>1. next = 8
    BY <1>1, <1>4, EightFields
  <2>2. lost' = 0 /\ data' = DataOf(rec') /\ mon = "read" /\ mon' = "deliver"
    BY <1>4 DEF ReadField, Goto
  <2>3. rec' \in [Fields -> Cards \cup {NoCid}] /\ DOMAIN rec' = Fields
    BY OneTransmission
  <2>4. /\ cid \in Cards /\ cid' = cid /\ link' = link
        /\ \A f \in Fields : rec'[f] \in {cid, NoCid}
    BY <1>2, <2>2, ReadsACard, ReadFieldKeeps DEF FieldsInv, ReadFromOne
  <2>5. CASE HasGap(Info(rec'))
    <3>1. data' = "blank"
      BY <2>2, <2>5 DEF DataOf
    <3>2. faults' + lost' \in 0 .. faults + lost
      <4>1. faults' + 0 \in 0 .. faults + lost
        BY <1>1, FaultsKept
      <4> QED
        BY <2>2, <4>1
    <3>3. link \in Cards => faults' + lost' # faults + lost
      <4> SUFFICES ASSUME link \in Cards
                   PROVE  faults' + lost' # faults + lost
        OBVIOUS
      <4>1. lost > 0 \/ (faults > 0 /\ faults' = faults - 1)
        <5>1. CASE lost = 0
          <6>1. \A f \in Fields : f < next => rec[f] = cid
            BY <2>2, <5>1 DEF FieldsInv, LossShows
          <6>2. link = cid
            BY <2>2, CardsAssumption DEF FieldsInv, OneCardInv
          <6>3. \A f \in Fields : f # next => rec'[f] # NoCid
            BY <1>1, <2>1, <6>1, <6>2, EightFields, OneTransmission
          <6>4. \E f \in Fields : rec'[f] = NoCid
            BY <2>3, <2>4, <2>5, GapShows
          <6>5. rec'[next] = NoCid
            BY <6>3, <6>4
          <6> QED
            BY <1>1, <6>5, OneTransmission
        <5> QED
          BY <1>1, <5>1, PositiveOrNone
      <4>2. faults' + 0 # faults + lost
        BY <1>1, <4>1, FaultsUsed
      <4> QED
        BY <2>2, <4>2
    <3> QED
      BY <1>2, <2>2, <3>1, <3>2, <3>3
         DEF Whole!Read, Whole!Goto, labels, Whole!labels, Whole!Next, Whole!MonitorStep
  <2>6. CASE ~HasGap(Info(rec'))
    <3>1. \A f \in Fields : f # 4 => rec'[f] # NoCid
      BY <2>3, <2>4, <2>6, GapShows
    <3>2. rec'[next] # NoCid
      BY <2>1, <3>1, EightFields
    <3>3. link \in Cards /\ link = cid /\ faults' = faults
      BY <3>2, OneTransmission
    <3>4. ~(lost > 1)
      <4>1. \A f \in Fields : f < next /\ f # 4 => rec[f] # NoCid
        BY <1>1, <3>1, EightFields, OneTransmission
      <4> QED
        BY <2>2, <4>1 DEF FieldsInv, LossShows
    <3>5. /\ faults' + lost' \in 0 .. faults + lost
          /\ faults + lost <= (faults' + lost') + 1
      <4>1. \A f, l \in Nat : ~(l > 1) => f + 0 \in 0 .. f + l /\ f + l <= (f + 0) + 1
        OBVIOUS
      <4>2. faults + 0 \in 0 .. faults + lost /\ faults + lost <= (faults + 0) + 1
        BY <1>1, <3>4, <4>1
      <4> QED
        BY <2>2, <3>3, <4>2
    <3>6. IsSplit(Info(rec')) <=> cid \in Splits
      BY <2>3, <2>4, <2>6, NoGapIsTheCards, TextsAssumption
    <3>7. data' = IF link \in Splits THEN "whole" ELSE "raw"
      BY <2>2, <2>6, <3>3, <3>6 DEF DataOf
    <3> QED
      BY <1>2, <2>2, <3>3, <3>5, <3>7
         DEF Whole!Read, Whole!Goto, labels, Whole!labels, Whole!Next, Whole!MonitorStep
  <2> QED
    BY <2>5, <2>6
<1> QED
  BY <1>3, <1>4

LEMMA EveryStepImplements ==
  FieldsInv /\ [FieldsNext]_allVars => [Whole!Next]_(Whole!vars)
<1> SUFFICES ASSUME FieldsInv, [FieldsNext]_allVars
             PROVE  Whole!Next \/ UNCHANGED Whole!vars
  OBVIOUS
<1>1. CASE UNCHANGED vars /\ UNCHANGED fields
  <2>1. faults' + lost' = faults + lost
    BY <1>1 DEF vars, world, fields
  <2> QED
    BY <1>1, <2>1 DEF vars, world, thread, labels, Whole!vars, Whole!world, Whole!thread,
                      Whole!labels
<1>2. CASE ReadField
  BY <1>2, ReadFieldImplements
<1>3. CASE DeliverFields
  BY <1>3, DeliverImplements
<1>4. CASE Elsewhere /\ ~UNCHANGED vars /\ UNCHANGED fields
  BY <1>4, FinderImplements, ConnectImplements, IdentifyImplements, MainImplements,
     WorldImplements DEF Elsewhere
<1> QED
  BY <1>1, <1>2, <1>3, <1>4, StepCases

LEMMA InitImplements == FieldsInit => Whole!Init
<1> SUFFICES ASSUME FieldsInit PROVE Whole!Init
  OBVIOUS
<1>1. faults + lost = MaxFaults
  BY BoundsAssumption DEF FieldsInit, Init
<1> QED
  BY <1>1 DEF FieldsInit, Init, Whole!Init

\* Reading field by field, whatever is lost or swapped meanwhile, implements the one
\* step of CardMonitor.
THEOREM FieldsImplementMonitor == FieldsSpec => ImplementsMonitor
<1>1. FieldsSpec => [][Whole!Next]_(Whole!vars)
  BY FieldsInvHolds, EveryStepImplements, PTL DEF FieldsSpec
<1>2. FieldsSpec => Whole!Init
  BY InitImplements, PTL DEF FieldsSpec
<1> QED
  BY <1>1, <1>2 DEF ImplementsMonitor, Whole!Spec
=============================================================================

----------------------------- MODULE CardFields -----------------------------
(***************************************************************************)
(* The monitor thread with read_card_data in its eight transmissions, one  *)
(* for each field, instead of CardMonitor's one step.  The card may be     *)
(* pulled, or a transmission fail, before any of them.  What each card     *)
(* holds is a constant, and the record is made of it by the parsers of     *)
(* CardText.                                                               *)
(***************************************************************************)
EXTENDS CardMonitor

CONSTANTS
    ThaiText, EnglishText, AddressText, \* the texts each card holds
    Men                             \* the cards whose gender is '1'

Text == INSTANCE CardText

VARIABLES
    rec,    \* the locals of read_card_data: the card each field was read from
    next,   \* the field to be read next
    lost    \* faults used up since the read began

fields == <<rec, next, lost>>
allVars == <<vars, fields>>

FieldOrder == <<"th_name", "en_name", "birth_date", "gender", "issuer", "issue_date",
                "expire_date", "address">>
NoRecord == [f \in 1 .. Len(FieldOrder) |-> NoCid]

-----------------------------------------------------------------------------
\* What the parsers make of each card's texts, and of a text that could not be read.
Parsed(Parse(_), text) ==
    [c \in Cards \cup {NoCid} |-> Parse(IF c = NoCid THEN << >> ELSE text[c])]
ThaiNames == Parsed(Text!ParseName, ThaiText)
EnglishNames == Parsed(Text!ParseName, EnglishText)
Addresses == Parsed(Text!ParseAddress, AddressText)

\* Defect: a missing English name is replaced by the Thai one.
DefectInfo(r) ==
    [th |-> ThaiNames[r[1]],
     en |-> IF r[2] = NoCid THEN ThaiNames[r[1]] ELSE EnglishNames[r[2]],
     birth |-> r[3],
     gender |-> IF r[4] \in Men THEN "male" ELSE "female",
     issuer |-> r[5],
     issued |-> r[6],
     expires |-> r[7],
     address |-> Addresses[r[8]]]

\* card_info, as the fields r make it.  The gender of a card that did not say '1' is
\* female.  Dates and issuer are told by the card they come from, or empty (NoCid).
Info(r) ==
    [th |-> ThaiNames[r[1]],
     en |-> EnglishNames[r[2]],
     birth |-> r[3],
     gender |-> IF r[4] \in Men THEN "male" ELSE "female",
     issuer |-> r[5],
     issued |-> r[6],
     expires |-> r[7],
     address |-> Addresses[r[8]]]

\* The fields of a card no transmission to which was lost.
FieldsOf(c) == [f \in DOMAIN NoRecord |-> c]

\* Something is empty in the record, to whoever looks at it.
HasGap(info) ==
    \/ info.th.full = << >> \/ info.en.full = << >> \/ info.address.full = << >>
    \/ \E v \in {info.birth, info.issuer, info.issued, info.expires} : v = NoCid

IsSplit(info) ==
    info.th.first # << >> /\ info.en.first # << >> /\ info.address.sub # << >>

\* What card_info holds, in the words of CardTable.
DataOf(r) ==
    CASE HasGap(Info(r)) -> "blank"
      [] ~HasGap(Info(r)) /\ IsSplit(Info(r)) -> "whole"
      [] OTHER -> "raw"

\* A card leaves nothing empty by itself, and can be split or not.
ASSUME TextsAssumption ==
    \A c \in Cards : ~HasGap(Info(FieldsOf(c))) /\ (c \in Splits <=> IsSplit(Info(FieldsOf(c))))

-----------------------------------------------------------------------------
FieldsInit ==
    /\ Init
    /\ rec = NoRecord
    /\ next = 1
    /\ lost = 0

\* Defect: a transmission reaches whatever card is in the reader now.
DefectReadsSlot ==
    /\ mon = "read"
    /\ \/ Transmit /\ rec' = [rec EXCEPT ![next] = link]
       \/ NoAnswer /\ rec' = [rec EXCEPT ![next] = IF slot \in Cards THEN slot ELSE NoCid]
    /\ IF next < Len(FieldOrder)
       THEN next' = next + 1 /\ lost' = lost + (faults - faults') /\ UNCHANGED <<mon, data>>
       ELSE next' = 1 /\ lost' = 0 /\ data' = DataOf(rec') /\ Goto("deliver")
    /\ UNCHANGED <<readers, slot, link, reader, currentCid, attempt, cid, say, found,
                   main, events, labels>>

\* Defect: a lost field is asked for again, without end.
DefectInsists ==
    /\ mon = "read"
    /\ \/ Transmit /\ rec' = [rec EXCEPT ![next] = link]
       \/ NoAnswer /\ UNCHANGED rec
    /\ CASE rec'[next] = NoCid ->
                lost' = lost + (faults - faults') /\ UNCHANGED <<next, mon, data>>
         [] rec'[next] # NoCid /\ next < Len(FieldOrder) ->
                next' = next + 1 /\ UNCHANGED <<lost, mon, data>>
         [] OTHER -> next' = 1 /\ lost' = 0 /\ data' = DataOf(rec') /\ Goto("deliver")
    /\ UNCHANGED <<readers, slot, link, reader, currentCid, attempt, cid, say, found,
                   main, events, labels>>

\* Defect: a lost field keeps the text that the variable held before.
DefectKeepsText ==
    /\ mon = "read"
    /\ \/ Transmit /\ rec' = [rec EXCEPT ![next] = link]
       \/ NoAnswer /\ rec' = [rec EXCEPT ![next] = IF next = 1 THEN NoCid ELSE rec[next - 1]]
    /\ IF next < Len(FieldOrder)
       THEN next' = next + 1 /\ lost' = lost + (faults - faults') /\ UNCHANGED <<mon, data>>
       ELSE next' = 1 /\ lost' = 0 /\ data' = DataOf(rec') /\ Goto("deliver")
    /\ UNCHANGED <<readers, slot, link, reader, currentCid, attempt, cid, say, found,
                   main, events, labels>>

\* One get_data of read_card_data; after the last field card_info is returned.
ReadField ==
    /\ mon = "read"
    /\ \/ Transmit /\ rec' = [rec EXCEPT ![next] = link]
       \/ NoAnswer /\ rec' = [rec EXCEPT ![next] = NoCid]
    /\ IF next < Len(FieldOrder)
       THEN next' = next + 1 /\ lost' = lost + (faults - faults') /\ UNCHANGED <<mon, data>>
       ELSE next' = 1 /\ lost' = 0 /\ data' = DataOf(rec') /\ Goto("deliver")
    /\ UNCHANGED <<readers, slot, link, reader, currentCid, attempt, cid, say, found,
                   main, events, labels>>

\* The record is handed over; the locals are gone.
DeliverFields ==
    /\ Deliver
    /\ rec' = NoRecord
    /\ UNCHANGED <<next, lost>>

FieldsTkCall ==
    \/ DeliverFields
    \/ (ShowReader \/ PaintReader \/ Say) /\ UNCHANGED fields

FieldsMonitorStep ==
    \/ ReadField
    \/ FieldsTkCall
    \/ /\ \/ Poll \/ Enumerate \/ NameReader
          \/ ConnectFails \/ ConnectFindsNoCard \/ Connect \/ Absent
          \/ Select \/ Identify \/ Claim \/ MonitorStops
       /\ UNCHANGED fields

FieldsNext ==
    \/ FieldsMonitorStep
    \/ (MainStep \/ UserStep \/ WorldStep) /\ UNCHANGED fields

\* The fairness of CardMonitor.
FieldsFairness ==
    /\ WF_allVars(FieldsMonitorStep)
    /\ SF_allVars(FieldsTkCall)
    /\ WF_allVars(MainStep /\ UNCHANGED fields)

FieldsSpec == FieldsInit /\ [][FieldsNext]_allVars /\ FieldsFairness

-----------------------------------------------------------------------------
FieldsTypeOK ==
    /\ TypeOK
    /\ rec \in [DOMAIN NoRecord -> Cards \cup {NoCid}]
    /\ next \in 1 .. Len(FieldOrder)
    /\ lost \in 0 .. MaxFaults

\* A card may be pulled and another inserted between two fields: what was read is
\* the card's whose number the record bears.
FieldsOfOneCard ==
    mon \in {"read", "deliver"} => \A f \in DOMAIN rec : rec[f] \in {cid, NoCid}

\* gui_reader.py:467-468, README_GUI.md:77.  Every record is announced as read.  One
\* with nothing empty in it shows what the card holds: a lost transmission leaves a gap
\* to be seen, unless it was the gender's.
OnlyGenderHidesALoss ==
    mon = "deliver" /\ ~HasGap(Info(rec))
        => [Info(rec) EXCEPT !.gender = "any"] = [Info(FieldsOf(cid)) EXCEPT !.gender = "any"]

\* Field by field, the thread does what CardMonitor says in one step: the faults used
\* up by a read count when it ends.
Whole == INSTANCE CardMonitor WITH faults <- faults + lost
ImplementsMonitor == Whole!Spec
=============================================================================

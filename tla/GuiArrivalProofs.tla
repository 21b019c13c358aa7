-------------------------- MODULE GuiArrivalProofs --------------------------
(***************************************************************************)
(* Who is warned of has come twice: proofs about the way of a person from  *)
(* the reader to the list.                                                 *)
(*                                                                         *)
(* Each time a person comes, one record may come of it.  The road holds    *)
(* what may still come or has come of the arrivals so far: a card about to *)
(* be claimed, one being read, the records in the queue, and the record in *)
(* the list.  No step lengthens it without an arrival.  A person on it     *)
(* twice has therefore come twice, and a duplicate is on it twice: in the  *)
(* queue and in the list.                                                  *)
(***************************************************************************)
EXTENDS GuiReaderProofs

\* The monitor will claim this card, or may: it lies in the reader and is not the one
\* claimed, or its claim is about to be given up for a card that has gone.
Coming(c) ==
  \/ mon = "claim" /\ cid = c
  \/ slot = c /\ (currentCid # c \/ mon = "absent" \/ (mon = "claim" /\ cid # c))

\* A person's places on the road, counted from the list (0) through the queue to the
\* reader.
Road(c) ==
  {i \in 0 .. Len(events) + 2 :
      \/ i = 0 /\ c \in Listed
      \/ i \in DOMAIN events /\ events[i].kind = "add" /\ events[i].rec.cid = c
      \/ i = Len(events) + 1 /\ Reading(c)
      \/ i = Len(events) + 2 /\ Coming(c)}

\* Nobody is on the road more often than they came, as far as arrivals are counted.
CameAsOften(c) ==
  /\ \A i \in Road(c) : arrivals[c] >= 1
  /\ \A i, j \in Road(c) : i # j => arrivals[c] = 2

\* An open connection is to the card in the reader.
LinkInv == link # Dead => link = slot /\ slot # NoCard

ArrivalInv == LinkInv /\ \A c \in Cards : CameAsOften(c)

-----------------------------------------------------------------------------
(* How the road may change. *)

\* What the types say of the queue.
LEMMA QueueIsSequence ==
  ASSUME TypeOK
  PROVE  /\ Len(events) \in Nat /\ DOMAIN events = 1 .. Len(events)
         /\ IsSequence(events)
         /\ \A c \in Cards : arrivals[c] \in 0 .. 2
<1>1. events \in Seq(Monitor!Event) /\ arrivals \in [Cards -> 0 .. 2]
  BY DEF TypeOK, Monitor!TypeOK
<1>2. Len(events) \in Nat /\ DOMAIN events = 1 .. Len(events)
      /\ \A i \in DOMAIN events : events[i] \in Monitor!Event
  BY <1>1, LenProperties, ElementOfSeq
<1>3. events \in [1 .. Len(events) -> {events[i] : i \in DOMAIN events}]
  BY <1>1, <1>2, LenProperties, SeqDef
<1> QED
  BY <1>1, <1>2, <1>3, SeqDef DEF IsSequence

\* One who was not on the road, or was, comes to the place k; the others stay on it.
LEMMA SomebodyCame ==
  ASSUME NEW c, CameAsOften(c), arrivals[c] \in 0 .. 2,
         arrivals'[c] = IF arrivals[c] < 2 THEN arrivals[c] + 1 ELSE arrivals[c],
         NEW k, \A i \in Road(c)' : i # k => \E j \in Road(c) : TRUE
  PROVE  CameAsOften(c)'
<1>1. arrivals'[c] >= 1 /\ (arrivals[c] >= 1 => arrivals'[c] = 2)
  OBVIOUS
<1>2. ASSUME NEW i \in Road(c)', NEW j \in Road(c)', i # j PROVE arrivals'[c] = 2
  <2>1. \E m \in Road(c) : TRUE
    BY <1>2
  <2> QED
    BY <1>1, <2>1 DEF CameAsOften
<1> QED
  BY <1>1, <1>2 DEF CameAsOften

\* The queue is as before: who is listed, read or about to be claimed after the step
\* was so before it.
LEMMA RoadStays ==
  ASSUME NEW c, CameAsOften(c), UNCHANGED events, arrivals'[c] = arrivals[c],
         c \in Listed' => c \in Listed,
         Reading(c)' => Reading(c),
         Coming(c)' => Coming(c)
  PROVE  CameAsOften(c)'
<1>1. Road(c)' \subseteq Road(c)
  BY DEF Road
<1> QED
  BY <1>1 DEF CameAsOften

\* A callback is queued.  It is no record, or the record of the card that was read.
LEMMA RoadAtPost ==
  ASSUME TypeOK, NEW c, CameAsOften(c), NEW e, events' = Append(events, e),
         arrivals'[c] = arrivals[c],
         c \in Listed' => c \in Listed,
         e.kind = "add" /\ e.rec.cid = c => Reading(c) /\ ~Reading(c)',
         Reading(c)' => Reading(c),
         Coming(c)' => Coming(c)
  PROVE  CameAsOften(c)'
<1> DEFINE n == Len(events)
           from(i) == IF i <= n + 1 THEN i ELSE i - 1
<1>1. n \in Nat /\ DOMAIN events = 1 .. n
      /\ DOMAIN events' = 1 .. n + 1 /\ Len(events') = n + 1
      /\ \A i \in 1 .. n : events'[i] = events[i]
      /\ events'[n + 1] = e
  <2>1. IsSequence(events) /\ IsSequence(events')
    BY QueueIsSequence, AppendGrows
  <2>2. Len(events') \in Nat /\ DOMAIN events' = 1 .. Len(events')
    BY <2>1, LenProperties DEF IsSequence
  <2>3. DOMAIN events' = 1 .. n + 1
    BY <2>1, AppendGrows
  <2> QED
    BY <2>1, <2>2, <2>3, QueueIsSequence, AppendGrows
<1>2. ASSUME NEW i \in Road(c)'
      PROVE  /\ from(i) \in Road(c)
             /\ i = n + 1 => ~Reading(c)'
             /\ i = n + 2 => Reading(c)'
  BY <1>1, <1>2 DEF Road
<1>3. ASSUME NEW i \in Road(c)', NEW j \in Road(c)', from(i) = from(j) PROVE i = j
  <2>1. i \in 0 .. n + 3 /\ j \in 0 .. n + 3
    BY <1>1 DEF Road
  <2> QED
    BY <1>1, <1>2, <1>3, <2>1
<1>4. \A i, j \in Road(c)' : i # j => from(i) \in Road(c) /\ from(j) \in Road(c) /\ from(i) # from(j)
  BY <1>2, <1>3
<1> QED
  BY <1>2, <1>4 DEF CameAsOften

\* The places move one down, but for the list's, which the head of the queue may join.
LEMMA RoadShifts ==
  ASSUME NEW c, CameAsOften(c), NEW n \in Nat, n > 0,
         Len(events) = n, DOMAIN events = 1 .. n,
         Len(events') = n - 1, DOMAIN events' = 1 .. n - 1,
         \A i \in 1 .. n - 1 : events'[i] = events[i + 1],
         arrivals'[c] = arrivals[c],
         c \in Listed' => c \in Listed \/ (events[1].kind = "add" /\ events[1].rec.cid = c),
         Reading(c)' => Reading(c),
         Coming(c)' => Coming(c)
  PROVE  CameAsOften(c)'
<1> DEFINE from(i) == IF i = 0 /\ c \in Listed THEN 0 ELSE i + 1
<1>1. ASSUME NEW i \in Road(c)'
      PROVE  i \in 0 .. n + 1 /\ from(i) \in Road(c)
  <2>1. /\ i \in 0 .. n + 1
        /\ \/ i = 0 /\ c \in Listed'
           \/ i \in 1 .. n - 1 /\ events'[i].kind = "add" /\ events'[i].rec.cid = c
           \/ i = n /\ Reading(c)'
           \/ i = n + 1 /\ Coming(c)'
    BY <1>1 DEF Road
  <2>2. CASE i = 0 /\ c \in Listed
    BY <2>2 DEF Road
  <2>3. CASE i = 0 /\ c \notin Listed /\ c \in Listed'
    BY <2>3 DEF Road
  <2>4. CASE i \in 1 .. n - 1 /\ events'[i].kind = "add" /\ events'[i].rec.cid = c
    <3>1. i + 1 \in 1 .. n /\ events'[i] = events[i + 1] /\ from(i) = i + 1
      BY <2>4
    <3> QED
      BY <2>1, <2>4, <3>1 DEF Road
  <2>5. CASE i = n /\ Reading(c)
    BY <2>1, <2>5 DEF Road
  <2>6. CASE i = n + 1 /\ Coming(c)
    BY <2>1, <2>6 DEF Road
  <2> QED
    BY <2>1, <2>2, <2>3, <2>4, <2>5, <2>6
<1>2. \A i, j \in Road(c)' : i # j => from(i) \in Road(c) /\ from(j) \in Road(c) /\ from(i) # from(j)
  BY <1>1
<1> QED
  BY <1>1, <1>2 DEF CameAsOften

\* The oldest callback is taken.  If it is the person's record, it goes into the list
\* or the person is there.
LEMMA RoadAtTake ==
  ASSUME TypeOK, NEW c, CameAsOften(c), events # << >>, events' = Tail(events),
         arrivals'[c] = arrivals[c],
         c \in Listed' => c \in Listed \/ (Head(events).kind = "add" /\ Head(events).rec.cid = c),
         Reading(c)' => Reading(c),
         Coming(c)' => Coming(c)
  PROVE  CameAsOften(c)'
<1> DEFINE n == Len(events)
<1>1. events \in Seq(Monitor!Event)
  BY DEF TypeOK, Monitor!TypeOK
<1>2. n \in Nat /\ DOMAIN events = 1 .. n /\ n > 0
  BY <1>1, LenProperties, EmptySeq
<1>3. /\ events' \in Seq(Monitor!Event) /\ Len(events') = n - 1
      /\ \A i \in 1 .. Len(events') : events'[i] = events[i + 1]
      /\ Head(events) = events[1]
  BY <1>1, HeadTailProperties
<1>4. DOMAIN events' = 1 .. n - 1
  BY <1>3, LenProperties
<1> HIDE DEF n
<1>5. Len(events) = n /\ \A i \in 1 .. n - 1 : events'[i] = events[i + 1]
  BY <1>3 DEF n
<1> QED
  BY <1>2, <1>3, <1>4, <1>5, RoadShifts

-----------------------------------------------------------------------------
(* The steps. *)

\* The connection stays with the card it was opened to.
LEMMA LinkStep == LinkInv /\ [Next]_vars => LinkInv'
<1> SUFFICES ASSUME LinkInv, [Next]_vars PROVE LinkInv'
  OBVIOUS
<1>1. CASE MonitorStep
  <2>1. CASE Monitor!Connect
    BY <2>1 DEF Monitor!Connect, LinkInv
  <2>2. CASE ~Monitor!Connect
    <3>1. UNCHANGED <<slot, link>>
      BY <1>1, <2>2 DEF MonitorStep, Monitor!MonitorStep, Monitor!TkCall, Monitor!Poll,
         Monitor!Enumerate, Monitor!NameReader, Monitor!ShowReader, Monitor!PaintReader,
         Monitor!ConnectFails, Monitor!ConnectFindsNoCard, Monitor!Absent, Monitor!Select,
         Monitor!Identify, Monitor!Claim, Monitor!Read, Monitor!Deliver, Monitor!Say,
         Monitor!MonitorStops, Monitor!world
    <3> QED
      BY <3>1 DEF LinkInv
  <2> QED
    BY <2>1, <2>2
<1>2. CASE WorldStep
  BY <1>2 DEF WorldStep, Monitor!WorldStep, Monitor!InsertCard, Monitor!RemoveCard,
     Monitor!ReplugReader, LinkInv
<1>3. CASE MainStep \/ ClickRefresh \/ TableStep \/ AnswerYes \/ Close \/ UNCHANGED vars
  <2>1. UNCHANGED <<slot, link>>
    BY <1>3 DEF MainStep, RunLabel, RunAdd, RefreshStep, ImportStep, ClickRefresh, TableStep,
       AnswerYes, Close, vars, monitorOnly, Monitor!RunPaint, Monitor!RunStatus,
       Monitor!RunAdd, Monitor!TakeEvent, Monitor!RefreshFinds, Monitor!RefreshFindsNone,
       Monitor!Settle, Monitor!ClickRefresh, Monitor!Forget, Monitor!Close, Monitor!world
  <2> QED
    BY <2>1 DEF LinkInv
<1> QED
  BY <1>1, <1>2, <1>3 DEF Next

\* The monitor: a claim comes of a card that was coming, a reading of a claim, a record
\* of a reading.
LEMMA MonitorBringsNobody ==
  ASSUME TypeOK, LinkInv, NEW c \in Cards, CameAsOften(c), MonitorStep
  PROVE  CameAsOften(c)'
<1> USE DEF Monitor!Goto, Reading, Coming
<1>1. arrivals' = arrivals /\ (c \in Listed' <=> c \in Listed)
  BY DEF MonitorStep, tableOnly, Listed
<1>2. c # NoCid /\ c # NoCard
  BY CardsAssumption
<1>3. CASE \/ Monitor!Poll \/ Monitor!Enumerate \/ Monitor!NameReader \/ Monitor!ShowReader
           \/ Monitor!ConnectFails \/ Monitor!Connect \/ Monitor!Select
  <2>1. /\ UNCHANGED <<events, slot, currentCid>>
        /\ Reading(c)' => Reading(c)
        /\ mon \notin {"claim", "absent"} /\ mon' \notin {"claim", "absent"}
    BY <1>3 DEF Monitor!Poll, Monitor!Enumerate, Monitor!NameReader, Monitor!ShowReader,
       Monitor!ConnectFails, Monitor!Connect, Monitor!Select, Monitor!world
  <2>2. Coming(c)' => Coming(c)
    BY <2>1
  <2> HIDE DEF Reading, Coming
  <2> QED
    BY <1>1, <2>1, <2>2, RoadStays
<1>4. CASE Monitor!ConnectFindsNoCard
  <2>1. UNCHANGED events /\ ~Reading(c)' /\ ~Coming(c)'
    BY <1>2, <1>4 DEF Monitor!ConnectFindsNoCard, Monitor!world
  <2> HIDE DEF Reading, Coming
  <2> QED
    BY <1>1, <2>1, RoadStays
<1>5. CASE Monitor!Absent
  <2>1. UNCHANGED events /\ ~Reading(c)' /\ (Coming(c)' => Coming(c))
    BY <1>2, <1>5 DEF Monitor!Absent, Monitor!world
  <2> HIDE DEF Reading, Coming
  <2> QED
    BY <1>1, <2>1, RoadStays
<1>6. CASE Monitor!Identify
  <2>0. /\ UNCHANGED <<events, slot, currentCid, link>> /\ mon = "identify" /\ say' = "same"
        /\ \/ Monitor!Transmit /\ cid' = link
           \/ Monitor!NoAnswer /\ cid' = NoCid
        /\ mon' = CASE cid' = NoCid -> "poll"
                     [] cid' # NoCid /\ cid' = currentCid -> "say"
                     [] OTHER -> "claim"
    BY <1>6 DEF Monitor!Identify
  <2>1. UNCHANGED <<events, slot, currentCid>> /\ mon = "identify"
        /\ \/ cid' = NoCid /\ mon' = "poll"
           \/ cid' = link /\ link \in Cards /\ mon' = "say" /\ say' = "same"
           \/ cid' = link /\ link \in Cards /\ mon' = "claim" /\ link # currentCid
    <3>1. CASE cid' = NoCid
      BY <2>0, <3>1
    <3>2. CASE cid' # NoCid /\ cid' = currentCid
      BY <2>0, <3>2 DEF Monitor!Transmit
    <3>3. CASE cid' # NoCid /\ cid' # currentCid
      BY <2>0, <3>3 DEF Monitor!Transmit
    <3> QED
      BY <3>1, <3>2, <3>3
  <2>2. cid' = link /\ link \in Cards => link = slot
    BY CardsAssumption DEF LinkInv
  <2>3. ~Reading(c)' /\ (Coming(c)' => Coming(c))
    BY <1>2, <2>1, <2>2
  <2> HIDE DEF Reading, Coming
  <2> QED
    BY <1>1, <2>1, <2>3, RoadStays
<1>7. CASE Monitor!Claim
  <2>1. /\ UNCHANGED <<events, slot>> /\ mon = "claim" /\ currentCid' = cid /\ cid' = cid
        /\ mon' = "say" /\ say' = "reading"
    BY <1>7 DEF Monitor!Claim, Monitor!world
  <2>2. CASE c # cid
    <3>1. ~Reading(c)' /\ (Coming(c)' => Coming(c))
      BY <2>1, <2>2
    <3> HIDE DEF Reading, Coming
    <3> QED
      BY <1>1, <2>1, <3>1, RoadStays
  <2>3. CASE c = cid
    <3>1. Coming(c) /\ ~Coming(c)' /\ ~Reading(c)
      BY <2>1, <2>3
    <3> DEFINE from(i) == IF i = Len(events) + 1 THEN i + 1 ELSE i
    <3>2. \A i \in Road(c)' : i \in 0 .. Len(events) + 1 /\ from(i) \in Road(c)
      <4> HIDE DEF Reading, Coming
      <4> QED
        BY <1>1, <2>1, <3>1, QueueIsSequence DEF Road
    <3>3. \A i, j \in Road(c)' : i # j => from(i) # from(j)
      BY <3>2, QueueIsSequence
    <3> HIDE DEF Reading, Coming, from
    <3> QED
      BY <1>1, <3>2, <3>3 DEF CameAsOften
  <2> QED
    BY <2>2, <2>3
<1>8. CASE Monitor!Read \/ Monitor!MonitorStops
  <2>1. UNCHANGED <<events, slot, currentCid, cid>>
        /\ \/ mon = "read" /\ mon' = "deliver"
           \/ mon' = "stopped"
    BY <1>8 DEF Monitor!Read, Monitor!MonitorStops, Monitor!world
  <2>2. CASE mon' = "deliver"
    <3>1. (Reading(c)' => Reading(c)) /\ (Coming(c)' => Coming(c))
      BY <2>1, <2>2
    <3> HIDE DEF Reading, Coming
    <3> QED
      BY <1>1, <2>1, <3>1, RoadStays
  <2>3. CASE mon' = "stopped"
    <3>1. ~Reading(c)' /\ (Coming(c)' => Coming(c))
      BY <2>1, <2>3
    <3> HIDE DEF Reading, Coming
    <3> QED
      BY <1>1, <2>1, <3>1, RoadStays
  <2> QED
    BY <2>1, <2>2, <2>3
<1>9. CASE Monitor!PaintReader \/ Monitor!Say
  <2>1. PICK e : events' = Append(events, e) /\ e.kind # "add"
    BY <1>9 DEF Monitor!PaintReader, Monitor!Say, Monitor!Post, Monitor!Paint, Monitor!Status
  <2>2. UNCHANGED <<slot, currentCid, cid, say>>
        /\ \/ mon = "paint" /\ mon' = "poll"
           \/ mon = "say" /\ say = "reading" /\ mon' = "read"
           \/ mon = "say" /\ mon' = "poll"
    <3>1. CASE Monitor!PaintReader
      BY <3>1 DEF Monitor!PaintReader, Monitor!world
    <3>2. CASE Monitor!Say
      BY <3>2 DEF Monitor!Say, Monitor!world
    <3> QED
      BY <1>9, <3>1, <3>2
  <2>3. (Reading(c)' => Reading(c)) /\ (Coming(c)' => Coming(c))
    BY <2>2
  <2> HIDE DEF Reading, Coming
  <2> QED
    BY <1>1, <2>1, <2>3, RoadAtPost
<1>10. CASE Monitor!Deliver
  <2> DEFINE e == Monitor!Add([cid |-> cid, data |-> data])
  <2>1. events' = Append(events, e) /\ e.kind = "add" /\ e.rec.cid = cid
    BY <1>10 DEF Monitor!Deliver, Monitor!Post, Monitor!Add
  <2>2. UNCHANGED <<slot, currentCid, cid>> /\ mon = "deliver" /\ mon' = "say" /\ say' = "done"
    BY <1>10 DEF Monitor!Deliver, Monitor!world
  <2>3. ~Reading(c)' /\ (Coming(c)' => Coming(c)) /\ (c = cid => Reading(c))
    BY <2>2
  <2> HIDE DEF Reading, Coming, e
  <2> QED
    BY <1>1, <2>1, <2>3, RoadAtPost
<1> QED
  BY <1>3, <1>4, <1>5, <1>6, <1>7, <1>8, <1>9, <1>10
     DEF MonitorStep, Monitor!MonitorStep, Monitor!TkCall

\* The list after an insertion.
LEMMA InsertLists ==
  ASSUME TypeOK, NEW r, Table!Insert(r)
  PROVE  Listed' = Listed \cup {r.cid}
<1>1. IsSequence(cardDataList)
  <2>1. cardDataList \in Seq(Table!Record)
    BY DEF TypeOK, Table!TypeOK
  <2>2. /\ Len(cardDataList) \in Nat /\ DOMAIN cardDataList = 1 .. Len(cardDataList)
        /\ cardDataList \in [1 .. Len(cardDataList) -> {cardDataList[i] : i \in DOMAIN cardDataList}]
    BY <2>1, LenProperties, SeqDef
  <2> QED
    BY <2>2, SeqDef DEF IsSequence
<1>2. cardDataList' = Append(cardDataList, r)
  BY DEF Table!Insert
<1>3. /\ DOMAIN cardDataList = 1 .. Len(cardDataList) /\ Len(cardDataList) \in Nat
      /\ DOMAIN cardDataList' = 1 .. Len(cardDataList) + 1
      /\ \A i \in 1 .. Len(cardDataList) : cardDataList'[i] = cardDataList[i]
      /\ cardDataList'[Len(cardDataList) + 1] = r
  BY <1>1, <1>2, AppendGrows
<1>4. Listed' \subseteq Listed \cup {r.cid}
  BY <1>3 DEF Listed, Table!NumbersIn
<1> QED
  BY <1>1, <1>4, InsertGrows

\* The event loop: a record leaves the queue and joins the list, or the person is there.
LEMMA LoopBringsNobody ==
  ASSUME TypeOK, NEW c \in Cards, CameAsOften(c), RunLabel \/ RunAdd
  PROVE  CameAsOften(c)'
<1>1. /\ events # << >> /\ events' = Tail(events)
      /\ UNCHANGED <<slot, currentCid, cid, mon, say, arrivals>>
  BY DEF RunLabel, RunAdd, Monitor!RunPaint, Monitor!RunStatus, Monitor!RunAdd,
     Monitor!TakeEvent, Monitor!thread, Monitor!world
<1>2. (Reading(c)' => Reading(c)) /\ (Coming(c)' => Coming(c)) /\ arrivals'[c] = arrivals[c]
  BY <1>1 DEF Reading, Coming
<1>3. c \in Listed' => c \in Listed \/ (Head(events).kind = "add" /\ Head(events).rec.cid = c)
  <2>1. CASE RunLabel
    BY <2>1 DEF RunLabel, tableOnly, Listed
  <2>2. CASE RunAdd /\ Table!AddNew(Head(events).rec)
    BY <2>2, InsertLists DEF RunAdd, Monitor!RunAdd, Table!AddNew
  <2>3. CASE RunAdd /\ Table!AddDuplicate(Head(events).rec)
    BY <2>3 DEF Table!AddDuplicate, Table!table, Listed
  <2> QED
    BY <2>1, <2>2, <2>3 DEF RunAdd, Table!AddCard
<1> QED
  BY <1>1, <1>2, <1>3, RoadAtTake

\* A refresh, the table's buttons and dialogs, and the end of the program move nobody.
LEMMA OthersBringNobody ==
  ASSUME TypeOK, NEW c \in Cards, CameAsOften(c),
         RefreshStep \/ ClickRefresh \/ TableStep \/ Close \/ UNCHANGED vars
  PROVE  CameAsOften(c)'
<1>1. UNCHANGED <<slot, currentCid, cid, mon, say, cardDataList, arrivals>>
  <2>1. CASE RefreshStep \/ ClickRefresh \/ Close
    BY <2>1 DEF RefreshStep, ClickRefresh, Close, tableOnly, Monitor!RefreshFinds,
       Monitor!RefreshFindsNone, Monitor!Settle, Monitor!ClickRefresh, Monitor!Close,
       Monitor!world, Monitor!thread
  <2>2. CASE TableStep
    BY <2>2 DEF TableStep, monitorOnly, Table!UserStep, Table!ClickClear, Table!AnswerNo,
       Table!ClickImport, Table!ChooseFile, Table!RefuseFile, Table!ClickExport,
       Table!SaveFile, Table!SaveFails, Table!RefuseSave, Table!ClickDetailsOfNothing,
       Table!EditProject, Table!CloseNotice, Table!table
  <2>3. CASE UNCHANGED vars
    BY <2>3 DEF vars, monitorOnly, tableOnly
  <2> QED
    BY <2>1, <2>2, <2>3
<1>2. /\ Reading(c)' <=> Reading(c)
      /\ Coming(c)' => Coming(c)
      /\ c \in Listed' => c \in Listed
      /\ arrivals'[c] = arrivals[c]
  BY <1>1 DEF Reading, Coming, Listed
<1>3. UNCHANGED events \/ \E e : events' = Append(events, e) /\ e.kind # "add"
  BY DEF RefreshStep, ClickRefresh, Close, TableStep, vars, monitorOnly, Monitor!RefreshFinds,
     Monitor!RefreshFindsNone, Monitor!Settle, Monitor!ClickRefresh, Monitor!Close,
     Monitor!Paint
<1> QED
  BY <1>2, <1>3, RoadStays, RoadAtPost

\* What an arrival does to the counts.
LEMMA ArrivalCounts ==
  ASSUME TypeOK, NEW people, Arrive(people), NEW c \in Cards
  PROVE  arrivals'[c] = IF c \in people /\ arrivals[c] < 2
                        THEN arrivals[c] + 1 ELSE arrivals[c]
BY DEF Arrive

\* Who comes by file joins the list, who comes by hand the reader, and a list cleared
\* over a card lets its owner come again.
LEMMA ArrivalsAreCounted ==
  ASSUME TypeOK, NEW c \in Cards, CameAsOften(c), ImportStep \/ AnswerYes \/ WorldStep
  PROVE  CameAsOften(c)'
<1>1. arrivals[c] \in 0 .. 2 /\ Len(events) \in Nat
  BY QueueIsSequence
<1>2. UNCHANGED <<events, cid, mon, say>>
  BY DEF ImportStep, AnswerYes, WorldStep, monitorOnly, Monitor!Forget, Monitor!WorldStep,
     Monitor!InsertCard, Monitor!RemoveCard, Monitor!ReplugReader, Monitor!thread
<1>3. Reading(c)' <=> Reading(c)
  BY <1>2 DEF Reading
<1>4. CASE ImportStep
  <2>1. UNCHANGED <<slot, currentCid>> /\ Arrive(Listed' \ Listed)
    BY <1>4 DEF ImportStep, monitorOnly, Listed
  <2>2. Coming(c)' <=> Coming(c)
    BY <1>2, <2>1 DEF Coming
  <2>3. CASE c \in Listed' \ Listed
    <3>1. \A i \in Road(c)' : i # 0 => i \in Road(c)
      BY <1>2, <1>3, <2>2 DEF Road
    <3>2. arrivals'[c] = IF arrivals[c] < 2 THEN arrivals[c] + 1 ELSE arrivals[c]
      BY <2>1, <2>3, ArrivalCounts
    <3> QED
      BY <1>1, <3>1, <3>2, SomebodyCame
  <2>4. CASE c \notin Listed' \ Listed
    <3>1. arrivals'[c] = arrivals[c]
      BY <2>1, <2>4, ArrivalCounts
    <3> QED
      BY <1>2, <1>3, <2>2, <2>4, <3>1, RoadStays
  <2> QED
    BY <2>3, <2>4
<1>5. CASE AnswerYes
  <2>1. UNCHANGED slot /\ Arrive({slot}) /\ cardDataList' = << >>
    BY <1>5 DEF AnswerYes, Monitor!Forget, Monitor!world, Table!AnswerYes
  <2>2. Listed' = {}
    BY <2>1, EmptySeq DEF Listed, Table!NumbersIn
  <2>3. CASE c = slot
    <3>1. \A i \in Road(c)' : i # Len(events) + 2 => i \in Road(c)
      BY <1>2, <1>3, <2>2 DEF Road
    <3>2. arrivals'[c] = IF arrivals[c] < 2 THEN arrivals[c] + 1 ELSE arrivals[c]
      BY <2>1, <2>3, ArrivalCounts
    <3> QED
      BY <1>1, <3>1, <3>2, SomebodyCame
  <2>4. CASE c # slot
    <3>1. arrivals'[c] = arrivals[c]
      BY <2>1, <2>4, ArrivalCounts
    <3>2. Coming(c)' => Coming(c)
      BY <1>2, <2>1, <2>4 DEF Coming
    <3> QED
      BY <1>2, <1>3, <2>2, <3>1, <3>2, RoadStays
  <2> QED
    BY <2>3, <2>4
<1>6. CASE WorldStep
  <2>1. UNCHANGED <<currentCid, cardDataList>> /\ Arrive({slot'} \ {slot})
    BY <1>6 DEF WorldStep, Monitor!WorldStep, Monitor!InsertCard, Monitor!RemoveCard,
       Monitor!ReplugReader, tableOnly
  <2>2. Listed' = Listed
    BY <2>1 DEF Listed
  <2>3. CASE c = slot' /\ c # slot
    <3>1. \A i \in Road(c)' : i # Len(events) + 2 => i \in Road(c)
      BY <1>2, <1>3, <2>2 DEF Road
    <3>2. arrivals'[c] = IF arrivals[c] < 2 THEN arrivals[c] + 1 ELSE arrivals[c]
      BY <2>1, <2>3, ArrivalCounts
    <3> QED
      BY <1>1, <3>1, <3>2, SomebodyCame
  <2>4. CASE ~(c = slot' /\ c # slot)
    <3>1. arrivals'[c] = arrivals[c]
      BY <2>1, <2>4, ArrivalCounts
    <3>2. Coming(c)' => Coming(c)
      BY <1>2, <2>1, <2>4 DEF Coming
    <3> QED
      BY <1>2, <1>3, <2>2, <3>1, <3>2, RoadStays
  <2> QED
    BY <2>3, <2>4
<1> QED
  BY <1>4, <1>5, <1>6

-----------------------------------------------------------------------------
(* The invariant, and the property. *)

\* The first card has come once; nobody else is on the road.
LEMMA ArrivalInvInit == Init => ArrivalInv
<1>0. Init => LinkInv
  BY DEF Init, Monitor!Init, LinkInv
<1> SUFFICES ASSUME Init, NEW c \in Cards PROVE CameAsOften(c)
  BY <1>0 DEF ArrivalInv
<1>1. /\ link = Dead /\ mon = "poll" /\ events = << >> /\ cardDataList = << >>
      /\ arrivals[c] = IF slot = c THEN 1 ELSE 0
  BY DEF Init, Monitor!Init, Table!Init
<1>2. ~Reading(c) /\ (Coming(c) => slot = c) /\ Len(events) = 0 /\ DOMAIN events = {}
      /\ c \notin Listed
  BY <1>1, EmptySeq DEF Reading, Coming, Listed, Table!NumbersIn
<1>3. \A i \in Road(c) : i = 2 /\ slot = c
  BY <1>2 DEF Road
<1> QED
  BY <1>1, <1>3 DEF CameAsOften

\* Every step keeps it.
LEMMA ArrivalInvStep == TypeOK /\ ArrivalInv /\ [Next]_vars => ArrivalInv'
<1> SUFFICES ASSUME TypeOK, ArrivalInv, [Next]_vars, NEW c \in Cards
             PROVE  CameAsOften(c)'
  BY LinkStep DEF ArrivalInv
<1>1. LinkInv /\ CameAsOften(c)
  BY DEF ArrivalInv
<1> QED
  BY <1>1, MonitorBringsNobody, LoopBringsNobody, OthersBringNobody,
     ArrivalsAreCounted DEF Next, MainStep

\* How the stack of dialogs may change, if not by the warning of a duplicate.
LEMMA OtherDialogs ==
  ASSUME NEW S, NEW s \in Seq(S), "duplicate" \in S
  PROVE  /\ s # Append(s, "duplicate")
         /\ \A d \in S : d # "duplicate" => Append(s, d) # Append(s, "duplicate")
         /\ s # << >> => SubSeq(s, 1, Len(s) - 1) # Append(s, "duplicate")
         /\ \A k, d : [s EXCEPT ![k] = d] # Append(s, "duplicate")
<1> DEFINE w == Append(s, "duplicate")
<1>1. Len(s) \in Nat /\ DOMAIN s = 1 .. Len(s)
  BY LenProperties
<1>2. w \in Seq(S) /\ Len(w) = Len(s) + 1 /\ w[Len(s) + 1] = "duplicate"
  BY AppendProperties
<1>3. DOMAIN w = 1 .. Len(s) + 1
  BY <1>2, LenProperties
<1> HIDE DEF w
<1>4. s # w
  BY <1>1, <1>2
<1>5. ASSUME NEW d \in S, d # "duplicate" PROVE Append(s, d) # w
  <2>1. Append(s, d)[Len(s) + 1] = d
    BY AppendProperties
  <2> QED
    BY <1>2, <1>5, <2>1
<1>6. ASSUME s # << >> PROVE SubSeq(s, 1, Len(s) - 1) # w
  <2>1. Len(s) > 0
    BY <1>1, <1>6, EmptySeq
  <2> DEFINE q == SubSeq(s, 1, Len(s) - 1)
  <2>2. Len(q) = Len(s) - 1
    BY <1>1, <2>1, SubSeqProperties
  <2> HIDE DEF q
  <2>3. q # w
    BY <1>1, <1>2, <2>2
  <2> QED
    BY <2>3 DEF q
<1>7. ASSUME NEW k, NEW d PROVE [s EXCEPT ![k] = d] # w
  <2>1. DOMAIN [s EXCEPT ![k] = d] = 1 .. Len(s)
    BY <1>1
  <2>2. Len(s) + 1 \in DOMAIN w /\ Len(s) + 1 \notin 1 .. Len(s)
    BY <1>1, <1>3
  <2> QED
    BY <2>1, <2>2
<1> QED
  BY <1>4, <1>5, <1>6, <1>7 DEF w

\* Only a record of somebody in the list brings the warning of a duplicate.
LEMMA WarningIsOfListed ==
  ASSUME TypeOK, [Next]_vars, dialogs' = Append(dialogs, "duplicate")
  PROVE  Head(events).rec.cid \in Listed
<1> DEFINE Frames == Table!Questions \cup Table!Notices
<1>1. dialogs \in Seq(Frames) /\ "duplicate" \in Frames
  BY DEF TypeOK, Table!TypeOK, Table!Notices
<1>2. /\ dialogs' # dialogs
      /\ \A d \in Frames : d # "duplicate" => dialogs' # Append(dialogs, d)
      /\ dialogs # << >> => dialogs' # SubSeq(dialogs, 1, Len(dialogs) - 1)
      /\ \A k, d : dialogs' # [dialogs EXCEPT ![k] = d]
  <2> HIDE DEF Frames
  <2> QED
    BY <1>1, OtherDialogs
<1>3. {"open_file", "save_file", "confirm_clear", "info", "error"} \subseteq Frames
  BY DEF Table!Questions, Table!Notices
<1> HIDE DEF Frames
<1>4. ~Table!Pop \/ dialogs = << >>
  BY <1>2 DEF Table!Pop
<1>5. \A d : ~Table!ReplaceBy(d)
  BY <1>2 DEF Table!ReplaceBy
<1>6. \A d \in {"open_file", "save_file", "confirm_clear", "info", "error"} : ~Table!Push(d)
  BY <1>2, <1>3 DEF Table!Push
<1>7. ~TableStep
  BY <1>2, <1>4, <1>5, <1>6 DEF TableStep, Table!UserStep, Table!ClickClear, Table!AnswerNo,
     Table!ClickImport, Table!ChooseFile, Table!RefuseFile, Table!ClickExport,
     Table!SaveFile, Table!SaveFails, Table!RefuseSave, Table!ClickDetailsOfNothing,
     Table!EditProject, Table!CloseNotice, Table!Asked
<1>8. ~ImportStep /\ ~AnswerYes
  BY <1>2, <1>5, <1>6 DEF ImportStep, Table!ImportStep, Table!ImportRow, Table!ImportFails,
     Table!ImportDone, AnswerYes, Table!AnswerYes
<1>9. RunAdd
  BY <1>2, <1>7, <1>8 DEF Next, MainStep, MonitorStep, RunLabel, RefreshStep, ClickRefresh,
     Close, WorldStep, vars, tableOnly
<1> QED
  BY <1>2, <1>9 DEF RunAdd, Table!AddCard, Table!AddNew, Table!AddDuplicate, Listed

\* README_GUI.md:161.  Who is warned of as a duplicate has come twice.
THEOREM OnlyWhoReturnsIsWarnedOf == Spec => WarnsOnlyWhoReturns
<1> DEFINE WarnsStep == \A c \in Cards :
             events # << >> /\ Head(events).kind = "add" /\ Head(events).rec.cid = c
               /\ dialogs' = Append(dialogs, "duplicate")
             => arrivals[c] = 2
<1>1. TypeOK /\ ArrivalInv /\ [Next]_vars => [WarnsStep]_vars
  <2> SUFFICES ASSUME TypeOK, ArrivalInv, [Next]_vars, NEW c \in Cards,
                      events # << >>, Head(events).kind = "add", Head(events).rec.cid = c,
                      dialogs' = Append(dialogs, "duplicate")
               PROVE  arrivals[c] = 2
    OBVIOUS
  <2>1. 0 \in Road(c)
    BY WarningIsOfListed, QueueIsSequence DEF Road
  <2>2. 1 \in Road(c)
    <3>1. events \in Seq(Monitor!Event)
      BY DEF TypeOK, Monitor!TypeOK
    <3>2. Head(events) = events[1] /\ 1 \in 1 .. Len(events)
      BY <3>1, HeadTailProperties, LenProperties, EmptySeq
    <3> QED
      BY <3>2, QueueIsSequence DEF Road
  <2> QED
    BY <2>1, <2>2 DEF ArrivalInv, CameAsOften
<1>2. Spec => []ArrivalInv
  BY ArrivalInvInit, ArrivalInvStep, TypeCorrect, PTL DEF Spec
<1>3. [][WarnsStep]_vars => WarnsOnlyWhoReturns
  BY PTL DEF WarnsOnlyWhoReturns
<1> HIDE DEF WarnsStep
<1> QED
  BY <1>1, <1>2, <1>3, TypeCorrect, PTL DEF Spec
=============================================================================

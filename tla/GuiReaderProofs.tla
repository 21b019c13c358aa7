--------------------------- MODULE GuiReaderProofs --------------------------
(***************************************************************************)
(* Proofs about GuiReader: what the two threads together keep, for any     *)
(* cards, files, queue lengths and depths of dialogs.                      *)
(***************************************************************************)
EXTENDS GuiReader, SequenceTheorems, TLAPS

-----------------------------------------------------------------------------
(* Sequences, whatever they hold. *)

IsSequence(s) == s \in Seq({s[i] : i \in DOMAIN s})

\* Appending to a sequence keeps what it holds and adds the new element.
LEMMA AppendGrows ==
  ASSUME NEW s, IsSequence(s), NEW e
  PROVE  /\ IsSequence(Append(s, e))
         /\ Len(s) \in Nat
         /\ DOMAIN s = 1 .. Len(s)
         /\ DOMAIN Append(s, e) = 1 .. Len(s) + 1
         /\ \A i \in 1 .. Len(s) : Append(s, e)[i] = s[i]
         /\ Append(s, e)[Len(s) + 1] = e
<1> DEFINE S == {s[i] : i \in DOMAIN s}
           T == S \cup {e}
<1>1. s \in Seq(S) /\ Len(s) \in Nat /\ DOMAIN s = 1 .. Len(s)
  BY LenProperties DEF IsSequence
<1> HIDE DEF S
<1>2. s \in Seq(T)
  <2>1. \A i \in 1 .. Len(s) : s[i] \in T
    BY <1>1, ElementOfSeq
  <2> QED
    BY <1>1, <2>1, SeqDef, LenProperties
<1>3. /\ Append(s, e) \in Seq(T)
      /\ Len(Append(s, e)) = Len(s) + 1
      /\ \A i \in 1 .. Len(s) : Append(s, e)[i] = s[i]
      /\ Append(s, e)[Len(s) + 1] = e
  BY <1>2, AppendProperties
<1>4. DOMAIN Append(s, e) = 1 .. Len(s) + 1
  BY <1>1, <1>3, LenProperties
<1>5. Append(s, e) \in Seq({Append(s, e)[i] : i \in DOMAIN Append(s, e)})
  <2> DEFINE a == Append(s, e)
  <2>1. a \in Seq(T) /\ DOMAIN a = 1 .. Len(a)
    BY <1>3, LenProperties
  <2> HIDE DEF a
  <2>2. a \in [1 .. Len(a) -> {a[i] : i \in DOMAIN a}] /\ Len(a) \in Nat
    BY <2>1, SeqDef, LenProperties
  <2>3. a \in Seq({a[i] : i \in DOMAIN a})
    BY <2>2, SeqDef
  <2> QED
    BY <2>3 DEF a
<1> QED
  BY <1>1, <1>3, <1>4, <1>5 DEF IsSequence

\* Taking the head off a sequence moves the rest one place down.
LEMMA TailShifts ==
  ASSUME NEW s, IsSequence(s), s # << >>
  PROVE  /\ IsSequence(Tail(s))
         /\ Head(s) = s[1]
         /\ \A i \in DOMAIN s : i # 1 => i - 1 \in DOMAIN Tail(s) /\ Tail(s)[i - 1] = s[i]
<1> DEFINE S == {s[i] : i \in DOMAIN s}
           t == Tail(s)
<1>1. s \in Seq(S)
  BY DEF IsSequence
<1> HIDE DEF S
<1>2. /\ t \in Seq(S)
      /\ Len(t) = Len(s) - 1
      /\ \A i \in 1 .. Len(t) : t[i] = s[i + 1]
      /\ Head(s) = s[1]
  BY <1>1, HeadTailProperties
<1>3. DOMAIN s = 1 .. Len(s) /\ DOMAIN t = 1 .. Len(t) /\ Len(s) \in Nat /\ Len(t) \in Nat
  BY <1>1, <1>2, LenProperties
<1> HIDE DEF t
<1>4. t \in Seq({t[i] : i \in DOMAIN t})
  BY <1>2, <1>3, SeqDef, LenProperties
<1>5. ASSUME NEW i \in DOMAIN s, i # 1
      PROVE  i - 1 \in DOMAIN t /\ t[i - 1] = s[i]
  BY <1>2, <1>3, <1>5
<1> QED
  BY <1>2, <1>4, <1>5 DEF IsSequence, t

-----------------------------------------------------------------------------
(* No claimed card is lost. *)

\* The inductive invariant: the queue and the list are sequences, and the property.
KeptInv ==
  /\ IsSequence(events)
  /\ IsSequence(cardDataList)
  /\ ClaimedCardIsKept

\* The table after an insertion.
LEMMA InsertGrows ==
  ASSUME IsSequence(cardDataList), NEW r, Table!Insert(r)
  PROVE  /\ IsSequence(cardDataList')
         /\ Listed \subseteq Listed'
         /\ r.cid \in Listed'
<1>1. cardDataList' = Append(cardDataList, r)
  BY DEF Table!Insert
<1>2. /\ IsSequence(cardDataList')
      /\ DOMAIN cardDataList = 1 .. Len(cardDataList) /\ Len(cardDataList) \in Nat
      /\ DOMAIN cardDataList' = 1 .. Len(cardDataList) + 1
      /\ \A i \in 1 .. Len(cardDataList) : cardDataList'[i] = cardDataList[i]
      /\ cardDataList'[Len(cardDataList) + 1] = r
  BY <1>1, AppendGrows
<1>3. Listed \subseteq Listed'
  BY <1>2 DEF Listed, Table!NumbersIn
<1>4. r.cid \in Listed'
  BY <1>2 DEF Listed, Table!NumbersIn
<1> QED
  BY <1>2, <1>3, <1>4

\* A queue that grew at its end still holds what waited in it.
LEMMA PostKeepsWaiting ==
  ASSUME IsSequence(events), NEW e, events' = Append(events, e), NEW c
  PROVE  /\ IsSequence(events')
         /\ Waiting(c) => Waiting(c)'
         /\ e.kind = "add" /\ e.rec.cid = c => Waiting(c)'
<1>1. /\ IsSequence(events') /\ DOMAIN events = 1 .. Len(events) /\ Len(events) \in Nat
      /\ DOMAIN events' = 1 .. Len(events) + 1
      /\ \A i \in 1 .. Len(events) : events'[i] = events[i]
      /\ events'[Len(events) + 1] = e
  BY AppendGrows
<1>2. ASSUME Waiting(c) PROVE Waiting(c)'
  <2>1. PICK i \in DOMAIN events : events[i].kind = "add" /\ events[i].rec.cid = c
    BY <1>2 DEF Waiting
  <2>2. i \in DOMAIN events' /\ events'[i] = events[i]
    BY <1>1, <2>1
  <2> QED
    BY <2>1, <2>2 DEF Waiting
<1>3. ASSUME e.kind = "add", e.rec.cid = c PROVE Waiting(c)'
  <2>1. Len(events) + 1 \in DOMAIN events'
    BY <1>1
  <2> QED
    BY <1>1, <1>3, <2>1 DEF Waiting
<1> QED
  BY <1>1, <1>2, <1>3

\* A queue that lost its head holds the rest.
LEMMA TakeKeepsWaiting ==
  ASSUME IsSequence(events), events # << >>, events' = Tail(events), NEW c, Waiting(c)
  PROVE  /\ IsSequence(events')
         /\ \/ Waiting(c)'
            \/ Head(events).kind = "add" /\ Head(events).rec.cid = c
<1>1. PICK i \in DOMAIN events : events[i].kind = "add" /\ events[i].rec.cid = c
  BY DEF Waiting
<1>2. CASE i = 1
  BY <1>1, <1>2, TailShifts
<1>3. CASE i # 1
  <2>1. i - 1 \in DOMAIN events' /\ events'[i - 1] = events[i]
    BY <1>1, <1>3, TailShifts
  <2> QED
    BY <1>1, <2>1, TailShifts DEF Waiting
<1> QED
  BY <1>2, <1>3

\* The monitor's own steps: only Claim makes a claim and it is then Reading; only
\* Deliver ends Reading, and its record then waits.
LEMMA MonitorKeeps ==
  ASSUME KeptInv, MonitorStep
  PROVE  KeptInv'
<1> USE DEF KeptInv, ClaimedCardIsKept, Reading, Monitor!Goto
<1>1. UNCHANGED cardDataList
  BY DEF MonitorStep, tableOnly
<1>2. Listed' = Listed
  BY <1>1 DEF Listed
<1>3. ASSUME UNCHANGED events PROVE \A c : Waiting(c) => Waiting(c)'
  BY <1>3 DEF Waiting
<1>4. ASSUME UNCHANGED <<events, currentCid, main>>,
             mon \notin {"read", "deliver", "say"}
      PROVE  KeptInv'
  BY <1>1, <1>2, <1>3, <1>4
<1>5. CASE \/ Monitor!Poll \/ Monitor!Enumerate \/ Monitor!NameReader \/ Monitor!ShowReader
           \/ Monitor!ConnectFails \/ Monitor!ConnectFindsNoCard \/ Monitor!Connect
           \/ Monitor!Select \/ Monitor!Identify
  BY <1>4, <1>5 DEF Monitor!Poll, Monitor!Enumerate, Monitor!NameReader, Monitor!ShowReader,
     Monitor!ConnectFails, Monitor!ConnectFindsNoCard, Monitor!Connect, Monitor!Select,
     Monitor!Identify, Monitor!labels
<1>6. CASE Monitor!PaintReader
  <2>1. PICK e : events' = Append(events, e)
    BY <1>6 DEF Monitor!PaintReader, Monitor!Post
  <2>2. IsSequence(events') /\ \A c : Waiting(c) => Waiting(c)'
    BY <2>1, PostKeepsWaiting
  <2> QED
    BY <1>1, <1>2, <1>6, <2>2 DEF Monitor!PaintReader
<1>7. CASE Monitor!Absent
  <2>1. currentCid' = NoCid \/ currentCid' = currentCid
    BY <1>7 DEF Monitor!Absent
  <2> QED
    BY <1>1, <1>2, <1>3, <1>7, <2>1 DEF Monitor!Absent
<1>8. CASE Monitor!Claim
  BY <1>1, <1>8 DEF Monitor!Claim
<1>9. CASE Monitor!Read
  BY <1>1, <1>2, <1>3, <1>9 DEF Monitor!Read
<1>10. CASE Monitor!Deliver
  <2> DEFINE e == Monitor!Add([cid |-> cid, data |-> data])
  <2>1. events' = Append(events, e)
    BY <1>10 DEF Monitor!Deliver, Monitor!Post
  <2>2. e.kind = "add" /\ e.rec.cid = cid
    BY DEF Monitor!Add
  <2>3. IsSequence(events') /\ \A c : (c = cid => Waiting(c)') /\ (Waiting(c) => Waiting(c)')
    <3> HIDE DEF e
    <3> QED
      BY <2>1, <2>2, PostKeepsWaiting
  <2>4. UNCHANGED <<currentCid, main>> /\ mon = "deliver" /\ cid' = cid
    BY <1>10 DEF Monitor!Deliver
  <2>5. Reading(currentCid) => Waiting(currentCid)'
    BY <2>3, <2>4 DEF Waiting
  <2>6. Waiting(currentCid) => Waiting(currentCid)'
    BY <2>3, <2>4 DEF Waiting
  <2> QED
    BY <1>1, <1>2, <2>3, <2>4, <2>5, <2>6
<1>11. CASE Monitor!Say
  <2>1. PICK e : events' = Append(events, e)
    BY <1>11 DEF Monitor!Say, Monitor!Post
  <2>2. IsSequence(events') /\ \A c : Waiting(c) => Waiting(c)'
    BY <2>1, PostKeepsWaiting
  <2>3. UNCHANGED <<currentCid, main, cid, say>> /\ mon = "say"
        /\ (say = "reading" => mon' = "read")
    BY <1>11 DEF Monitor!Say
  <2> QED
    BY <1>1, <1>2, <2>2, <2>3
<1>12. CASE Monitor!MonitorStops
  BY <1>1, <1>12 DEF Monitor!MonitorStops
<1> QED
  BY <1>5, <1>6, <1>7, <1>8, <1>9, <1>10, <1>11, <1>12
     DEF MonitorStep, Monitor!MonitorStep, Monitor!TkCall

\* The event loop: the card it takes from the queue goes into the list, or is there.
LEMMA EventsKeep ==
  ASSUME KeptInv, RunLabel \/ RunAdd
  PROVE  KeptInv'
<1> USE DEF KeptInv, ClaimedCardIsKept
<1>1. /\ events # << >> /\ events' = Tail(events)
      /\ UNCHANGED <<currentCid, cid, mon, say, main>>
  BY DEF RunLabel, RunAdd, Monitor!RunPaint, Monitor!RunStatus, Monitor!RunAdd,
     Monitor!TakeEvent, Monitor!thread
<1>2. IsSequence(events')
  BY <1>1, TailShifts
<1>3. Reading(currentCid) => Reading(currentCid)'
  BY <1>1 DEF Reading
<1>4. CASE RunLabel
  <2>1. Head(events).kind # "add" /\ UNCHANGED cardDataList
    BY <1>4 DEF RunLabel, Monitor!RunPaint, Monitor!RunStatus, tableOnly
  <2>2. \A c : Waiting(c) => Waiting(c)'
    BY <1>1, <2>1, TakeKeepsWaiting
  <2>3. Listed' = Listed
    BY <2>1 DEF Listed
  <2>4. Waiting(currentCid) => Waiting(currentCid)'
    BY <1>1, <2>2 DEF Waiting
  <2> QED
    BY <1>1, <1>2, <1>3, <2>1, <2>3, <2>4
<1>5. CASE RunAdd
  <2> DEFINE r == Head(events).rec
  <2>1. Table!AddNew(r) \/ Table!AddDuplicate(r)
    BY <1>5 DEF RunAdd, Table!AddCard
  <2>2. IsSequence(cardDataList') /\ Listed \subseteq Listed' /\ r.cid \in Listed'
    <3>1. CASE Table!AddNew(r)
      BY <3>1, InsertGrows DEF Table!AddNew
    <3>2. CASE Table!AddDuplicate(r)
      BY <3>2 DEF Table!AddDuplicate, Table!table, Listed
    <3> QED
      BY <2>1, <3>1, <3>2
  <2>3. \A c : Waiting(c) => Waiting(c)' \/ r.cid = c
    BY <1>1, TakeKeepsWaiting
  <2>4. Waiting(currentCid) => Waiting(currentCid)' \/ currentCid \in Listed'
    BY <1>1, <2>2, <2>3 DEF Waiting
  <2> QED
    BY <1>1, <1>2, <1>3, <2>2, <2>4
<1> QED
  BY <1>4, <1>5

\* The table's buttons and dialogs leave the list alone; an import lets it grow.
LEMMA TableKeeps ==
  ASSUME KeptInv, TableStep \/ ImportStep
  PROVE  KeptInv'
<1> USE DEF KeptInv, ClaimedCardIsKept
<1>1. UNCHANGED <<events, currentCid, cid, mon, say>>
  BY DEF TableStep, ImportStep, monitorOnly
<1>2. main # "closed" \/ main' = "closed"
  <2>1. CASE TableStep
    BY <2>1 DEF TableStep, Table!UserStep, Table!ClickClear, Table!AnswerNo,
       Table!ClickImport, Table!ChooseFile, Table!RefuseFile, Table!ClickExport,
       Table!SaveFile, Table!SaveFails, Table!RefuseSave, Table!ClickDetailsOfNothing,
       Table!EditProject, Table!CloseNotice, Table!Free, Table!Asked
  <2>2. CASE ImportStep
    BY <2>2 DEF ImportStep, Table!ImportStep, Table!ImportRow, Table!ImportFails,
       Table!ImportDone
  <2> QED
    BY <2>1, <2>2
<1>3. IsSequence(cardDataList') /\ Listed \subseteq Listed'
  <2>1. ASSUME UNCHANGED cardDataList
        PROVE  IsSequence(cardDataList') /\ Listed \subseteq Listed'
    BY <2>1 DEF Listed
  <2>2. CASE TableStep
    BY <2>1, <2>2 DEF TableStep, Table!UserStep, Table!ClickClear, Table!AnswerNo,
       Table!ClickImport, Table!ChooseFile, Table!RefuseFile, Table!ClickExport,
       Table!SaveFile, Table!SaveFails, Table!RefuseSave, Table!ClickDetailsOfNothing,
       Table!EditProject, Table!CloseNotice, Table!table
  <2>3. CASE Table!ImportRow
    <3> DEFINE row == imp.rows[imp.done + 1]
    <3>1. CASE Table!ImportBad(row) \/ Table!ImportDuplicate(row)
      BY <2>1, <3>1 DEF Table!ImportBad, Table!ImportDuplicate
    <3>2. CASE Table!ImportNew(row)
      BY <3>2, InsertGrows DEF Table!ImportNew
    <3> QED
      BY <2>3, <3>1, <3>2 DEF Table!ImportRow
  <2>4. CASE Table!ImportFails \/ Table!ImportDone
    BY <2>1, <2>4 DEF Table!ImportFails, Table!ImportDone, Table!table
  <2> QED
    BY <2>2, <2>3, <2>4 DEF ImportStep, Table!ImportStep
<1>4. /\ Reading(currentCid) => Reading(currentCid)'
      /\ Waiting(currentCid) => Waiting(currentCid)'
  BY <1>1 DEF Reading, Waiting
<1> QED
  BY <1>1, <1>2, <1>3, <1>4

\* A refresh, the window's close, the user's hands: neither claim nor list changes.
LEMMA RestKeeps ==
  ASSUME KeptInv, ClickRefresh \/ RefreshStep \/ Close \/ WorldStep \/ UNCHANGED vars
  PROVE  KeptInv'
<1> USE DEF KeptInv, ClaimedCardIsKept
<1>1. UNCHANGED <<cardDataList, currentCid, cid, mon, say>>
  BY DEF ClickRefresh, RefreshStep, Close, WorldStep, vars, tableOnly, monitorOnly,
     Monitor!ClickRefresh, Monitor!RefreshFinds, Monitor!RefreshFindsNone, Monitor!Settle,
     Monitor!Close, Monitor!WorldStep, Monitor!InsertCard, Monitor!RemoveCard,
     Monitor!ReplugReader, Monitor!thread
<1>2. main # "closed" \/ main' = "closed"
  BY DEF ClickRefresh, RefreshStep, Close, WorldStep, vars,
     Monitor!ClickRefresh, Monitor!RefreshFinds, Monitor!RefreshFindsNone, Monitor!Settle,
     Monitor!Close, Monitor!WorldStep, Monitor!InsertCard, Monitor!RemoveCard,
     Monitor!ReplugReader
<1>3. IsSequence(events') /\ \A c : Waiting(c) => Waiting(c)'
  <2>1. UNCHANGED events \/ \E e : events' = Append(events, e)
    BY DEF ClickRefresh, RefreshStep, Close, WorldStep, vars, monitorOnly,
       Monitor!ClickRefresh, Monitor!RefreshFinds, Monitor!RefreshFindsNone,
       Monitor!Settle, Monitor!Close, Monitor!WorldStep, Monitor!InsertCard,
       Monitor!RemoveCard, Monitor!ReplugReader
  <2>2. CASE UNCHANGED events
    BY <2>2 DEF Waiting
  <2>3. ASSUME NEW e, events' = Append(events, e)
        PROVE  IsSequence(events') /\ \A c : Waiting(c) => Waiting(c)'
    BY <2>3, PostKeepsWaiting
  <2> QED
    BY <2>1, <2>2, <2>3
<1>4. Listed' = Listed
  BY <1>1 DEF Listed
<1>5. /\ Reading(currentCid) => Reading(currentCid)'
      /\ Waiting(currentCid) => Waiting(currentCid)'
  BY <1>1, <1>3 DEF Reading, Waiting
<1> QED
  BY <1>1, <1>2, <1>3, <1>4, <1>5

\* monitor_card marks a card as read before it reads it.  Still no card is marked
\* and then lost: however the two threads interleave, and whatever the user clears,
\* imports, unplugs or swaps meanwhile, a marked card is being read, waits in the
\* queue, or is in the list, as long as the window is open.
THEOREM NoClaimedCardIsLost == Spec => []ClaimedCardIsKept
<1>1. Init => KeptInv
  <2> SUFFICES ASSUME Init PROVE KeptInv
    OBVIOUS
  <2>1. events = << >> /\ cardDataList = << >> /\ currentCid = NoCid
    BY DEF Init, Monitor!Init, Table!Init
  <2>2. IsSequence(<< >>)
    BY EmptySeq DEF IsSequence
  <2> QED
    BY <2>1, <2>2 DEF KeptInv, ClaimedCardIsKept
<1>2. KeptInv /\ [Next]_vars => KeptInv'
  <2> SUFFICES ASSUME KeptInv, [Next]_vars PROVE KeptInv'
    OBVIOUS
  <2>1. CASE AnswerYes
    <3>1. currentCid' = NoCid /\ cardDataList' = << >> /\ UNCHANGED events
      BY <2>1 DEF AnswerYes, Table!AnswerYes, Monitor!Forget
    <3>2. IsSequence(<< >>)
      BY EmptySeq DEF IsSequence
    <3> QED
      BY <3>1, <3>2 DEF KeptInv, ClaimedCardIsKept
  <2> QED
    BY <2>1, MonitorKeeps, EventsKeep, TableKeeps, RestKeeps DEF Next, MainStep
<1>3. KeptInv => ClaimedCardIsKept
  BY DEF KeptInv
<1> QED
  BY <1>1, <1>2, <1>3, PTL DEF Spec

-----------------------------------------------------------------------------
(* Nobody is in the list twice. *)

\* Every step of the program leaves the list alone, appends somebody new to it, or
\* empties it.
LEMMA ListSteps ==
  ASSUME [Next]_vars
  PROVE  \/ UNCHANGED cardDataList
         \/ \E r : r.cid \notin Listed /\ Table!Insert(r)
         \/ cardDataList' = << >>
<1>1. CASE RunAdd
  <2>1. Table!AddNew(Head(events).rec) \/ Table!AddDuplicate(Head(events).rec)
    BY <1>1 DEF RunAdd, Table!AddCard
  <2> QED
    BY <2>1 DEF Table!AddNew, Table!AddDuplicate, Table!table, Listed
<1>2. CASE AnswerYes
  BY <1>2 DEF AnswerYes, Table!AnswerYes
<1>3. CASE TableStep
  BY <1>3 DEF TableStep, Table!UserStep, Table!ClickClear, Table!AnswerNo,
     Table!ClickImport, Table!ChooseFile, Table!RefuseFile, Table!ClickExport,
     Table!SaveFile, Table!SaveFails, Table!RefuseSave, Table!ClickDetailsOfNothing,
     Table!EditProject, Table!CloseNotice, Table!table
<1>4. CASE ImportStep
  <2> DEFINE row == imp.rows[imp.done + 1]
  <2>1. CASE Table!ImportRow /\ (Table!ImportBad(row) \/ Table!ImportDuplicate(row))
    BY <2>1 DEF Table!ImportBad, Table!ImportDuplicate
  <2>2. CASE Table!ImportRow /\ Table!ImportNew(row)
    <3> DEFINE r == [cid |-> row.cid, data |-> row.data]
    <3>1. r.cid \notin Listed /\ Table!Insert(r)
      BY <2>2 DEF Table!ImportNew, Listed
    <3> QED
      BY <3>1
  <2>3. CASE Table!ImportFails \/ Table!ImportDone
    BY <2>3 DEF Table!ImportFails, Table!ImportDone, Table!table
  <2> QED
    BY <1>4, <2>1, <2>2, <2>3 DEF ImportStep, Table!ImportStep, Table!ImportRow
<1>5. CASE MonitorStep \/ RunLabel \/ ClickRefresh \/ RefreshStep \/ Close \/ WorldStep
           \/ UNCHANGED vars
  BY <1>5 DEF MonitorStep, RunLabel, ClickRefresh, RefreshStep, Close, WorldStep, vars,
     tableOnly
<1> QED
  BY <1>1, <1>2, <1>3, <1>4, <1>5 DEF Next, MainStep

\* What the list is after somebody was appended.
LEMMA InsertAppends ==
  ASSUME IsSequence(cardDataList), NEW r, Table!Insert(r)
  PROVE  /\ IsSequence(cardDataList')
         /\ Len(cardDataList) \in Nat /\ Len(cardDataList') = Len(cardDataList) + 1
         /\ \A i \in DOMAIN cardDataList' :
                \/ i \in DOMAIN cardDataList /\ cardDataList'[i] = cardDataList[i]
                \/ i = Len(cardDataList) + 1 /\ cardDataList'[i] = r
<1>1. cardDataList' = Append(cardDataList, r)
  BY DEF Table!Insert
<1>2. /\ IsSequence(cardDataList')
      /\ Len(cardDataList) \in Nat
      /\ DOMAIN cardDataList = 1 .. Len(cardDataList)
      /\ DOMAIN cardDataList' = 1 .. Len(cardDataList) + 1
      /\ \A i \in 1 .. Len(cardDataList) : cardDataList'[i] = cardDataList[i]
      /\ cardDataList'[Len(cardDataList) + 1] = r
  BY <1>1, AppendGrows
<1>3. Len(cardDataList') = Len(cardDataList) + 1
  BY <1>2, LenProperties DEF IsSequence
<1> QED
  BY <1>2, <1>3

\* README_GUI.md:16.  A number is in the list once at most, whichever of the two
\* threads brings it, from a card or from a file, before or after a clear.
THEOREM NobodyTwice == Spec => []NoDuplicateCid
<1> DEFINE Inv == IsSequence(cardDataList) /\ NoDuplicateCid
<1> USE DEF NoDuplicateCid, Table!NoDuplicateCid
<1>1. Init => Inv
  BY EmptySeq DEF Init, Table!Init, IsSequence
<1>2. Inv /\ [Next]_vars => Inv'
  <2> SUFFICES ASSUME Inv, [Next]_vars PROVE Inv'
    OBVIOUS
  <2>1. CASE UNCHANGED cardDataList
    BY <2>1
  <2>2. CASE cardDataList' = << >>
    BY <2>2, EmptySeq DEF IsSequence
  <2>3. ASSUME NEW r, r.cid \notin Listed, Table!Insert(r)
        PROVE  Inv'
    <3>1. \A i \in DOMAIN cardDataList : cardDataList[i].cid # r.cid
      BY <2>3 DEF Listed, Table!NumbersIn
    <3> QED
      BY <2>3, <3>1, InsertAppends
  <2> QED
    BY <2>1, <2>2, <2>3, ListSteps
<1>3. Inv => NoDuplicateCid
  OBVIOUS
<1> QED
  BY <1>1, <1>2, <1>3, PTL DEF Spec

-----------------------------------------------------------------------------
(* The status bar counts the people in the list. *)

\* No row of the file makes the csv module raise.
Readable(rows) == \A n \in Nat : n < Len(rows) => rows[n + 1] # Table!Garbled

FilesAreReadable == \A rows \in Files : Readable(rows)

\* Between imports the counter is right; an import is under way only with rows that
\* can be read, and what the program writes itself can be.
CountInv ==
  /\ IsSequence(cardDataList)
  /\ FilesAreReadable
  /\ file # NoFile => Readable(file)
  /\ IF main = "import" THEN Readable(imp.rows) /\ imp.done \in Nat
                        ELSE dataCount = Len(cardDataList)

\* What an export writes to the end can be read again.
LEMMA ExportsAreReadable ==
  ASSUME IsSequence(cardDataList)
  PROVE  Readable(Table!CsvOfList)
<1> DEFINE csv == Table!CsvOfList
           N == Len(cardDataList)
           Rows == {Table!CsvOf(cardDataList[i]) : i \in 1 .. N}
<1>1. N \in Nat /\ DOMAIN cardDataList = 1 .. N
  BY LenProperties DEF IsSequence
<1>2. csv = [i \in 1 .. N |-> Table!CsvOf(cardDataList[i])]
  BY <1>1 DEF Table!CsvOfList
<1>3. csv \in [1 .. N -> Rows]
  BY <1>2
<1>4. Table!Garbled \notin Rows
  <2>1. \A r : DOMAIN Table!CsvOf(r) = {"cid", "data", "project"}
    BY DEF Table!CsvOf
  <2>2. DOMAIN Table!Garbled = {"garbled"}
    BY DEF Table!Garbled
  <2> QED
    BY <2>1, <2>2
<1> HIDE DEF csv, N, Rows
<1>5. csv \in Seq(Rows) /\ Len(csv) = N
  BY <1>1, <1>3, SeqDef, LenProperties
<1>6. ASSUME NEW s \in Seq(Rows) PROVE Readable(s)
  <2> SUFFICES ASSUME NEW n \in Nat, n < Len(s) PROVE s[n + 1] # Table!Garbled
    BY DEF Readable
  <2>1. Len(s) \in Nat /\ n + 1 \in 1 .. Len(s)
    BY LenProperties
  <2>2. s[n + 1] \in Rows
    BY <2>1, ElementOfSeq
  <2> QED
    BY <1>4, <2>2
<1> QED
  BY <1>5, <1>6 DEF csv, N

\* A file is chosen, a row is taken, an import ends.
LEMMA ImportCounts ==
  ASSUME CountInv, (TableStep /\ Table!ChooseFile) \/ ImportStep
  PROVE  CountInv'
<1> USE DEF CountInv
<1>1. CASE TableStep /\ Table!ChooseFile
  <2>1. PICK rows \in Files \cup ({file} \ {NoFile}) :
          imp' = Table!Opened(rows, Len(cardDataList))
    BY <1>1 DEF Table!ChooseFile
  <2>2. Readable(rows) /\ imp'.rows = rows /\ imp'.done = 0
    BY <2>1 DEF FilesAreReadable, Table!Opened
  <2>3. main' = "import" /\ UNCHANGED <<cardDataList, file>>
    BY <1>1 DEF Table!ChooseFile, Table!table
  <2> QED
    BY <2>2, <2>3 DEF FilesAreReadable, Readable
<1>2. CASE Table!ImportRow
  <2> DEFINE row == imp.rows[imp.done + 1]
  <2>1. main = "import" /\ UNCHANGED <<main, file>>
    BY <1>2 DEF Table!ImportRow
  <2>2. imp'.rows = imp.rows /\ imp'.done = imp.done + 1
    BY <1>2 DEF Table!ImportRow, Table!ImportBad, Table!ImportDuplicate, Table!ImportNew,
                Table!Count
  <2>3. IsSequence(cardDataList')
    <3>1. CASE Table!ImportBad(row) \/ Table!ImportDuplicate(row)
      BY <3>1 DEF Table!ImportBad, Table!ImportDuplicate
    <3>2. CASE Table!ImportNew(row)
      BY <3>2, InsertGrows DEF Table!ImportNew
    <3> QED
      BY <1>2, <3>1, <3>2 DEF Table!ImportRow
  <2> QED
    BY <2>1, <2>2, <2>3 DEF FilesAreReadable, Readable
<1>3. CASE Table!ImportFails
  <2>1. /\ main = "import" /\ imp.done < Len(imp.rows)
        /\ imp.rows[imp.done + 1] = Table!Garbled
    BY <1>3 DEF Table!ImportFails
  <2> QED
    BY <2>1 DEF Readable
<1>4. CASE Table!ImportDone
  BY <1>4 DEF Table!ImportDone, FilesAreReadable, Readable
<1> QED
  BY <1>1, <1>2, <1>3, <1>4 DEF ImportStep, Table!ImportStep

\* Every other step of the window, save an export that fails: the list and its counter
\* move together.
LEMMA WindowCounts ==
  ASSUME CountInv, ~Table!SaveFails,
         RunAdd \/ AnswerYes \/ (TableStep /\ ~Table!ChooseFile)
  PROVE  CountInv'
<1> USE DEF CountInv
<1>1. CASE RunAdd
  <2> DEFINE r == Head(events).rec
  <2>1. main = "loop" /\ UNCHANGED <<main, file, imp>>
    BY <1>1 DEF RunAdd, Table!AddCard
  <2>2. CASE Table!AddNew(r)
    <3>1. dataCount' = Len(cardDataList) + 1
      BY <2>2 DEF Table!AddNew
    <3>2. IsSequence(cardDataList') /\ Len(cardDataList') = Len(cardDataList) + 1
      BY <2>2, InsertAppends DEF Table!AddNew
    <3> QED
      BY <2>1, <3>1, <3>2 DEF FilesAreReadable, Readable
  <2>3. CASE Table!AddDuplicate(r)
    BY <2>1, <2>3 DEF Table!AddDuplicate, Table!table, FilesAreReadable, Readable
  <2> QED
    BY <1>1, <2>2, <2>3 DEF RunAdd, Table!AddCard
<1>2. CASE AnswerYes
  <2>1. /\ cardDataList' = << >> /\ dataCount' = 0
        /\ main = "loop" /\ UNCHANGED <<main, file>>
    BY <1>2 DEF AnswerYes, Table!AnswerYes, Table!Asked
  <2>2. IsSequence(<< >>) /\ Len(<< >>) = 0
    BY EmptySeq DEF IsSequence
  <2> QED
    BY <2>1, <2>2 DEF FilesAreReadable, Readable
<1>3. CASE TableStep /\ Table!SaveFile
  <2>1. main = "loop" /\ UNCHANGED <<main, cardDataList, dataCount>>
    BY <1>3 DEF Table!SaveFile, Table!Asked, Table!table
  <2>2. Readable(file')
    BY <1>3, ExportsAreReadable DEF Table!SaveFile
  <2> QED
    BY <2>1, <2>2 DEF FilesAreReadable, Readable
<1>4. CASE TableStep /\ ~Table!ChooseFile /\ ~Table!SaveFile
  <2>1. main = "loop" /\ UNCHANGED <<main, file, cardDataList, dataCount>>
    BY <1>4 DEF TableStep, Table!UserStep, Table!ClickClear, Table!AnswerNo,
       Table!ClickImport, Table!RefuseFile, Table!ClickExport, Table!RefuseSave,
       Table!ClickDetailsOfNothing, Table!EditProject, Table!CloseNotice, Table!table,
       Table!Free, Table!Asked
  <2> QED
    BY <2>1 DEF FilesAreReadable, Readable
<1> QED
  BY <1>1, <1>2, <1>3, <1>4

\* Steps that are not the table's neither begin nor end an import.
LEMMA ImportIsApart ==
  ASSUME \/ MonitorStep \/ RunLabel \/ ClickRefresh \/ RefreshStep \/ Close \/ WorldStep
         \/ UNCHANGED vars
  PROVE  main' = main \/ (main # "import" /\ main' # "import")
<1>1. CASE MonitorStep
  BY <1>1 DEF MonitorStep, Monitor!MonitorStep, Monitor!TkCall, Monitor!Poll,
     Monitor!Enumerate, Monitor!NameReader, Monitor!ShowReader, Monitor!PaintReader,
     Monitor!ConnectFails, Monitor!ConnectFindsNoCard, Monitor!Connect, Monitor!Absent,
     Monitor!Select, Monitor!Identify, Monitor!Claim, Monitor!Read, Monitor!Deliver,
     Monitor!Say, Monitor!MonitorStops
<1>2. CASE RunLabel \/ UNCHANGED vars
  BY <1>2 DEF RunLabel, Monitor!RunPaint, Monitor!RunStatus, Monitor!TakeEvent, vars
<1>3. CASE ClickRefresh \/ RefreshStep \/ Close
  BY <1>3 DEF ClickRefresh, RefreshStep, Close, Monitor!ClickRefresh,
     Monitor!RefreshFinds, Monitor!RefreshFindsNone, Monitor!Settle, Monitor!Close
<1>4. CASE WorldStep
  BY <1>4 DEF WorldStep, Monitor!WorldStep, Monitor!InsertCard, Monitor!RemoveCard,
     Monitor!ReplugReader
<1> QED
  BY <1>1, <1>2, <1>3, <1>4

\* The monitor, the labels, a refresh and the user's hands do not touch the table, and
\* leave an import alone.
LEMMA RestCounts ==
  ASSUME CountInv,
         \/ MonitorStep \/ RunLabel \/ ClickRefresh \/ RefreshStep \/ Close \/ WorldStep
         \/ UNCHANGED vars
  PROVE  CountInv'
<1>1. UNCHANGED <<cardDataList, dataCount, file, imp>>
  BY DEF MonitorStep, RunLabel, ClickRefresh, RefreshStep, Close, WorldStep, vars, tableOnly
<1>2. main' = main \/ (main # "import" /\ main' # "import")
  BY ImportIsApart
<1> QED
  BY <1>1, <1>2 DEF CountInv, FilesAreReadable, Readable

\* README_GUI.md:20, 131.  If the files can be read to their ends, and no export fails
\* half way, the status bar counts the people in the list, however adds, imports, exports
\* and clears mix.  (A file cut inside a letter cannot be read to its end: the import of
\* it breaks off with the counter behind, as TableBrokenFile shows.)
THEOREM CountIsRight ==
  FilesAreReadable /\ Spec /\ [][~Table!SaveFails]_vars => []CountMatchesList
<1>1. FilesAreReadable /\ Init => CountInv
  <2> SUFFICES ASSUME FilesAreReadable, Init PROVE CountInv
    OBVIOUS
  <2>1. cardDataList = << >> /\ dataCount = 0 /\ main = "loop" /\ file = NoFile
    BY DEF Init, Table!Init
  <2>2. IsSequence(<< >>) /\ Len(<< >>) = 0
    BY EmptySeq DEF IsSequence
  <2> QED
    BY <2>1, <2>2 DEF CountInv
<1>2. CountInv /\ [Next]_vars /\ [~Table!SaveFails]_vars => CountInv'
  BY ImportCounts, WindowCounts, RestCounts DEF Next, MainStep
<1>3. CountInv => CountMatchesList
  BY DEF CountInv, CountMatchesList, Table!CountMatchesList
<1> QED
  BY <1>1, <1>2, <1>3, PTL DEF Spec

-----------------------------------------------------------------------------
(* In the program, the table is the one of CardTable. *)

\* What waits to be added is a record: its number was read before, and it was put
\* together by read_card_data.
RecordsInv ==
  /\ mon \in {"claim", "read", "deliver"} \/ (mon = "say" /\ say = "reading") => cid \in Cards
  /\ data \in Table!Data
  /\ IsSequence(events)
  /\ \A i \in DOMAIN events : events[i].kind = "add" => events[i].rec \in Table!Record

\* A callback posted that is no record, or is one.
LEMMA PostKeepsRecords ==
  ASSUME RecordsInv, NEW e, events' = Append(events, e),
         e.kind = "add" => e.rec \in Table!Record
  PROVE  /\ IsSequence(events')
         /\ \A i \in DOMAIN events' : events'[i].kind = "add" => events'[i].rec \in Table!Record
<1>1. /\ IsSequence(events') /\ DOMAIN events = 1 .. Len(events) /\ Len(events) \in Nat
      /\ DOMAIN events' = 1 .. Len(events) + 1
      /\ \A i \in 1 .. Len(events) : events'[i] = events[i]
      /\ events'[Len(events) + 1] = e
  BY AppendGrows DEF RecordsInv
<1> QED
  BY <1>1 DEF RecordsInv

\* The monitor.
LEMMA MonitorKeepsRecords ==
  ASSUME RecordsInv, MonitorStep
  PROVE  RecordsInv'
<1> USE DEF Monitor!Goto
<1>1. CASE \/ Monitor!Poll \/ Monitor!Enumerate \/ Monitor!NameReader \/ Monitor!ShowReader
           \/ Monitor!ConnectFails \/ Monitor!ConnectFindsNoCard \/ Monitor!Connect
           \/ Monitor!Absent \/ Monitor!Select \/ Monitor!MonitorStops
  BY <1>1 DEF RecordsInv, Monitor!Poll, Monitor!Enumerate, Monitor!NameReader,
     Monitor!ShowReader, Monitor!ConnectFails, Monitor!ConnectFindsNoCard, Monitor!Connect,
     Monitor!Absent, Monitor!Select, Monitor!MonitorStops
<1>2. CASE Monitor!Identify
  <2>1. UNCHANGED <<data, events>> /\ say' = "same"
    BY <1>2 DEF Monitor!Identify
  <2>2. cid' = NoCid => mon' = "poll"
    BY <1>2 DEF Monitor!Identify
  <2>3. cid' # NoCid => cid' \in Cards
    BY <1>2 DEF Monitor!Identify, Monitor!Transmit
  <2> QED
    BY <2>1, <2>2, <2>3 DEF RecordsInv
<1>3. CASE Monitor!Claim
  BY <1>3 DEF RecordsInv, Monitor!Claim
<1>4. CASE Monitor!Read
  <2>1. data' \in Table!Data
    BY <1>4 DEF Monitor!Read, Table!Data
  <2> QED
    BY <1>4, <2>1 DEF RecordsInv, Monitor!Read
<1>5. CASE Monitor!PaintReader
  <2> DEFINE e == Monitor!Paint(Monitor!ColorOf(found))
  <2>1. events' = Append(events, e) /\ e.kind # "add"
    BY <1>5 DEF Monitor!PaintReader, Monitor!Post, Monitor!Paint
  <2> HIDE DEF e
  <2>2. /\ IsSequence(events')
        /\ \A i \in DOMAIN events' : events'[i].kind = "add" => events'[i].rec \in Table!Record
    BY <2>1, PostKeepsRecords
  <2> QED
    BY <1>5, <2>2 DEF RecordsInv, Monitor!PaintReader
<1>6. CASE Monitor!Say
  <2> DEFINE e == Monitor!Status(say)
  <2>1. events' = Append(events, e) /\ e.kind # "add"
    BY <1>6 DEF Monitor!Say, Monitor!Post, Monitor!Status
  <2> HIDE DEF e
  <2>2. /\ IsSequence(events')
        /\ \A i \in DOMAIN events' : events'[i].kind = "add" => events'[i].rec \in Table!Record
    BY <2>1, PostKeepsRecords
  <2> QED
    BY <1>6, <2>2 DEF RecordsInv, Monitor!Say
<1>7. CASE Monitor!Deliver
  <2> DEFINE r == [cid |-> cid, data |-> data]
             e == Monitor!Add(r)
  <2>1. r \in Table!Record
    BY <1>7, FilesAssumption DEF Monitor!Deliver, RecordsInv, Table!Record
  <2>2. events' = Append(events, e) /\ e.rec = r
    BY <1>7 DEF Monitor!Deliver, Monitor!Post, Monitor!Add
  <2> HIDE DEF e, r
  <2>3. /\ IsSequence(events')
        /\ \A i \in DOMAIN events' : events'[i].kind = "add" => events'[i].rec \in Table!Record
    BY <2>1, <2>2, PostKeepsRecords
  <2> QED
    BY <1>7, <2>3 DEF RecordsInv, Monitor!Deliver
<1> QED
  BY <1>1, <1>2, <1>3, <1>4, <1>5, <1>6, <1>7
     DEF MonitorStep, Monitor!MonitorStep, Monitor!TkCall

\* Everything else: callbacks are taken, and painted by a refresh.
LEMMA RestKeepsRecords ==
  ASSUME RecordsInv, [Next]_vars, ~MonitorStep
  PROVE  RecordsInv'
<1>1. UNCHANGED <<mon, cid, data, say>>
  BY DEF Next, MainStep, RunLabel, RunAdd, RefreshStep, ImportStep, ClickRefresh, TableStep,
     AnswerYes, Close, WorldStep, vars, monitorOnly,
     Monitor!RunPaint, Monitor!RunStatus, Monitor!RunAdd, Monitor!TakeEvent,
     Monitor!ClickRefresh, Monitor!RefreshFinds, Monitor!RefreshFindsNone, Monitor!Settle,
     Monitor!Forget, Monitor!Close, Monitor!WorldStep, Monitor!InsertCard,
     Monitor!RemoveCard, Monitor!ReplugReader, Monitor!thread
<1>2. \/ UNCHANGED events
      \/ events # << >> /\ events' = Tail(events)
      \/ \E c : events' = Append(events, Monitor!Paint(c))
  BY DEF Next, MainStep, RunLabel, RunAdd, RefreshStep, ImportStep, ClickRefresh, TableStep,
     AnswerYes, Close, WorldStep, vars, monitorOnly,
     Monitor!RunPaint, Monitor!RunStatus, Monitor!RunAdd, Monitor!TakeEvent,
     Monitor!ClickRefresh, Monitor!RefreshFinds, Monitor!RefreshFindsNone, Monitor!Settle,
     Monitor!Forget, Monitor!Close, Monitor!WorldStep, Monitor!InsertCard,
     Monitor!RemoveCard, Monitor!ReplugReader
<1>3. CASE UNCHANGED events
  BY <1>1, <1>3 DEF RecordsInv
<1>4. CASE events # << >> /\ events' = Tail(events)
  <2>1. events \in Seq({events[i] : i \in DOMAIN events})
    BY DEF RecordsInv, IsSequence
  <2>2. \A i \in DOMAIN events' : i + 1 \in DOMAIN events /\ events'[i] = events[i + 1]
    BY <1>4, <2>1, HeadTailProperties, LenProperties
  <2>3. IsSequence(events')
    BY <1>4, TailShifts DEF RecordsInv
  <2> QED
    BY <1>1, <2>2, <2>3 DEF RecordsInv
<1>5. ASSUME NEW c, events' = Append(events, Monitor!Paint(c))
      PROVE  RecordsInv'
  <2>1. Monitor!Paint(c).kind # "add"
    BY DEF Monitor!Paint
  <2>2. /\ IsSequence(events')
        /\ \A i \in DOMAIN events' : events'[i].kind = "add" => events'[i].rec \in Table!Record
    BY <1>5, <2>1, PostKeepsRecords
  <2> QED
    BY <1>1, <2>2 DEF RecordsInv
<1> QED
  BY <1>2, <1>3, <1>4, <1>5

\* A record that comes out of the queue is added as CardTable says.
LEMMA AddImplements ==
  ASSUME RecordsInv, RunAdd
  PROVE  View!Next
<1> DEFINE r == Head(events).rec
<1>1. main = "loop" /\ main' = "loop" /\ events # << >> /\ Head(events).kind = "add"
  BY DEF RunAdd, Monitor!RunAdd, Monitor!TakeEvent
<1>2. r \in View!Record
  <2>1. Head(events) = events[1] /\ 1 \in DOMAIN events
    <3>1. events \in Seq({events[i] : i \in DOMAIN events})
      BY DEF RecordsInv, IsSequence
    <3> QED
      BY <1>1, <3>1, HeadTailProperties, LenProperties, EmptySeq
  <2> QED
    BY <1>1, <2>1 DEF RecordsInv, Table!Record, View!Record, Table!Data, View!Data
<1> HIDE DEF r
<1>3. View!AddCard(r)
  BY <1>1 DEF RunAdd, Table!AddCard, Table!AddNew, Table!AddDuplicate, Table!Insert,
     Table!Push, Table!table, Table!NumbersIn, View!AddCard, View!AddNew,
     View!AddDuplicate, View!Insert, View!Push, View!table, View!NumbersIn, r
<1> QED
  BY <1>2, <1>3 DEF View!Next

\* The buttons and dialogs of the table, and its import, are CardTable's own.
LEMMA TableImplements ==
  ASSUME TableStep \/ AnswerYes \/ ImportStep
  PROVE  View!Next
<1> USE DEF Table!table, View!table, Table!Push, View!Push, Table!Pop, View!Pop,
            Table!ReplaceBy, View!ReplaceBy, Table!Free, View!Free, Table!Asked, View!Asked
<1>1. CASE AnswerYes
  BY <1>1 DEF AnswerYes, Table!AnswerYes, View!AnswerYes, View!Next
<1>2. CASE TableStep /\ (Table!ClickClear \/ Table!AnswerNo \/ Table!ClickImport)
  BY <1>2 DEF Table!ClickClear, Table!AnswerNo, Table!ClickImport,
     View!ClickClear, View!AnswerNo, View!ClickImport, View!UserStep, View!Next
<1>3. CASE TableStep /\ Table!ChooseFile
  BY <1>3 DEF Table!ChooseFile, View!ChooseFile, Table!Opened, View!Opened,
     View!UserStep, View!Next
<1>4. CASE TableStep /\ (Table!RefuseFile \/ Table!ClickExport \/ Table!RefuseSave)
  BY <1>4 DEF Table!RefuseFile, Table!ClickExport, Table!RefuseSave,
     View!RefuseFile, View!ClickExport, View!RefuseSave, View!UserStep, View!Next
<1>5. CASE TableStep /\ (Table!SaveFile \/ Table!SaveFails)
  <2>1. Table!CsvOfList = View!CsvOfList
    BY DEF Table!CsvOfList, View!CsvOfList, Table!CsvOf, View!CsvOf
  <2>2. \A r : Table!CutRows(r) = View!CutRows(r)
    BY DEF Table!CutRows, View!CutRows, Table!CsvOf, View!CsvOf, Table!Garbled, View!Garbled
  <2> QED
    BY <1>5, <2>1, <2>2 DEF Table!SaveFile, Table!SaveFails, View!SaveFile, View!SaveFails,
       View!UserStep, View!Next
<1>6. CASE TableStep /\ (Table!ClickDetailsOfNothing \/ Table!EditProject \/ Table!CloseNotice)
  BY <1>6 DEF Table!ClickDetailsOfNothing, Table!EditProject, Table!CloseNotice,
     Table!Notices, View!Notices, View!ClickDetailsOfNothing, View!EditProject,
     View!CloseNotice, View!UserStep, View!Next
<1>7. CASE Table!ImportRow
  <2> DEFINE row == imp.rows[imp.done + 1]
  <2>1. row # View!Garbled /\ View!TakeProject(row) /\ main = "import" /\ main' = "import"
    BY <1>7 DEF Table!ImportRow, Table!Garbled, View!Garbled, Table!TakeProject,
       View!TakeProject
  <2>2. Table!ImportBad(row) => View!ImportBad(row)
    BY DEF Table!ImportBad, View!ImportBad, Table!Count, View!Count
  <2>3. Table!ImportDuplicate(row) => View!ImportDuplicate(row)
    BY DEF Table!ImportDuplicate, View!ImportDuplicate, Table!Count, View!Count,
       Table!NumbersIn, View!NumbersIn
  <2>4. Table!ImportNew(row) => View!ImportNew(row)
    BY DEF Table!ImportNew, View!ImportNew, Table!Count, View!Count, Table!Insert,
       View!Insert, Table!NumbersIn, View!NumbersIn
  <2>5. View!ImportRow
    BY <1>7, <2>1, <2>2, <2>3, <2>4 DEF Table!ImportRow, View!ImportRow
  <2> QED
    BY <2>5 DEF View!ImportStep, View!Next
<1>8. CASE Table!ImportFails \/ Table!ImportDone
  BY <1>8 DEF Table!ImportFails, Table!ImportDone, View!ImportFails, View!ImportDone,
     Table!Garbled, View!Garbled, Table!NoImport, View!NoImport, Table!Opened, View!Opened,
     View!ImportStep, View!Next
<1> QED
  BY <1>1, <1>2, <1>3, <1>4, <1>5, <1>6, <1>7, <1>8
     DEF TableStep, Table!UserStep, ImportStep, Table!ImportStep

\* No other step touches the table or begins or ends an import.
LEMMA RestIsNothing ==
  ASSUME \/ MonitorStep \/ RunLabel \/ ClickRefresh \/ RefreshStep \/ Close \/ WorldStep
         \/ UNCHANGED vars
  PROVE  UNCHANGED View!vars
<1>1. UNCHANGED tableOnly
  BY DEF MonitorStep, RunLabel, ClickRefresh, RefreshStep, Close, WorldStep, vars
<1>2. main' = main \/ (main # "import" /\ main' # "import")
  BY ImportIsApart
<1> QED
  BY <1>1, <1>2 DEF View!vars, tableOnly

\* The table of the program is the table of CardTable, cards, buttons, dialogs and
\* imports in whatever order, so all that is proved of CardTable holds in the program.
THEOREM TableIsCardTable == Spec => ImplementsTable
<1>1. Init => RecordsInv /\ View!Init
  <2> SUFFICES ASSUME Init PROVE RecordsInv /\ View!Init
    OBVIOUS
  <2>1. View!Init
    BY DEF Init, Monitor!Init, Table!Init, View!Init, Table!NoImport, View!NoImport,
       Table!Opened, View!Opened
  <2>2. events = << >> /\ data = "blank" /\ mon = "poll"
    BY DEF Init, Monitor!Init
  <2>3. IsSequence(<< >>) /\ DOMAIN << >> = {}
    BY EmptySeq DEF IsSequence
  <2> QED
    BY <2>1, <2>2, <2>3 DEF RecordsInv, Table!Data
<1>2. RecordsInv /\ [Next]_vars => RecordsInv'
  BY MonitorKeepsRecords, RestKeepsRecords
<1>3. RecordsInv /\ [Next]_vars => [View!Next]_(View!vars)
  BY AddImplements, TableImplements, RestIsNothing DEF Next, MainStep
<1> QED
  BY <1>1, <1>2, <1>3, PTL DEF Spec, ImplementsTable, View!Spec

-----------------------------------------------------------------------------
(* The monitor in the composition is CardMonitor's. *)

\* The monitor's own steps.
LEMMA MonitorImplements == MonitorStep => MonitorView!MonitorStep
<1> SUFFICES ASSUME MonitorStep PROVE MonitorView!MonitorStep
  OBVIOUS
<1> USE DEF Monitor!world, Monitor!labels, MonitorView!world, MonitorView!labels,
        Monitor!Goto, MonitorView!Goto
<1>1. Monitor!Poll => MonitorView!Poll
  BY DEF Monitor!Poll, MonitorView!Poll
<1>2. Monitor!Enumerate => MonitorView!Enumerate
  BY DEF Monitor!Enumerate, MonitorView!Enumerate
<1>3. Monitor!NameReader => MonitorView!NameReader
  BY DEF Monitor!NameReader, MonitorView!NameReader
<1>4. Monitor!ConnectFails => MonitorView!ConnectFails
  BY DEF Monitor!ConnectFails, MonitorView!ConnectFails
<1>5. Monitor!ConnectFindsNoCard => MonitorView!ConnectFindsNoCard
  BY DEF Monitor!ConnectFindsNoCard, MonitorView!ConnectFindsNoCard
<1>6. Monitor!Connect => MonitorView!Connect
  BY DEF Monitor!Connect, MonitorView!Connect
<1>7. Monitor!Absent => MonitorView!Absent
  BY DEF Monitor!Absent, MonitorView!Absent
<1>8. Monitor!Select => MonitorView!Select
  BY DEF Monitor!Select, MonitorView!Select, Monitor!Transmit, MonitorView!Transmit,
     Monitor!NoAnswer, MonitorView!NoAnswer
<1>9. Monitor!Identify => MonitorView!Identify
  BY DEF Monitor!Identify, MonitorView!Identify, Monitor!Transmit, MonitorView!Transmit,
     Monitor!NoAnswer, MonitorView!NoAnswer
<1>10. Monitor!Claim => MonitorView!Claim
  BY DEF Monitor!Claim, MonitorView!Claim
<1>11. Monitor!Read => MonitorView!Read
  BY DEF Monitor!Read, MonitorView!Read, Monitor!Transmit, MonitorView!Transmit
<1>12. Monitor!TkCall => MonitorView!TkCall
  BY DEF Monitor!TkCall, MonitorView!TkCall, Monitor!ShowReader, MonitorView!ShowReader,
     Monitor!PaintReader, MonitorView!PaintReader, Monitor!Deliver, MonitorView!Deliver,
     Monitor!Say, MonitorView!Say, Monitor!Post, MonitorView!Post, Monitor!Paint,
     MonitorView!Paint, Monitor!Status, MonitorView!Status, Monitor!Add, MonitorView!Add,
     Monitor!ColorOf, MonitorView!ColorOf
<1>13. Monitor!MonitorStops => MonitorView!MonitorStops
  BY DEF Monitor!MonitorStops, MonitorView!MonitorStops
<1> QED
  BY <1>1, <1>2, <1>3, <1>4, <1>5, <1>6, <1>7, <1>8, <1>9, <1>10, <1>11, <1>12, <1>13
     DEF MonitorStep, Monitor!MonitorStep, MonitorView!MonitorStep

\* What the main thread and the user's hands do to it: the callbacks, a refresh, a
\* clear, the window's close, cards and the plug.
LEMMA LoopImplements ==
  ASSUME \/ RunLabel \/ RunAdd \/ ClickRefresh \/ RefreshStep \/ AnswerYes \/ Close \/ WorldStep
  PROVE  MonitorView!Next
<1> USE DEF Monitor!world, Monitor!labels, Monitor!thread, MonitorView!world,
        MonitorView!labels, MonitorView!thread
<1>1. CASE RunLabel \/ RunAdd
  <2>1. /\ Monitor!RunPaint => MonitorView!RunPaint
        /\ Monitor!RunStatus => MonitorView!RunStatus
        /\ Monitor!RunAdd => MonitorView!RunAdd
    BY DEF Monitor!RunPaint, MonitorView!RunPaint, Monitor!RunStatus, MonitorView!RunStatus,
       Monitor!RunAdd, MonitorView!RunAdd, Monitor!TakeEvent, MonitorView!TakeEvent
  <2> QED
    BY <1>1, <2>1 DEF RunLabel, RunAdd, MonitorView!Next, MonitorView!MainStep
<1>2. CASE RefreshStep
  <2>1. /\ Monitor!RefreshFinds => MonitorView!RefreshFinds
        /\ Monitor!RefreshFindsNone => MonitorView!RefreshFindsNone
        /\ Monitor!Settle => MonitorView!Settle
    BY DEF Monitor!RefreshFinds, MonitorView!RefreshFinds, Monitor!RefreshFindsNone,
       MonitorView!RefreshFindsNone, Monitor!Settle, MonitorView!Settle, Monitor!Paint,
       MonitorView!Paint
  <2> QED
    BY <1>2, <2>1 DEF RefreshStep, MonitorView!Next, MonitorView!MainStep
<1>3. CASE ClickRefresh \/ AnswerYes \/ Close
  <2>1. /\ Monitor!ClickRefresh => MonitorView!ClickRefresh
        /\ Monitor!Forget => MonitorView!Forget
        /\ Monitor!Close => MonitorView!Close
    BY DEF Monitor!ClickRefresh, MonitorView!ClickRefresh, Monitor!Forget,
       MonitorView!Forget, Monitor!Close, MonitorView!Close
  <2> QED
    BY <1>3, <2>1 DEF ClickRefresh, AnswerYes, Close, MonitorView!Next, MonitorView!UserStep
<1>4. CASE WorldStep
  <2>1. Monitor!WorldStep => MonitorView!WorldStep
    BY DEF Monitor!WorldStep, MonitorView!WorldStep, Monitor!InsertCard,
       MonitorView!InsertCard, Monitor!RemoveCard, MonitorView!RemoveCard,
       Monitor!ReplugReader, MonitorView!ReplugReader
  <2> QED
    BY <1>4, <2>1 DEF WorldStep, MonitorView!Next
<1> QED
  BY <1>1, <1>2, <1>3, <1>4

\* The table's steps are none of the monitor's: it does not see an import begin or end.
LEMMA TableIsNothingToMonitor ==
  ASSUME TableStep \/ ImportStep \/ UNCHANGED vars
  PROVE  UNCHANGED MonitorView!vars
<1>1. UNCHANGED monitorOnly
  BY DEF TableStep, ImportStep, vars
<1>2. \/ UNCHANGED main
      \/ main \in {"loop", "import"} /\ main' \in {"loop", "import"}
  <2>1. CASE TableStep
    BY <2>1 DEF TableStep, Table!UserStep, Table!ClickClear, Table!AnswerNo,
       Table!ClickImport, Table!ChooseFile, Table!RefuseFile, Table!ClickExport,
       Table!SaveFile, Table!SaveFails, Table!RefuseSave, Table!ClickDetailsOfNothing,
       Table!EditProject, Table!CloseNotice, Table!Free, Table!Asked
  <2>2. CASE ImportStep
    BY <2>2 DEF ImportStep, Table!ImportStep, Table!ImportRow, Table!ImportFails,
       Table!ImportDone
  <2>3. CASE UNCHANGED vars
    BY <2>3 DEF vars
  <2> QED
    BY <2>1, <2>2, <2>3
<1> QED
  BY <1>1, <1>2 DEF monitorOnly, MonitorView!vars, MonitorView!world, MonitorView!thread,
     MonitorView!labels

\* Every step of the composition is a step of the monitor, or none.
LEMMA EveryStepIsMonitors == [Next]_vars => [MonitorView!Next]_(MonitorView!vars)
BY MonitorImplements, LoopImplements, TableIsNothingToMonitor
   DEF Next, MainStep, MonitorView!Next

\* gui_reader.py:812.  The program reaches into the monitor's state only to make
\* it forget its card; everything else the monitor sees of the table is an event loop that
\* serves its calls sooner or later.
THEOREM MonitorIsCardMonitor == Spec => ImplementsCardMonitor
<1>1. Init => MonitorView!Init
  BY DEF Init, Monitor!Init, MonitorView!Init
<1> QED
  BY <1>1, EveryStepIsMonitors, PTL DEF Spec, ImplementsCardMonitor, MonitorView!Spec

-----------------------------------------------------------------------------
(* What is proved of the parts holds of the composition. *)

MonitorFacts == INSTANCE CardMonitorProofs
                WITH main <- IF main = "import" THEN "loop" ELSE main
TableFacts == INSTANCE CardTableProofs
              WITH main <- IF main = "import" THEN main ELSE "loop"

\* The parts' assumptions follow from the composition's.
LEMMA PartsAssumptions ==
  /\ MonitorFacts!CardsAssumption /\ MonitorFacts!BoundsAssumption
  /\ TableFacts!NoCidAssumption /\ TableFacts!NoProjectAssumption
  /\ TableFacts!CutsAssumption /\ TableFacts!FilesAssumption
  /\ TableFacts!MaxDialogsAssumption
BY CardsAssumption, BoundsAssumption, FilesAssumption
   DEF Table!CsvLine, Table!CsvRow, Table!Garbled, TableFacts!CsvLine, TableFacts!CsvRow,
       TableFacts!Garbled

\* The monitor that the facts are about is the one that is implemented.
LEMMA SameMonitor == MonitorView!Spec => MonitorFacts!Spec
<1> USE DEF MonitorView!world, MonitorView!thread, MonitorView!labels,
        MonitorFacts!world, MonitorFacts!thread, MonitorFacts!labels
<1>1. MonitorView!Init => MonitorFacts!Init
  BY DEF MonitorView!Init, MonitorFacts!Init
<1>2. [MonitorView!Next]_(MonitorView!vars) => [MonitorFacts!Next]_(MonitorFacts!vars)
  BY DEF MonitorView!Next, MonitorFacts!Next, MonitorView!MonitorStep,
         MonitorFacts!MonitorStep, MonitorView!MainStep, MonitorFacts!MainStep,
         MonitorView!UserStep, MonitorFacts!UserStep, MonitorView!WorldStep,
         MonitorFacts!WorldStep, MonitorView!TkCall, MonitorFacts!TkCall,
         MonitorView!Poll, MonitorFacts!Poll, MonitorView!Enumerate,
         MonitorFacts!Enumerate, MonitorView!NameReader, MonitorFacts!NameReader,
         MonitorView!ShowReader, MonitorFacts!ShowReader, MonitorView!PaintReader,
         MonitorFacts!PaintReader, MonitorView!ConnectFails, MonitorFacts!ConnectFails,
         MonitorView!ConnectFindsNoCard, MonitorFacts!ConnectFindsNoCard,
         MonitorView!Connect, MonitorFacts!Connect, MonitorView!Absent,
         MonitorFacts!Absent, MonitorView!Select, MonitorFacts!Select,
         MonitorView!Identify, MonitorFacts!Identify, MonitorView!Claim,
         MonitorFacts!Claim, MonitorView!Read, MonitorFacts!Read, MonitorView!Deliver,
         MonitorFacts!Deliver, MonitorView!Say, MonitorFacts!Say,
         MonitorView!MonitorStops, MonitorFacts!MonitorStops, MonitorView!TakeEvent,
         MonitorFacts!TakeEvent, MonitorView!RunPaint, MonitorFacts!RunPaint,
         MonitorView!RunStatus, MonitorFacts!RunStatus, MonitorView!RunAdd,
         MonitorFacts!RunAdd, MonitorView!ClickRefresh, MonitorFacts!ClickRefresh,
         MonitorView!RefreshFinds, MonitorFacts!RefreshFinds,
         MonitorView!RefreshFindsNone, MonitorFacts!RefreshFindsNone,
         MonitorView!Settle, MonitorFacts!Settle, MonitorView!Forget,
         MonitorFacts!Forget, MonitorView!Close, MonitorFacts!Close,
         MonitorView!InsertCard, MonitorFacts!InsertCard, MonitorView!RemoveCard,
         MonitorFacts!RemoveCard, MonitorView!ReplugReader, MonitorFacts!ReplugReader,
         MonitorView!Goto, MonitorFacts!Goto, MonitorView!Post, MonitorFacts!Post,
         MonitorView!Transmit, MonitorFacts!Transmit, MonitorView!NoAnswer,
         MonitorFacts!NoAnswer, MonitorView!Paint, MonitorFacts!Paint,
         MonitorView!Status, MonitorFacts!Status, MonitorView!Add, MonitorFacts!Add,
         MonitorView!ColorOf, MonitorFacts!ColorOf, MonitorView!vars, MonitorFacts!vars
<1> QED
  BY <1>1, <1>2, PTL DEF MonitorView!Spec, MonitorFacts!Spec

\* And so is the table.
LEMMA SameTable == View!Spec => TableFacts!Spec
<1>1. View!Init => TableFacts!Init
  BY DEF View!Init, TableFacts!Init, View!NoImport, TableFacts!NoImport, View!Opened,
     TableFacts!Opened
<1>2. [View!Next]_(View!vars) => [TableFacts!Next]_(TableFacts!vars)
  BY DEF View!Next, TableFacts!Next, View!AddCard, TableFacts!AddCard, View!AddNew,
         TableFacts!AddNew, View!AddDuplicate, TableFacts!AddDuplicate, View!Insert,
         TableFacts!Insert, View!UserStep, TableFacts!UserStep, View!ClickClear,
         TableFacts!ClickClear, View!AnswerYes, TableFacts!AnswerYes, View!AnswerNo,
         TableFacts!AnswerNo, View!ClickImport, TableFacts!ClickImport, View!ChooseFile,
         TableFacts!ChooseFile, View!RefuseFile, TableFacts!RefuseFile,
         View!ClickExport, TableFacts!ClickExport, View!SaveFile, TableFacts!SaveFile,
         View!SaveFails, TableFacts!SaveFails, View!RefuseSave, TableFacts!RefuseSave,
         View!ClickDetailsOfNothing, TableFacts!ClickDetailsOfNothing, View!EditProject,
         TableFacts!EditProject, View!CloseNotice, TableFacts!CloseNotice,
         View!ImportStep, TableFacts!ImportStep, View!ImportRow, TableFacts!ImportRow,
         View!TakeProject, TableFacts!TakeProject, View!ImportBad, TableFacts!ImportBad,
         View!ImportDuplicate, TableFacts!ImportDuplicate, View!ImportNew,
         TableFacts!ImportNew, View!Count, TableFacts!Count, View!ImportFails,
         TableFacts!ImportFails, View!ImportDone, TableFacts!ImportDone, View!CsvOf,
         TableFacts!CsvOf, View!CsvOfList, TableFacts!CsvOfList, View!CutRows,
         TableFacts!CutRows, View!Free,
         TableFacts!Free, View!Asked, TableFacts!Asked, View!Push, TableFacts!Push,
         View!Pop, TableFacts!Pop, View!ReplaceBy, TableFacts!ReplaceBy, View!NumbersIn,
         TableFacts!NumbersIn, View!Opened, TableFacts!Opened, View!NoImport,
         TableFacts!NoImport, View!Notices, TableFacts!Notices, View!table,
         TableFacts!table, View!Record, TableFacts!Record, View!Data, TableFacts!Data,
         View!Garbled, TableFacts!Garbled, View!vars, TableFacts!vars
<1> QED
  BY <1>1, <1>2, PTL DEF View!Spec, TableFacts!Spec

\* The two refinements, in terms of the parts the facts are about.
LEMMA PartsRun == Spec => MonitorFacts!Spec /\ TableFacts!Spec
BY MonitorIsCardMonitor, TableIsCardTable, SameMonitor, SameTable, PTL
   DEF ImplementsCardMonitor, ImplementsTable

\* The counts of arrivals are functions of the people to 0, 1 or 2.
LEMMA ArrivalTypes ==
  ASSUME arrivals \in [Cards -> 0 .. 2], [Next]_vars
  PROVE  arrivals' \in [Cards -> 0 .. 2]
<1>1. ASSUME NEW people, Arrive(people) PROVE arrivals' \in [Cards -> 0 .. 2]
  BY <1>1 DEF Arrive
<1>2. UNCHANGED arrivals \/ \E people : Arrive(people)
  BY DEF Next, MainStep, MonitorStep, RunLabel, RunAdd, RefreshStep, ImportStep, ClickRefresh,
     TableStep, AnswerYes, Close, WorldStep, vars
<1> QED
  BY <1>1, <1>2

\* The program's variables always have their types: the two threads meet in one main
\* thread, whose phase each part sees in its own way.
THEOREM TypeCorrect == Spec => []TypeOK
<1>1. Spec => [](MonitorFacts!TypeOK /\ TableFacts!TypeOK)
  BY PartsRun, PartsAssumptions, MonitorFacts!TypeCorrect, TableFacts!TypeCorrect, PTL
<1> DEFINE ArrivalsOK == arrivals \in [Cards -> 0 .. 2]
<1>2. Spec => []ArrivalsOK
  <2>1. Init => ArrivalsOK
    BY DEF Init
  <2>2. ArrivalsOK /\ [Next]_vars => ArrivalsOK'
    BY ArrivalTypes
  <2> HIDE DEF ArrivalsOK
  <2> QED
    BY <2>1, <2>2, PTL DEF Spec
<1>3. MonitorFacts!TypeOK => Monitor!TypeOK
  <2>1. MonitorFacts!Event = Monitor!Event
    BY DEF MonitorFacts!Event, Monitor!Event, MonitorFacts!Paint, Monitor!Paint,
       MonitorFacts!Status, Monitor!Status, MonitorFacts!Add, Monitor!Add,
       MonitorFacts!Colors, Monitor!Colors, MonitorFacts!CardTexts, Monitor!CardTexts,
       MonitorFacts!CardInfo, Monitor!CardInfo, MonitorFacts!Data, Monitor!Data
  <2> QED
    BY <2>1 DEF MonitorFacts!TypeOK, Monitor!TypeOK, MonitorFacts!MonitorPhases,
       Monitor!MonitorPhases, MonitorFacts!Data, Monitor!Data, MonitorFacts!CardTexts,
       Monitor!CardTexts, MonitorFacts!ReaderTexts, Monitor!ReaderTexts,
       MonitorFacts!Colors, Monitor!Colors
<1>4. MonitorFacts!TypeOK /\ TableFacts!TypeOK => Table!TypeOK
  <2>1. MonitorFacts!TypeOK => main \in Table!MainPhases
    BY DEF MonitorFacts!TypeOK, Table!MainPhases
  <2>2. /\ TableFacts!Record = Table!Record /\ TableFacts!Row = Table!Row
        /\ TableFacts!ImportState = Table!ImportState /\ TableFacts!CsvLine = Table!CsvLine
        /\ TableFacts!Questions = Table!Questions /\ TableFacts!Notices = Table!Notices
    BY DEF TableFacts!Record, Table!Record, TableFacts!Row, Table!Row, TableFacts!Data,
       Table!Data, TableFacts!ImportState, Table!ImportState, TableFacts!CsvLine,
       Table!CsvLine, TableFacts!CsvRow, Table!CsvRow, TableFacts!Garbled, Table!Garbled,
       TableFacts!Questions, Table!Questions, TableFacts!Notices, Table!Notices
  <2> QED
    BY <2>1, <2>2 DEF TableFacts!TypeOK, Table!TypeOK
<1>5. Monitor!TypeOK /\ Table!TypeOK /\ ArrivalsOK => TypeOK
  BY DEF TypeOK
<1> HIDE DEF ArrivalsOK
<1> QED
  BY <1>1, <1>2, <1>3, <1>4, <1>5, PTL

\* README_GUI.md:75-78.  With a table that clears, imports and asks while the monitor runs,
\* the card status still tells the truth once the callbacks have run, and no record is put
\* together from two cards.
THEOREM MonitorKeepsItsPromises ==
  Spec => [](Monitor!CardStatusTellsClaim /\ Monitor!OneCardPerRecord)
<1>1. MonitorFacts!CardStatusTellsClaim => Monitor!CardStatusTellsClaim
  BY DEF MonitorFacts!CardStatusTellsClaim, Monitor!CardStatusTellsClaim,
     MonitorFacts!Settled, Monitor!Settled
<1>2. MonitorFacts!OneCardPerRecord => Monitor!OneCardPerRecord
  BY DEF MonitorFacts!OneCardPerRecord, Monitor!OneCardPerRecord
<1> QED
  BY <1>1, <1>2, PartsRun, PartsAssumptions, MonitorFacts!StatusTellsClaim,
     MonitorFacts!NoMixedRecord, PTL

\* With cards arriving from the monitor's queue at any moment, the table still finds the
\* person a row shows, has one operation under way at a time, acts on a list that is not
\* empty when it asked whether to, and accounts for every row of an import.
THEOREM TableKeepsItsPromises ==
  Spec => []( /\ Table!DetailsMatchRow /\ Table!OneOperationAtATime
              /\ Table!AskedListIsNotEmpty /\ Table!CountNotAboveList
              /\ Table!ImportAccounts /\ Table!ImportLosesNobody )
<1>1. /\ TableFacts!DetailsMatchRow => Table!DetailsMatchRow
      /\ TableFacts!OneOperationAtATime => Table!OneOperationAtATime
      /\ TableFacts!AskedListIsNotEmpty => Table!AskedListIsNotEmpty
      /\ TableFacts!CountNotAboveList => Table!CountNotAboveList
  BY DEF TableFacts!DetailsMatchRow, Table!DetailsMatchRow, TableFacts!DetailOf,
     Table!DetailOf, TableFacts!OneOperationAtATime, Table!OneOperationAtATime,
     TableFacts!Questions, Table!Questions, TableFacts!AskedListIsNotEmpty,
     Table!AskedListIsNotEmpty, TableFacts!CountNotAboveList, Table!CountNotAboveList
<1>2. /\ TableFacts!ImportAccounts => Table!ImportAccounts
      /\ TableFacts!ImportLosesNobody => Table!ImportLosesNobody
  BY DEF TableFacts!ImportAccounts, Table!ImportAccounts, TableFacts!ImportLosesNobody,
     Table!ImportLosesNobody, TableFacts!NumbersIn, Table!NumbersIn
<1> QED
  BY <1>1, <1>2, PartsRun, PartsAssumptions, TableFacts!DetailsAreThoseShown,
     TableFacts!OneAtATime, TableFacts!AskedListStays, TableFacts!CountIsNotAbove,
     TableFacts!ImportAddsUp, TableFacts!ImportKeepsEverybody, PTL

\* README_GUI.md:16.  In the program as in the table, people are appended once and stay in
\* their place until the user clears the list.
THEOREM ListIsRegistry == Spec => Table!ImplementsRegistry
<1>1. TableFacts!ImplementsRegistry => Table!ImplementsRegistry
  <2>1. TableFacts!Registry!Init => Table!Registry!Init
    BY DEF TableFacts!Registry!Init, Table!Registry!Init
  <2>2. [TableFacts!Registry!Next]_cardDataList => [Table!Registry!Next]_cardDataList
    BY DEF TableFacts!Registry!Next, Table!Registry!Next, TableFacts!Registry!Clear,
       Table!Registry!Clear, TableFacts!Registry!Register, Table!Registry!Register,
       TableFacts!Registry!Registered, Table!Registry!Registered, TableFacts!Record,
       Table!Record, TableFacts!Data, Table!Data
  <2> QED
    BY <2>1, <2>2, PTL DEF TableFacts!ImplementsRegistry, Table!ImplementsRegistry,
       TableFacts!Registry!Spec, Table!Registry!Spec
<1> QED
  BY <1>1, PartsRun, PartsAssumptions, TableFacts!TableImplementsRegistry, PTL
=============================================================================

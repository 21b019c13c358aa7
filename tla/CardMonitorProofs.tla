-------------------------- MODULE CardMonitorProofs -------------------------
(***************************************************************************)
(* Proofs about CardMonitor, for any set of cards, any number of faults    *)
(* and retries and any length of the queue of callbacks.                   *)
(***************************************************************************)
EXTENDS CardMonitor, SequenceTheorems, TLAPS

-----------------------------------------------------------------------------
(* Type correctness. *)

\* A callback posted by either thread, and one taken by the event loop, leave a
\* queue of callbacks no longer than its bound.
LEMMA QueueTypes ==
  ASSUME TypeOK
  PROVE  /\ \A e \in Event : Len(events) < MaxEvents
              => /\ Append(events, e) \in Seq(Event)
                 /\ Len(Append(events, e)) <= MaxEvents
         /\ events # << >> => /\ Head(events) \in Event
                              /\ Tail(events) \in Seq(Event)
                              /\ Len(Tail(events)) <= MaxEvents
<1>1. events \in Seq(Event) /\ Len(events) \in Nat /\ Len(events) <= MaxEvents
      /\ MaxEvents \in Nat
  BY LenProperties, BoundsAssumption DEF TypeOK
<1>2. ASSUME NEW e \in Event, Len(events) < MaxEvents
      PROVE  Append(events, e) \in Seq(Event) /\ Len(Append(events, e)) <= MaxEvents
  BY <1>1, <1>2, AppendProperties
<1>3. ASSUME events # << >>
      PROVE  /\ Head(events) \in Event
             /\ Tail(events) \in Seq(Event)
             /\ Len(Tail(events)) <= MaxEvents
  BY <1>1, <1>3, HeadTailProperties
<1> QED
  BY <1>2, <1>3

\* The callbacks are well formed.
LEMMA EventTypes ==
  /\ \A c \in Colors : Paint(c) \in Event
  /\ \A t \in CardTexts : Status(t) \in Event
  /\ \A r \in CardInfo : Add(r) \in Event
  /\ \A e \in Event : /\ e.kind = "paint" => e.color \in Colors
                      /\ e.kind = "status" => e.text \in CardTexts
                      /\ e.kind = "add" => e.rec \in CardInfo
<1>1. /\ \A c \in Colors : Paint(c) \in Event
      /\ \A t \in CardTexts : Status(t) \in Event
      /\ \A r \in CardInfo : Add(r) \in Event
  BY DEF Event
<1>2. ASSUME NEW e \in Event
      PROVE  /\ e.kind = "paint" => e.color \in Colors
             /\ e.kind = "status" => e.text \in CardTexts
             /\ e.kind = "add" => e.rec \in CardInfo
  <2>1. ASSUME NEW c \in Colors, e = Paint(c)
        PROVE  e.kind = "paint" /\ e.color \in Colors
    BY <2>1 DEF Paint
  <2>2. ASSUME NEW t \in CardTexts, e = Status(t)
        PROVE  e.kind = "status" /\ e.text \in CardTexts
    BY <2>2 DEF Status
  <2>3. ASSUME NEW r \in CardInfo, e = Add(r)
        PROVE  e.kind = "add" /\ e.rec \in CardInfo
    BY <2>3 DEF Add
  <2> QED
    BY <2>1, <2>2, <2>3 DEF Event
<1> QED
  BY <1>1, <1>2

\* The states in which the number read is a card's.
Identified == mon \in {"claim", "read", "deliver"} \/ (mon = "say" /\ say = "reading")

\* What TypeOK rests on: a record is built of a number that was read, and a refresh
\* that has begun finds room for its callback.
TypeInv ==
  /\ TypeOK
  /\ Identified => cid \in Cards
  /\ main = "enumerate" => Len(events) < MaxEvents

\* Posting keeps the queue's type.
LEMMA PostTypes ==
  ASSUME TypeOK, NEW e \in Event, Post(e)
  PROVE  events' \in Seq(Event) /\ Len(events') <= MaxEvents
BY QueueTypes DEF Post

\* A transmission, with or without an answer, leaves the budget of faults.
LEMMA FaultTypes ==
  ASSUME TypeOK, Transmit \/ NoAnswer
  PROVE  faults' \in 0 .. MaxFaults
BY BoundsAssumption DEF TypeOK, Transmit, NoAnswer

\* The steps that find and show the reader.
LEMMA FinderTypes ==
  ASSUME TypeInv, Poll \/ Enumerate \/ NameReader \/ ShowReader \/ PaintReader
  PROVE  TypeInv'
<1> USE DEF TypeInv, Identified
<1>1. CASE Poll
  BY <1>1, BoundsAssumption DEF Poll, TypeOK, Goto, world, labels, MonitorPhases, CardTexts, ReaderTexts
<1>2. CASE Enumerate
  <2>1. /\ reader' \in BOOLEAN /\ found' \in ReaderTexts /\ mon' \in {"name", "show"}
        /\ UNCHANGED <<world, currentCid, attempt, cid, data, say, main, events, labels>>
    <3>1. CASE readers = "present"
      BY <1>2, <3>1 DEF Enumerate, Goto, TypeOK
    <3>2. CASE readers # "present"
      <4>1. found' \in {"missing", "error"}
        BY <1>2, <3>2 DEF Enumerate
      <4> QED
        BY <1>2, <3>2, <4>1 DEF Enumerate, Goto, TypeOK, ReaderTexts
    <3> QED
      BY <3>1, <3>2
  <2> QED
    BY <2>1 DEF TypeOK, world, labels, MonitorPhases
<1>3. CASE NameReader
  BY <1>3 DEF NameReader, TypeOK, Goto, world, labels, MonitorPhases, ReaderTexts
<1>4. CASE ShowReader
  BY <1>4 DEF ShowReader, TypeOK, Goto, world, labels, MonitorPhases
<1>5. CASE PaintReader
  <2>1. Paint(ColorOf(found)) \in Event
    BY EventTypes DEF ColorOf, Colors
  <2>2. events' \in Seq(Event) /\ Len(events') <= MaxEvents
    BY <1>5, <2>1, PostTypes DEF PaintReader
  <2>3. main' = "loop"
    BY <1>5 DEF PaintReader, Post
  <2> QED
    BY <1>5, <2>2, <2>3 DEF PaintReader, TypeOK, Goto, world, labels, MonitorPhases
<1> QED
  BY <1>1, <1>2, <1>3, <1>4, <1>5

\* The steps that connect to a card, or find that there is none.
LEMMA ConnectTypes ==
  ASSUME TypeInv, ConnectFails \/ ConnectFindsNoCard \/ Connect \/ Absent \/ MonitorStops
  PROVE  TypeInv'
<1> USE DEF TypeInv, Identified
<1>1. CASE ConnectFails \/ ConnectFindsNoCard
  BY <1>1 DEF ConnectFails, ConnectFindsNoCard, TypeOK, Goto, world, labels, MonitorPhases
<1>2. CASE Connect
  BY <1>2, BoundsAssumption DEF Connect, TypeOK, Goto, labels, MonitorPhases
<1>3. CASE Absent
  BY <1>3 DEF Absent, TypeOK, Goto, world, labels, MonitorPhases, CardTexts
<1>4. CASE MonitorStops
  BY <1>4 DEF MonitorStops, TypeOK, Goto, world, labels, MonitorPhases
<1> QED
  BY <1>1, <1>2, <1>3, <1>4

\* The steps that recognise, read and deliver a card.
LEMMA ReadTypes ==
  ASSUME TypeInv, Select \/ Identify \/ Claim \/ Read \/ Deliver \/ Say
  PROVE  TypeInv'
<1> USE DEF TypeInv, Identified
<1>1. CASE Select
  <2>1. faults' \in 0 .. MaxFaults
    BY <1>1, FaultTypes DEF Select
  <2>2. attempt' \in 1 .. MaxRetries
    BY <1>1, BoundsAssumption DEF Select, TypeOK
  <2> QED
    BY <1>1, <2>1, <2>2 DEF Select, TypeOK, Goto, labels, MonitorPhases
<1>2. CASE Identify
  <2>1. faults' \in 0 .. MaxFaults
    BY <1>2, FaultTypes DEF Identify
  <2>2. cid' \in Cards \cup {NoCid}
    BY <1>2 DEF Identify, Transmit
  <2>3. mon' \in {"poll", "say", "claim"} /\ (mon' = "claim" => cid' \in Cards)
    BY <1>2, <2>2 DEF Identify, Goto
  <2> QED
    BY <1>2, <2>1, <2>2, <2>3 DEF Identify, TypeOK, labels, MonitorPhases, CardTexts
<1>3. CASE Claim
  BY <1>3 DEF Claim, TypeOK, Goto, world, labels, MonitorPhases, CardTexts
<1>4. CASE Read
  <2>1. faults' \in 0 .. MaxFaults
    BY <1>4, BoundsAssumption DEF Read, Transmit, TypeOK
  <2> QED
    BY <1>4, <2>1 DEF Read, TypeOK, Goto, labels, MonitorPhases, Data
<1>5. CASE Deliver
  <2>1. Add([cid |-> cid, data |-> data]) \in Event
    BY <1>5, EventTypes DEF Deliver, TypeOK, CardInfo
  <2>2. events' \in Seq(Event) /\ Len(events') <= MaxEvents
    BY <1>5, <2>1, PostTypes DEF Deliver
  <2>3. main' = "loop"
    BY <1>5 DEF Deliver, Post
  <2> QED
    BY <1>5, <2>2, <2>3 DEF Deliver, TypeOK, Goto, world, labels, MonitorPhases, CardTexts
<1>6. CASE Say
  <2>1. Status(say) \in Event
    BY EventTypes DEF TypeOK
  <2>2. events' \in Seq(Event) /\ Len(events') <= MaxEvents
    BY <1>6, <2>1, PostTypes DEF Say
  <2>3. main' = "loop"
    BY <1>6 DEF Say, Post
  <2> QED
    BY <1>6, <2>2, <2>3 DEF Say, TypeOK, Goto, world, labels, MonitorPhases
<1> QED
  BY <1>1, <1>2, <1>3, <1>4, <1>5, <1>6

\* The steps of the main thread.
LEMMA MainTypes ==
  ASSUME TypeInv, MainStep \/ UserStep
  PROVE  TypeInv'
<1> USE DEF TypeInv, Identified
<1>1. CASE RunPaint \/ RunStatus \/ RunAdd
  <2>1. /\ Head(events) \in Event
        /\ events' \in Seq(Event) /\ Len(events') <= MaxEvents
    BY <1>1, QueueTypes DEF RunPaint, RunStatus, RunAdd, TakeEvent
  <2>2. readerColor' \in Colors /\ cardStatus' \in CardTexts
    BY <1>1, <2>1, EventTypes DEF RunPaint, RunStatus, RunAdd, TakeEvent, TypeOK
  <2> QED
    BY <1>1, <2>1, <2>2 DEF RunPaint, RunStatus, RunAdd, TakeEvent, TypeOK, world, thread
<1>2. CASE ClickRefresh \/ Settle \/ Forget \/ Close
  BY <1>2 DEF ClickRefresh, Settle, Forget, Close, TypeOK, world, thread, labels
<1>3. CASE RefreshFinds \/ RefreshFindsNone
  <2>1. Len(events) < MaxEvents
    BY <1>3 DEF RefreshFinds, RefreshFindsNone
  <2>2. events' \in Seq(Event) /\ Len(events') <= MaxEvents
    BY <1>3, <2>1, QueueTypes, EventTypes DEF RefreshFinds, RefreshFindsNone, Colors
  <2>3. readerStatus' \in ReaderTexts
    BY <1>3 DEF RefreshFinds, RefreshFindsNone, ReaderTexts
  <2> QED
    BY <1>3, <2>2, <2>3 DEF RefreshFinds, RefreshFindsNone, TypeOK, world, thread
<1> QED
  BY <1>1, <1>2, <1>3 DEF MainStep, UserStep

\* The user's hands.
LEMMA WorldTypes ==
  ASSUME TypeInv, WorldStep
  PROVE  TypeInv'
BY DEF TypeInv, Identified, TypeOK, WorldStep, InsertCard, RemoveCard, ReplugReader,
       thread, labels

\* Every step keeps the types.
LEMMA TypesAreInductive ==
  TypeInv /\ [Next]_vars => TypeInv'
<1> SUFFICES ASSUME TypeInv, [Next]_vars PROVE TypeInv'
  OBVIOUS
<1>1. CASE UNCHANGED vars
  BY <1>1 DEF TypeInv, Identified, TypeOK, vars, world, thread, labels
<1> QED
  BY <1>1, FinderTypes, ConnectTypes, ReadTypes, MainTypes, WorldTypes
     DEF Next, MonitorStep, TkCall

\* The first states are well typed.
LEMMA InitTypes == Init => TypeInv
<1> SUFFICES ASSUME Init PROVE TypeInv
  OBVIOUS
<1>1. events \in Seq(Event) /\ Len(events) <= MaxEvents
  BY EmptySeq, BoundsAssumption DEF Init
<1>2. faults \in 0 .. MaxFaults /\ attempt \in 1 .. MaxRetries
  BY BoundsAssumption DEF Init
<1>3. /\ readers \in {"present", "absent", "error"}
      /\ slot \in Cards \cup {Foreign, NoCard}
      /\ link \in Cards \cup {Foreign, Dead}
      /\ reader \in BOOLEAN
      /\ currentCid \in Cards \cup {NoCid}
      /\ cid \in Cards \cup {NoCid}
  BY DEF Init
<1>4. /\ mon = "poll" /\ main = "loop" /\ data \in Data /\ say \in CardTexts
      /\ found \in ReaderTexts /\ readerStatus \in ReaderTexts
      /\ readerColor \in Colors /\ cardStatus \in CardTexts
  BY DEF Init, ReaderTexts, Colors, CardTexts, Data
<1> QED
  BY <1>1, <1>2, <1>3, <1>4 DEF TypeInv, Identified, TypeOK, MonitorPhases

\* The monitor's variables always have their types: in particular no callback adds
\* a record without a number, and SELECT is tried MaxRetries times at most.
THEOREM TypeCorrect == Spec => []TypeOK
<1>1. TypeInv => TypeOK
  BY DEF TypeInv
<1> QED
  BY <1>1, InitTypes, TypesAreInductive, PTL DEF Spec

-----------------------------------------------------------------------------
(* One record, one card. *)

\* From the moment a card is recognised until its fields are read, the connection
\* is to that card or is dead.
OneCardInv ==
  mon \in {"claim", "read"} \/ (mon = "say" /\ say = "reading") => link \in {cid, Dead}

\* No step breaks it: the monitor connects once and reads through that connection.
LEMMA OneCardStep ==
  OneCardInv /\ [Next]_vars => OneCardInv'
<1> SUFFICES ASSUME OneCardInv, [Next]_vars PROVE OneCardInv'
  OBVIOUS
<1> USE DEF OneCardInv, Goto, world, thread, labels
<1>1. CASE Poll \/ NameReader \/ ShowReader \/ PaintReader \/ Enumerate
  BY <1>1 DEF Poll, NameReader, ShowReader, PaintReader, Enumerate
<1>2. CASE ConnectFails \/ ConnectFindsNoCard \/ Connect \/ MonitorStops
  BY <1>2 DEF ConnectFails, ConnectFindsNoCard, Connect, MonitorStops
<1>3. CASE Absent
  BY <1>3 DEF Absent
<1>4. CASE Select
  BY <1>4 DEF Select
<1>5. CASE Identify
  <2>1. CASE cid' = NoCid
    BY <1>5, <2>1 DEF Identify
  <2>2. CASE cid' # NoCid
    <3>1. cid' = link /\ link' = link /\ say' = "same"
      BY <1>5, <2>2 DEF Identify
    <3>2. mon' \in {"say", "claim"}
      BY <1>5, <2>2 DEF Identify
    <3> QED
      BY <3>1, <3>2
  <2> QED
    BY <2>1, <2>2
<1>6. CASE Claim \/ Read
  BY <1>6 DEF Claim, Read
<1>7. CASE Deliver \/ Say
  BY <1>7 DEF Deliver, Say
<1>8. CASE MainStep \/ UserStep
  BY <1>8 DEF MainStep, UserStep, RunPaint, RunStatus, RunAdd, TakeEvent, RefreshFinds,
       RefreshFindsNone, Settle, ClickRefresh, Forget, Close
<1>9. CASE WorldStep
  BY <1>9 DEF WorldStep, InsertCard, RemoveCard, ReplugReader
<1>10. CASE UNCHANGED vars
  BY <1>10 DEF vars
<1> QED
  BY <1>1, <1>2, <1>3, <1>4, <1>5, <1>6, <1>7, <1>8, <1>9, <1>10
     DEF Next, MonitorStep, TkCall

\* A record never holds the number of one card and the fields of another, however
\* quickly the user swaps them: the monitor connects once and reads everything
\* through that connection.
THEOREM NoMixedRecord == Spec => []OneCardPerRecord
<1>1. Init => OneCardInv
  BY DEF Init, OneCardInv
<1>2. OneCardInv => OneCardPerRecord
  BY DEF OneCardInv, OneCardPerRecord
<1> QED
  BY <1>1, OneCardStep, <1>2, PTL DEF Spec

-----------------------------------------------------------------------------
(* What the labels will show, once the callbacks have run. *)

\* What a callback of a label writes there.
Shows(e) == IF e.kind = "status" THEN e.text ELSE e.color

\* A label that shows this now will show t when the callbacks q have run.
ComesLast(kind, label, q, t) ==
  \/ /\ label = t
     /\ \A j \in 1 .. Len(q) : q[j].kind # kind
  \/ \E i \in 1 .. Len(q) :
        /\ q[i].kind = kind /\ Shows(q[i]) = t
        /\ \A j \in i + 1 .. Len(q) : q[j].kind # kind

\* A callback posted for the label is shown after all others; one for something else
\* changes nothing.
LEMMA PostedLast ==
  ASSUME NEW q \in Seq(Event), NEW e \in Event, NEW kind, NEW label, NEW t,
         ComesLast(kind, label, Append(q, e), t)
  PROVE  IF e.kind = kind THEN t = Shows(e) ELSE ComesLast(kind, label, q, t)
<1> DEFINE n == Len(q)
           p == Append(q, e)
<1>1. /\ n \in Nat /\ Len(p) = n + 1
      /\ \A i \in 1 .. n : p[i] = q[i]
      /\ p[n + 1] = e
  BY AppendProperties, LenProperties
<1>2. ComesLast(kind, label, p, t)
  OBVIOUS
<1> HIDE DEF n, p
<1>3. CASE e.kind # kind
  <2>1. ASSUME label = t, \A j \in 1 .. Len(p) : p[j].kind # kind
        PROVE  ComesLast(kind, label, q, t)
    <3>1. \A j \in 1 .. n : q[j].kind # kind
      BY <1>1, <2>1
    <3> QED
      BY <2>1, <3>1 DEF ComesLast, n
  <2>2. ASSUME NEW i \in 1 .. Len(p), p[i].kind = kind, Shows(p[i]) = t,
               \A j \in i + 1 .. Len(p) : p[j].kind # kind
        PROVE  ComesLast(kind, label, q, t)
    <3>1. i \in 1 .. n
      BY <1>1, <1>3, <2>2
    <3>2. q[i].kind = kind /\ Shows(q[i]) = t
      BY <1>1, <2>2, <3>1
    <3>3. \A j \in i + 1 .. n : q[j].kind # kind
      BY <1>1, <2>2, <3>1
    <3> QED
      BY <3>1, <3>2, <3>3 DEF ComesLast, n
  <2> QED
    BY <1>2, <1>3, <2>1, <2>2 DEF ComesLast
<1>4. CASE e.kind = kind
  <2>1. n + 1 \in 1 .. Len(p) /\ p[n + 1].kind = kind
    BY <1>1, <1>4
  <2>2. PICK i \in 1 .. Len(p) :
          Shows(p[i]) = t /\ \A j \in i + 1 .. Len(p) : p[j].kind # kind
    BY <1>2, <2>1 DEF ComesLast
  <2>3. i = n + 1
    BY <1>1, <2>1, <2>2
  <2> QED
    BY <1>1, <1>4, <2>2, <2>3
<1> QED
  BY <1>3, <1>4

\* What will be shown in the end is the same after the oldest callback has run.
LEMMA TakenFirst ==
  ASSUME NEW q \in Seq(Event), q # << >>, NEW kind, NEW label, NEW t,
         ComesLast(kind, IF Head(q).kind = kind THEN Shows(Head(q)) ELSE label, Tail(q), t)
  PROVE  ComesLast(kind, label, q, t)
<1> DEFINE n == Len(q)
           p == Tail(q)
           shown == IF Head(q).kind = kind THEN Shows(Head(q)) ELSE label
<1>1. /\ n \in Nat /\ n > 0 /\ Len(p) = n - 1
      /\ \A i \in 1 .. n - 1 : p[i] = q[i + 1]
      /\ Head(q) = q[1]
  BY HeadTailProperties, LenProperties, EmptySeq
<1>2. ComesLast(kind, shown, p, t)
  OBVIOUS
<1> HIDE DEF n, p
<1>3. ASSUME shown = t, \A j \in 1 .. Len(p) : p[j].kind # kind
      PROVE  ComesLast(kind, label, q, t)
  <2>1. \A j \in 2 .. n : q[j].kind # kind
    <3> TAKE j \in 2 .. n
    <3>1. j - 1 \in 1 .. n - 1 /\ (j - 1) + 1 = j
      BY <1>1
    <3> QED
      BY <1>1, <1>3, <3>1
  <2>2. CASE q[1].kind = kind
    <3>1. 1 \in 1 .. n /\ Shows(q[1]) = t
      BY <1>1, <1>3, <2>2
    <3> QED
      BY <2>1, <2>2, <3>1 DEF ComesLast, n
  <2>3. CASE q[1].kind # kind
    <3>1. \A j \in 1 .. n : q[j].kind # kind
      BY <1>1, <2>1, <2>3
    <3> QED
      BY <1>1, <1>3, <2>3, <3>1 DEF ComesLast, n
  <2> QED
    BY <2>2, <2>3
<1>4. ASSUME NEW i \in 1 .. Len(p), p[i].kind = kind, Shows(p[i]) = t,
             \A j \in i + 1 .. Len(p) : p[j].kind # kind
      PROVE  ComesLast(kind, label, q, t)
  <2>1. i + 1 \in 1 .. n /\ q[i + 1].kind = kind /\ Shows(q[i + 1]) = t
    BY <1>1, <1>4
  <2>2. \A j \in (i + 1) + 1 .. n : q[j].kind # kind
    <3> TAKE j \in (i + 1) + 1 .. n
    <3>1. j - 1 \in i + 1 .. n - 1 /\ j - 1 \in 1 .. n - 1 /\ (j - 1) + 1 = j
      BY <1>1
    <3> QED
      BY <1>1, <1>4, <3>1
  <2> QED
    BY <2>1, <2>2 DEF ComesLast, n
<1> QED
  BY <1>2, <1>3, <1>4 DEF ComesLast

ComingStatus(t) == ComesLast("status", cardStatus, events, t)
ComingColor(t) == ComesLast("paint", readerColor, events, t)

\* A callback posted, by either thread.
LEMMA LabelsPosted ==
  ASSUME TypeOK, NEW e \in Event, events' = Append(events, e),
         UNCHANGED <<readerColor, cardStatus>>
  PROVE  /\ \A t : ComingStatus(t)' =>
                IF e.kind = "status" THEN t = e.text ELSE ComingStatus(t)
         /\ \A t : ComingColor(t)' =>
                IF e.kind = "paint" THEN t = e.color ELSE ComingColor(t)
<1>1. events \in Seq(Event)
  BY DEF TypeOK
<1> QED
  BY <1>1, PostedLast DEF ComingStatus, ComingColor, Shows

\* The oldest callback run.
LEMMA LabelsTaken ==
  ASSUME TypeOK, RunPaint \/ RunStatus \/ RunAdd
  PROVE  /\ \A t : ComingStatus(t)' => ComingStatus(t)
         /\ \A t : ComingColor(t)' => ComingColor(t)
<1> DEFINE h == Head(events)
<1>1. events \in Seq(Event) /\ events # << >> /\ events' = Tail(events)
  BY DEF TypeOK, RunPaint, RunStatus, RunAdd, TakeEvent
<1>2. cardStatus' = IF h.kind = "status" THEN Shows(h) ELSE cardStatus
  BY DEF RunPaint, RunStatus, RunAdd, Shows
<1>3. readerColor' = IF h.kind = "paint" THEN Shows(h) ELSE readerColor
  BY DEF RunPaint, RunStatus, RunAdd, Shows
<1> QED
  BY <1>1, <1>2, <1>3, TakenFirst DEF ComingStatus, ComingColor

-----------------------------------------------------------------------------
(* The status of the card. *)

\* When no card is being announced or read, a claimed card will show as read or as the
\* same; a reading that was announced is on its way to "done".
StatusInv ==
  /\ currentCid # NoCid /\ mon \notin {"read", "deliver", "say", "stopped"}
        => \A t : ComingStatus(t) => t \in {"done", "same"}
  /\ ComingStatus("reading")
        => mon \in {"read", "deliver", "stopped"} \/ (mon = "say" /\ say = "done")
  /\ mon = "say" => say \in {"reading", "same", "done", "waiting"}
  /\ mon = "say" /\ say = "waiting" => currentCid = NoCid

\* A step that neither posts nor shows a status.
LEMMA StatusStays ==
  ASSUME StatusInv, \A t : ComingStatus(t)' => ComingStatus(t),
         UNCHANGED say,
         currentCid' \in {currentCid, NoCid},
         \/ mon' = mon
         \/ mon' = "stopped"
         \/ /\ mon \notin {"read", "deliver", "say", "stopped"}
            /\ mon' # "say"
         \/ mon = "read" /\ mon' = "deliver"
  PROVE  StatusInv'
BY DEF StatusInv

LEMMA StatusStep ==
  ASSUME TypeInv, StatusInv, [Next]_vars
  PROVE  StatusInv'
<1> USE DEF Goto, world, thread, labels
<1>1. TypeOK /\ (UNCHANGED <<events, cardStatus>> => \A t : ComingStatus(t)' => ComingStatus(t))
  BY DEF TypeInv, ComingStatus
<1>2. CASE Enumerate \/ NameReader \/ ShowReader
           \/ ConnectFails \/ ConnectFindsNoCard \/ Connect \/ Select
           \/ Read \/ MonitorStops
  BY <1>1, <1>2, StatusStays DEF Enumerate, NameReader, ShowReader, ConnectFails,
     ConnectFindsNoCard, Connect, Select, Read, MonitorStops
<1>3. CASE Poll
  BY <1>1, <1>3 DEF Poll, StatusInv
<1>4. CASE PaintReader
  <2>1. Paint(ColorOf(found)) \in Event /\ Paint(ColorOf(found)).kind = "paint"
    BY EventTypes DEF ColorOf, Colors, Paint
  <2>2. \A t : ComingStatus(t)' => ComingStatus(t)
    BY <1>1, <1>4, <2>1, LabelsPosted DEF PaintReader, Post
  <2> QED
    BY <1>4, <2>2, StatusStays DEF PaintReader
<1>5. CASE Absent
  BY <1>1, <1>5 DEF Absent, StatusInv
<1>6. CASE Identify
  BY <1>1, <1>6 DEF Identify, StatusInv
<1>7. CASE Claim
  BY <1>1, <1>7 DEF Claim, StatusInv
<1>8. CASE Deliver
  <2> DEFINE r == [cid |-> cid, data |-> data]
  <2>1. r \in CardInfo
    BY <1>8 DEF TypeInv, Identified, TypeOK, CardInfo, Deliver
  <2>2. Add(r) \in Event /\ Add(r).kind = "add"
    BY <2>1, EventTypes DEF Add
  <2>3. \A t : ComingStatus(t)' => ComingStatus(t)
    BY <1>1, <1>8, <2>2, LabelsPosted DEF Deliver, Post
  <2> QED
    BY <1>8, <2>3 DEF Deliver, StatusInv
<1>9. CASE Say
  <2>1. /\ Status(say) \in Event
        /\ Status(say).kind = "status" /\ Status(say).text = say
    BY <1>1, EventTypes DEF TypeOK, Status
  <2>2. \A t : ComingStatus(t)' => t = say
    BY <1>1, <1>9, <2>1, LabelsPosted DEF Say, Post
  <2> QED
    BY <1>9, <2>2 DEF Say, StatusInv
<1>10. CASE RunPaint \/ RunStatus \/ RunAdd
  <2>1. \A t : ComingStatus(t)' => ComingStatus(t)
    BY <1>1, <1>10, LabelsTaken
  <2> QED
    BY <1>10, <2>1, StatusStays DEF RunPaint, RunStatus, RunAdd, TakeEvent
<1>11. CASE RefreshFinds \/ RefreshFindsNone
  <2>1. PICK c \in {"green", "red"} : events' = Append(events, Paint(c)) /\ main = "enumerate"
    BY <1>11 DEF RefreshFinds, RefreshFindsNone
  <2>2. Paint(c) \in Event /\ Paint(c).kind = "paint"
    BY <2>1, EventTypes DEF Colors, Paint
  <2>3. UNCHANGED <<readerColor, cardStatus, mon, say, currentCid>>
    BY <1>11 DEF RefreshFinds, RefreshFindsNone
  <2>4. \A t : ComingStatus(t)' => ComingStatus(t)
    BY <1>1, <2>1, <2>2, <2>3, LabelsPosted
  <2> QED
    BY <2>3, <2>4, StatusStays
<1>12. CASE Settle \/ UserStep
  BY <1>1, <1>12, StatusStays DEF Settle, UserStep, ClickRefresh, Forget, Close
<1>13. CASE WorldStep \/ UNCHANGED vars
  BY <1>1, <1>13, StatusStays DEF WorldStep, InsertCard, RemoveCard, ReplugReader, vars
<1> QED
  BY <1>2, <1>3, <1>4, <1>5, <1>6, <1>7, <1>8, <1>9, <1>10, <1>11, <1>12, <1>13
     DEF Next, MonitorStep, TkCall, MainStep

\* README_GUI.md:75-78.  Whatever cards come and go and whatever the user does
\* meanwhile, the card status tells the truth once the callbacks have run.
THEOREM StatusTellsClaim == Spec => []CardStatusTellsClaim
<1>1. Init => StatusInv
  <2> SUFFICES ASSUME Init PROVE StatusInv
    OBVIOUS
  <2>1. Len(events) = 0 /\ cardStatus = "idle" /\ currentCid = NoCid /\ mon = "poll"
    BY EmptySeq DEF Init
  <2> QED
    BY <2>1 DEF StatusInv, ComingStatus, ComesLast
<1>2. StatusInv => CardStatusTellsClaim
  <2> SUFFICES ASSUME StatusInv, Settled PROVE CardStatusTellsClaim
    BY DEF CardStatusTellsClaim
  <2>1. Len(events) = 0 /\ mon = "poll"
    BY EmptySeq DEF Settled
  <2>2. ComingStatus(cardStatus)
    BY <2>1 DEF ComingStatus, ComesLast
  <2> QED
    BY <2>1, <2>2 DEF StatusInv, CardStatusTellsClaim
<1> QED
  BY <1>1, <1>2, InitTypes, TypesAreInductive, StatusStep, PTL DEF Spec

-----------------------------------------------------------------------------
(* The label of the reader. *)

\* The reader is set by the monitor thread alone, which shows and paints it before it
\* goes on.
ReaderInv ==
  /\ main \notin {"enumerate", "settle"}
  /\ mon = "find" => ~reader
  /\ reader /\ mon \in {"show", "paint"} => found = "ready"
  /\ reader /\ mon \notin {"name", "show", "stopped"} => readerStatus = "ready"
  /\ reader /\ mon \notin {"name", "show", "paint", "stopped"}
        => \A t : ComingColor(t) => t = "green"

\* A step elsewhere than in find_reader.
LEMMA ReaderStays ==
  ASSUME ReaderInv, \A t : ComingColor(t)' => ComingColor(t),
         UNCHANGED <<reader, readerStatus, found>>,
         main' \in {main, "closed"},
         \/ mon' \in {mon, "stopped"}
         \/ mon \notin {"name", "show", "paint", "stopped"}
            /\ mon' \notin {"find", "name", "show", "paint"}
  PROVE  ReaderInv'
BY DEF ReaderInv

LEMMA ReaderStep ==
  ASSUME TypeInv, ReaderInv, "refresh" \notin UserActs, [Next]_vars
  PROVE  ReaderInv'
<1> USE DEF Goto, world, thread, labels
<1>1. TypeOK /\ (UNCHANGED <<events, readerColor>> => \A t : ComingColor(t)' => ComingColor(t))
  BY DEF TypeInv, ComingColor
<1>2. CASE Poll
  BY <1>1, <1>2 DEF Poll, ReaderInv
<1>3. CASE Enumerate
  BY <1>1, <1>3 DEF Enumerate, ReaderInv
<1>4. CASE NameReader
  BY <1>1, <1>4 DEF NameReader, ReaderInv
<1>5. CASE ShowReader
  BY <1>1, <1>5 DEF ShowReader, ReaderInv
<1>6. CASE PaintReader
  <2> DEFINE e == Paint(ColorOf(found))
  <2>1. e \in Event /\ e.kind = "paint" /\ e.color = ColorOf(found)
    BY EventTypes DEF ColorOf, Colors, Paint
  <2>2. events' = Append(events, e) /\ UNCHANGED <<readerColor, cardStatus>>
    BY <1>6 DEF PaintReader, Post
  <2> HIDE DEF e
  <2>3. \A t : ComingColor(t)' => t = ColorOf(found)
    BY <1>1, <2>1, <2>2, LabelsPosted
  <2>4. found = "ready" => ColorOf(found) = "green"
    BY DEF ColorOf
  <2> QED
    BY <1>6, <2>3, <2>4 DEF PaintReader, ReaderInv
<1>7. CASE ConnectFails \/ ConnectFindsNoCard \/ Connect \/ Absent \/ Select \/ Identify
           \/ Claim \/ Read \/ MonitorStops
  BY <1>1, <1>7, ReaderStays DEF ConnectFails, ConnectFindsNoCard, Connect, Absent, Select,
     Identify, Claim, Read, MonitorStops
<1>8. CASE Deliver
  <2> DEFINE r == [cid |-> cid, data |-> data]
  <2>1. r \in CardInfo
    BY <1>8 DEF TypeInv, Identified, TypeOK, CardInfo, Deliver
  <2>2. Add(r) \in Event /\ Add(r).kind = "add"
    BY <2>1, EventTypes DEF Add
  <2>3. \A t : ComingColor(t)' => ComingColor(t)
    BY <1>1, <1>8, <2>2, LabelsPosted DEF Deliver, Post
  <2> QED
    BY <1>8, <2>3, ReaderStays DEF Deliver
<1>9. CASE Say
  <2>1. Status(say) \in Event /\ Status(say).kind = "status"
    BY <1>1, EventTypes DEF TypeOK, Status
  <2>2. \A t : ComingColor(t)' => ComingColor(t)
    BY <1>1, <1>9, <2>1, LabelsPosted DEF Say, Post
  <2> QED
    BY <1>9, <2>2, ReaderStays DEF Say
<1>10. CASE RunPaint \/ RunStatus \/ RunAdd
  <2>1. \A t : ComingColor(t)' => ComingColor(t)
    BY <1>1, <1>10, LabelsTaken
  <2> QED
    BY <1>10, <2>1, ReaderStays DEF RunPaint, RunStatus, RunAdd, TakeEvent
<1>11. ~(RefreshFinds \/ RefreshFindsNone \/ Settle \/ ClickRefresh)
  BY DEF RefreshFinds, RefreshFindsNone, Settle, ClickRefresh, ReaderInv
<1>12. CASE Forget \/ Close
  BY <1>1, <1>12, ReaderStays DEF Forget, Close
<1>13. CASE WorldStep \/ UNCHANGED vars
  BY <1>1, <1>13, ReaderStays DEF WorldStep, InsertCard, RemoveCard, ReplugReader, vars
<1> QED
  BY <1>2, <1>3, <1>4, <1>5, <1>6, <1>7, <1>8, <1>9, <1>10, <1>11, <1>12, <1>13
     DEF Next, MonitorStep, TkCall, MainStep, UserStep

\* README_GUI.md:70-71.  As long as nobody clicks refresh, the label of the reader is
\* right once the callbacks have run, whatever is plugged, unplugged or read.  With
\* refresh it need not be: the two threads' calls of find_reader mix.
THEOREM ReaderIsShown == "refresh" \notin UserActs /\ Spec => []ReaderInUseIsShown
<1> DEFINE Inv == "refresh" \notin UserActs /\ ReaderInv
<1>1. "refresh" \notin UserActs /\ Init => Inv
  BY DEF Init, ReaderInv
<1>2. TypeInv /\ Inv /\ [Next]_vars => Inv'
  BY ReaderStep
<1>3. Inv => ReaderInUseIsShown
  <2> SUFFICES ASSUME ReaderInv, Settled, reader
               PROVE  readerStatus = "ready" /\ readerColor = "green"
    BY DEF ReaderInUseIsShown
  <2>1. Len(events) = 0 /\ mon = "poll"
    BY EmptySeq DEF Settled
  <2>2. ComingColor(readerColor)
    BY <2>1 DEF ComingColor, ComesLast
  <2> QED
    BY <2>1, <2>2 DEF ReaderInv
<1> QED
  BY <1>1, <1>2, <1>3, InitTypes, TypesAreInductive, PTL DEF Spec
=============================================================================

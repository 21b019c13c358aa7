---------------------------- MODULE CardMonitor -----------------------------
(***************************************************************************)
(* The monitor thread of gui_reader.py, which polls the smartcard reader,  *)
(* recognises a card by its citizen number and reads it, together with     *)
(* what the main thread shares with it: the attributes reader and          *)
(* current_cid, the labels, and the queue of callbacks (root.after) that   *)
(* the main thread's event loop runs in order.                             *)
(*                                                                         *)
(* A Tk call made by the monitor thread is handed to the main thread and   *)
(* waits until that is in an event loop (main = "loop").  The user inserts *)
(* and removes cards and plugs the reader in and out at any moment.        *)
(***************************************************************************)
EXTENDS Naturals, Sequences

CONSTANTS
    Cards,      \* Thai ID cards, each named by its citizen number
    Foreign,    \* any other smartcard
    NoCard,     \* an empty slot
    Dead,       \* a connection whose card has gone
    NoCid,      \* current_cid is None, or the number read is empty
    Splits,     \* the cards whose name and address can be split in parts
    UserActs,   \* what the user may do in this instance
    MaxRetries, \* max_retries of monitor_card
    MaxFaults,  \* bound: transmissions that fail with the card in place
    MaxEvents   \* bound: callbacks waiting for the event loop

ASSUME CardsAssumption ==
    /\ NoCid \notin Cards /\ Foreign \notin Cards
    /\ NoCard \notin Cards \cup {Foreign} /\ Dead \notin Cards \cup {Foreign}
    /\ Splits \subseteq Cards
ASSUME BoundsAssumption ==
    MaxRetries \in Nat \ {0} /\ MaxFaults \in Nat /\ MaxEvents \in Nat \ {0}

VARIABLES
    \* the world
    readers,        \* what readers() finds: "present", "absent" or "error"
    slot,           \* the card in the reader
    link,           \* the card the open connection talks to
    faults,         \* transmission faults still to come
    \* attributes of the application, shared by both threads
    reader,         \* self.reader is set
    currentCid,     \* self.current_cid
    \* the monitor thread
    mon,            \* where it is
    attempt,        \* retry + 1
    cid,            \* the number read in this poll
    data,           \* what the last read_card_data left in card_info
    say,            \* the card status about to be posted
    found,          \* the text find_reader is about to show
    \* the main thread
    main,           \* what it is doing
    events,         \* callbacks waiting, oldest first
    readerStatus,   \* self.reader_status
    readerColor,    \* colour of its label
    cardStatus      \* self.card_status, with its colour

world == <<readers, slot, link, faults>>
thread == <<mon, attempt, cid, data, say, found>>
labels == <<readerStatus, readerColor, cardStatus>>
vars == <<world, reader, currentCid, thread, main, events, labels>>

-----------------------------------------------------------------------------
MonitorPhases == {"poll", "find", "name", "show", "paint", "connect", "absent",
                  "select", "identify", "claim", "read", "deliver", "say", "stopped"}

ReaderTexts == {"searching", "ready", "nameless", "missing", "error"}
Colors == {"orange", "green", "red"}
CardTexts == {"idle", "reading", "done", "same", "waiting"}

\* A record with name and address in parts, one without, and one with a gap.
Data == {"whole", "raw", "blank"}

CardInfo == [cid : Cards, data : Data]

Paint(color) == [kind |-> "paint", color |-> color]
Status(text) == [kind |-> "status", text |-> text]
Add(r) == [kind |-> "add", rec |-> r]

Event == {Paint(c) : c \in Colors} \cup {Status(t) : t \in CardTexts}
            \cup {Add(r) : r \in CardInfo}

ColorOf(text) == IF text \in {"ready", "nameless"} THEN "green" ELSE "red"

Init ==
    /\ readers \in {"present", "absent"}
    /\ slot \in Cards \cup {Foreign, NoCard}
    /\ link = Dead
    /\ faults = MaxFaults
    /\ reader = FALSE
    /\ currentCid = NoCid
    /\ mon = "poll"
    /\ attempt = 1
    /\ cid = NoCid
    /\ data = "blank"
    /\ say = "idle"
    /\ found = "searching"
    /\ main = "loop"
    /\ events = << >>
    /\ readerStatus = "searching"
    /\ readerColor = "orange"
    /\ cardStatus = "idle"

\* root.after(0, ...) from the monitor thread.
Post(e) ==
    /\ main = "loop"
    /\ Len(events) < MaxEvents
    /\ events' = Append(events, e)

Goto(phase) == mon' = phase

\* A transmission that reaches the card, and one that does not.
Transmit == link \in Cards /\ UNCHANGED faults
NoAnswer ==
    \/ link \notin Cards /\ UNCHANGED faults
    \/ link \in Cards /\ faults > 0 /\ faults' = faults - 1

-----------------------------------------------------------------------------
\* monitor_card: the test of self.reader at the head of the loop.  The locals of
\* the last round are dead; they take their first values again.
Poll ==
    /\ mon = "poll"
    /\ Goto(IF reader THEN "connect" ELSE "find")
    /\ attempt' = 1 /\ cid' = NoCid /\ say' = "idle" /\ found' = "searching"
    /\ UNCHANGED <<world, reader, currentCid, data, main, events, labels>>

\* Defect: an error of readers() ends the thread.
DefectErrorIsFatal ==
    /\ mon = "find"
    /\ \/ /\ readers = "present"
          /\ reader' = TRUE
          /\ UNCHANGED found
          /\ Goto("name")
       \/ /\ readers = "absent"
          /\ found' = "missing"
          /\ UNCHANGED reader
          /\ Goto("show")
       \/ /\ readers = "error"
          /\ UNCHANGED <<reader, found>>
          /\ Goto("stopped")
    /\ UNCHANGED <<world, currentCid, attempt, cid, data, say, main, events, labels>>

\* find_reader on the monitor thread: enumerate, name the reader, show, paint.
Enumerate ==
    /\ mon = "find"
    /\ \/ /\ readers = "present"
          /\ reader' = TRUE
          /\ UNCHANGED found
          /\ Goto("name")
       \/ /\ readers # "present"
          /\ found' = IF readers = "absent" THEN "missing" ELSE "error"
          /\ UNCHANGED reader
          /\ Goto("show")
    /\ UNCHANGED <<world, currentCid, attempt, cid, data, say, main, events, labels>>

\* The text reads self.reader again, which a refresh may have set to None.
NameReader ==
    /\ mon = "name"
    /\ found' = IF reader THEN "ready" ELSE "nameless"
    /\ Goto("show")
    /\ UNCHANGED <<world, reader, currentCid, attempt, cid, data, say,
                   main, events, labels>>

ShowReader ==
    /\ mon = "show"
    /\ main = "loop"
    /\ readerStatus' = found
    /\ Goto("paint")
    /\ UNCHANGED <<world, reader, currentCid, attempt, cid, data, say, found,
                   main, events, readerColor, cardStatus>>

\* Defect: only trouble is painted.
DefectPaintsTroubleOnly ==
    /\ mon = "paint"
    /\ IF ColorOf(found) = "red" THEN Post(Paint("red")) ELSE UNCHANGED events
    /\ Goto("poll")
    /\ UNCHANGED <<world, reader, currentCid, attempt, cid, data, say, found,
                   main, labels>>

PaintReader ==
    /\ mon = "paint"
    /\ Post(Paint(ColorOf(found)))
    /\ Goto("poll")
    /\ UNCHANGED <<world, reader, currentCid, attempt, cid, data, say, found,
                   main, labels>>

\* Defect: a connection error is taken for the removal of the card.
DefectErrorMeansRemoval ==
    /\ mon = "connect"
    /\ ~reader \/ readers # "present"
    /\ Goto("absent")
    /\ UNCHANGED <<world, reader, currentCid, attempt, cid, data, say, found,
                   main, events, labels>>

\* createConnection and connect.  self.reader may be None by now; a reader that
\* is gone raises CardConnectionException, which is printed and forgotten.
ConnectFails ==
    /\ mon = "connect"
    /\ ~reader \/ readers # "present"
    /\ Goto("poll")
    /\ UNCHANGED <<world, reader, currentCid, attempt, cid, data, say, found,
                   main, events, labels>>

\* Defect: an empty slot is taken for a connection error.
DefectIgnoresRemoval ==
    /\ mon = "connect"
    /\ reader /\ readers = "present" /\ slot = NoCard
    /\ Goto("poll")
    /\ UNCHANGED <<world, reader, currentCid, attempt, cid, data, say, found,
                   main, events, labels>>

ConnectFindsNoCard ==
    /\ mon = "connect"
    /\ reader /\ readers = "present" /\ slot = NoCard
    /\ Goto("absent")
    /\ UNCHANGED <<world, reader, currentCid, attempt, cid, data, say, found,
                   main, events, labels>>

Connect ==
    /\ mon = "connect"
    /\ reader /\ readers = "present" /\ slot # NoCard
    /\ link' = slot
    /\ attempt' = 1
    /\ Goto("select")
    /\ UNCHANGED <<readers, slot, faults, reader, currentCid, cid, data, say, found,
                   main, events, labels>>

\* except NoCardException: forget the card, once.
Absent ==
    /\ mon = "absent"
    /\ \/ /\ currentCid = NoCid
          /\ Goto("poll")
          /\ UNCHANGED <<currentCid, say>>
       \/ /\ currentCid # NoCid
          /\ currentCid' = NoCid
          /\ say' = "waiting"
          /\ Goto("say")
    /\ UNCHANGED <<world, reader, attempt, cid, data, found, main, events, labels>>

\* Defect: one attempt too many.
DefectRetriesOnceMore ==
    /\ mon = "select"
    /\ \/ /\ Transmit
          /\ Goto("identify")
          /\ UNCHANGED attempt
       \/ /\ NoAnswer
          /\ attempt <= MaxRetries
          /\ attempt' = attempt + 1
          /\ UNCHANGED mon
       \/ /\ NoAnswer
          /\ attempt > MaxRetries
          /\ Goto("poll")
          /\ UNCHANGED attempt
    /\ UNCHANGED <<readers, slot, link, reader, currentCid, cid, data, say, found,
                   main, events, labels>>

\* SELECT of the Thai applet, tried up to MaxRetries times.
Select ==
    /\ mon = "select"
    /\ \/ /\ Transmit
          /\ Goto("identify")
          /\ UNCHANGED attempt
       \/ /\ NoAnswer
          /\ attempt < MaxRetries
          /\ attempt' = attempt + 1
          /\ UNCHANGED mon
       \/ /\ NoAnswer
          /\ attempt >= MaxRetries
          /\ Goto("poll")
          /\ UNCHANGED attempt
    /\ UNCHANGED <<readers, slot, link, reader, currentCid, cid, data, say, found,
                   main, events, labels>>

\* Defect: a card is new only when none was read before it.
DefectMissesSwap ==
    /\ mon = "identify"
    /\ \/ Transmit /\ cid' = link
       \/ NoAnswer /\ cid' = NoCid
    /\ Goto(CASE cid' = NoCid -> "poll"
              [] cid' # NoCid /\ currentCid # NoCid -> "say"
              [] OTHER -> "claim")
    /\ say' = "same"
    /\ UNCHANGED <<readers, slot, link, reader, currentCid, attempt, data, found,
                   main, events, labels>>

\* Read the number (get_data turns a failure into the empty number) and compare
\* it with the card read last.
Identify ==
    /\ mon = "identify"
    /\ \/ Transmit /\ cid' = link
       \/ NoAnswer /\ cid' = NoCid
    /\ Goto(CASE cid' = NoCid -> "poll"
              [] cid' # NoCid /\ cid' = currentCid -> "say"
              [] OTHER -> "claim")
    /\ say' = "same"
    /\ UNCHANGED <<readers, slot, link, reader, currentCid, attempt, data, found,
                   main, events, labels>>

\* The card is marked as read before it is read.
Claim ==
    /\ mon = "claim"
    /\ currentCid' = cid
    /\ say' = "reading"
    /\ Goto("say")
    /\ UNCHANGED <<world, reader, attempt, cid, data, found, main, events, labels>>

\* read_card_data: a field that cannot be read is left empty, never an error, and the
\* gender then has a value all the same.  Any number of its transmissions may fail.
\* CardFields reads field by field.
Read ==
    /\ mon = "read"
    /\ faults' \in 0 .. faults
    /\ \/ /\ link \in Cards
          /\ faults <= faults' + 1
          /\ data' = IF link \in Splits THEN "whole" ELSE "raw"
       \/ /\ link \in Cards => faults' # faults
          /\ data' = "blank"
    /\ Goto("deliver")
    /\ UNCHANGED <<readers, slot, link, reader, currentCid, attempt, cid, say, found,
                   main, events, labels>>

\* Defects: an incomplete record is not delivered, announced or not.
DefectDropsIncomplete ==
    /\ mon = "deliver"
    /\ IF data # "blank" THEN Post(Add([cid |-> cid, data |-> data]))
                         ELSE UNCHANGED events
    /\ say' = "done"
    /\ Goto("say")
    /\ UNCHANGED <<world, reader, currentCid, attempt, cid, data, found, main, labels>>

DefectGivesUpSilently ==
    /\ mon = "deliver"
    /\ IF data # "blank" THEN Post(Add([cid |-> cid, data |-> data])) /\ Goto("say")
                         ELSE Goto("poll") /\ UNCHANGED events
    /\ say' = "done"
    /\ UNCHANGED <<world, reader, currentCid, attempt, cid, data, found, main, labels>>

Deliver ==
    /\ mon = "deliver"
    /\ Post(Add([cid |-> cid, data |-> data]))
    /\ say' = "done"
    /\ Goto("say")
    /\ UNCHANGED <<world, reader, currentCid, attempt, cid, data, found, main, labels>>

\* Defect: a lost connection is opened again before the fields are read.
DefectReconnects ==
    /\ mon = "say"
    /\ Post(Status(say))
    /\ Goto(IF say = "reading" THEN "read" ELSE "poll")
    /\ link' = IF say = "reading" /\ slot # NoCard THEN slot ELSE link
    /\ UNCHANGED <<readers, slot, faults, reader, currentCid, attempt, cid, data,
                   say, found, main, labels>>

\* update_card_status.
Say ==
    /\ mon = "say"
    /\ Post(Status(say))
    /\ Goto(IF say = "reading" THEN "read" ELSE "poll")
    /\ UNCHANGED <<world, reader, currentCid, attempt, cid, data, say, found,
                   main, labels>>

\* The loop ends, or the process exits and takes the daemon thread with it.
MonitorStops ==
    /\ main = "closed"
    /\ mon # "stopped"
    /\ Goto("stopped")
    /\ UNCHANGED <<world, reader, currentCid, attempt, cid, data, say, found,
                   main, events, labels>>

TkCall == ShowReader \/ PaintReader \/ Deliver \/ Say

MonitorStep ==
    \/ Poll \/ Enumerate \/ NameReader
    \/ ConnectFails \/ ConnectFindsNoCard \/ Connect \/ Absent
    \/ Select \/ Identify \/ Claim \/ Read
    \/ TkCall \/ MonitorStops

-----------------------------------------------------------------------------
\* The event loop runs the oldest callback.  What an "add" does to the table is
\* CardTable's.
TakeEvent ==
    /\ main = "loop"
    /\ events # << >>
    /\ events' = Tail(events)
    /\ UNCHANGED <<world, reader, currentCid, thread, main, readerStatus>>

RunPaint ==
    /\ TakeEvent
    /\ Head(events).kind = "paint"
    /\ readerColor' = Head(events).color
    /\ UNCHANGED cardStatus

RunStatus ==
    /\ TakeEvent
    /\ Head(events).kind = "status"
    /\ cardStatus' = Head(events).text
    /\ UNCHANGED readerColor

RunAdd ==
    /\ TakeEvent
    /\ Head(events).kind = "add"
    /\ UNCHANGED <<readerColor, cardStatus>>

\* refresh_reader, called by a button: find_reader on the main thread, which
\* needs no queue for its text and sleeps half a second when it succeeds.
ClickRefresh ==
    /\ "refresh" \in UserActs
    /\ main = "loop"
    /\ Len(events) < MaxEvents
    /\ reader' = FALSE
    /\ main' = "enumerate"
    /\ UNCHANGED <<world, currentCid, thread, events, labels>>

RefreshFinds ==
    /\ main = "enumerate"
    /\ readers = "present"
    /\ reader' = TRUE
    /\ readerStatus' = "ready"
    /\ events' = Append(events, Paint("green"))
    /\ main' = "settle"
    /\ UNCHANGED <<world, currentCid, thread, readerColor, cardStatus>>

RefreshFindsNone ==
    /\ main = "enumerate"
    /\ readers # "present"
    /\ readerStatus' = IF readers = "absent" THEN "missing" ELSE "error"
    /\ events' = Append(events, Paint("red"))
    /\ main' = "loop"
    /\ UNCHANGED <<world, reader, currentCid, thread, readerColor, cardStatus>>

Settle ==
    /\ main = "settle"
    /\ main' = "loop"
    /\ UNCHANGED <<world, reader, currentCid, thread, events, labels>>

MainStep == RunPaint \/ RunStatus \/ RunAdd \/ RefreshFinds \/ RefreshFindsNone \/ Settle

\* clear_all_data makes the monitor forget the card it has read.
Forget ==
    /\ "clear" \in UserActs
    /\ main = "loop"
    /\ currentCid' = NoCid
    /\ UNCHANGED <<world, reader, thread, main, events, labels>>

\* on_closing.
Close ==
    /\ "close" \in UserActs
    /\ main = "loop"
    /\ main' = "closed"
    /\ UNCHANGED <<world, reader, currentCid, thread, events, labels>>

-----------------------------------------------------------------------------
\* The world outside the program.
InsertCard ==
    /\ slot = NoCard
    /\ slot' \in Cards \cup {Foreign}
    /\ UNCHANGED <<readers, link, faults, reader, currentCid, thread, main, events, labels>>

RemoveCard ==
    /\ slot # NoCard
    /\ slot' = NoCard
    /\ link' = Dead
    /\ UNCHANGED <<readers, faults, reader, currentCid, thread, main, events, labels>>

ReplugReader ==
    /\ "replug" \in UserActs
    /\ readers' \in {"present", "absent", "error"} \ {readers}
    /\ link' = Dead
    /\ UNCHANGED <<slot, faults, reader, currentCid, thread, main, events, labels>>

WorldStep == InsertCard \/ RemoveCard \/ ReplugReader

UserStep == ClickRefresh \/ Forget \/ Close

Next == MonitorStep \/ MainStep \/ UserStep \/ WorldStep

\* Both threads go on: the monitor's sleeps end, the event loop serves its queue,
\* and a Tk call the monitor has handed over is served before the main thread
\* leaves its event loop for ever.  Nothing is asked of the user.
Fairness ==
    /\ WF_vars(MonitorStep)
    /\ SF_vars(TkCall)
    /\ WF_vars(MainStep)

Spec == Init /\ [][Next]_vars
FairSpec == Spec /\ Fairness

-----------------------------------------------------------------------------
TypeOK ==
    /\ readers \in {"present", "absent", "error"}
    /\ slot \in Cards \cup {Foreign, NoCard}
    /\ link \in Cards \cup {Foreign, Dead}
    /\ faults \in 0 .. MaxFaults
    /\ reader \in BOOLEAN
    /\ currentCid \in Cards \cup {NoCid}
    /\ mon \in MonitorPhases
    /\ attempt \in 1 .. MaxRetries
    /\ cid \in Cards \cup {NoCid}
    /\ data \in Data
    /\ say \in CardTexts
    /\ found \in ReaderTexts
    /\ main \in {"loop", "import", "enumerate", "settle", "closed"}
    /\ events \in Seq(Event)
    /\ Len(events) <= MaxEvents
    /\ readerStatus \in ReaderTexts
    /\ readerColor \in Colors
    /\ cardStatus \in CardTexts

\* Between two polls, with every callback run.
Settled == mon = "poll" /\ events = << >> /\ main = "loop"

\* README_GUI.md:75-78.  The card status never lies about whether a card is
\* claimed: a claimed card shows as read or as the same card, "waiting" shows
\* only when none is claimed, and no reading is announced and then abandoned.
CardStatusTellsClaim ==
    Settled =>
        /\ currentCid # NoCid => cardStatus \in {"done", "same"}
        /\ cardStatus = "waiting" => currentCid = NoCid
        /\ cardStatus # "reading"

\* A record is put together from one card only: while the fields of a claimed
\* card are read, a connection that still answers is a connection to that card.
OneCardPerRecord ==
    mon = "read" /\ link # Dead => link = cid

\* README_GUI.md:70.  While the program has a reader and it is plugged in, its label
\* says so in text and in colour.
ReaderInUseIsShown ==
    Settled /\ reader /\ readers = "present"
        => readerStatus = "ready" /\ readerColor = "green"

Open == main # "closed"

\* A reader that is there to stay is found and shown, whatever failed before.
ReaderIsFound ==
    <>[](readers = "present" /\ Open)
        => <>[](reader /\ readerStatus = "ready" /\ readerColor = "green")

\* A card left in the reader is read in the end, whichever cards and faults came
\* before it.
InsertedCardIsRead ==
    \A c \in Cards :
        <>[](slot = c /\ readers = "present" /\ Open)
            => <>[](currentCid = c /\ cardStatus \in {"done", "same"})

\* README_GUI.md:75, 77.  Once the card is out for good, the status bar stops
\* asking for its removal.
RemovalIsNoticed ==
    <>[](slot = NoCard /\ readers = "present" /\ Open)
        => <>[](cardStatus \in {"idle", "waiting"})
=============================================================================

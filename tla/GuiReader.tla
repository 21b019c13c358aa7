----------------------------- MODULE GuiReader ------------------------------
(***************************************************************************)
(* The application of gui_reader.py: the monitor thread and the record     *)
(* table together.  They meet in three places: the callbacks the monitor   *)
(* queues (an "add" is add_card_to_table), self.current_cid, which         *)
(* clear_all_data resets under the monitor's feet, and the main thread,    *)
(* which serves the monitor's Tk calls only while it is in an event loop.  *)
(***************************************************************************)
EXTENDS Naturals, Sequences

CONSTANTS
    Cards, Foreign, NoCard, Dead, NoCid, Splits,
    MaxRetries, MaxFaults, MaxEvents, UserActs,         \* of CardMonitor
    Cids, CutsOf, Projects, NoProject, Files, NoFile, MaxDialogs    \* of CardTable

VARIABLES
    readers, slot, link, faults, reader, currentCid,
    mon, attempt, cid, data, say, found,
    main, events, readerStatus, readerColor, cardStatus,
    cardDataList, tree, dataCount, project, dialogs, imp, file,
    arrivals    \* history: how often each person came, by card or by file (0, 1, 2 or more)

\* The assumptions of the two parts.
ASSUME CardsAssumption ==
    /\ NoCid \notin Cards /\ Foreign \notin Cards
    /\ NoCard \notin Cards \cup {Foreign} /\ Dead \notin Cards \cup {Foreign}
    /\ Splits \subseteq Cards
ASSUME BoundsAssumption ==
    /\ MaxRetries \in Nat \ {0} /\ MaxFaults \in Nat /\ MaxEvents \in Nat \ {0}
    /\ MaxDialogs \in Nat \ {0}

Monitor == INSTANCE CardMonitor
Table == INSTANCE CardTable

\* The number of a card is a number a row may have.
ASSUME FilesAssumption ==
    /\ Cards \subseteq Cids /\ NoCid \notin Cids
    /\ CutsOf \in [Cids -> SUBSET Cids]
    /\ NoProject \notin Projects
    /\ Files \subseteq Seq(Table!CsvLine)
    /\ NoFile \notin Seq(Table!CsvLine)

\* What each part has for itself; main is shared.
monitorOnly == <<readers, slot, link, faults, reader, currentCid,
                 mon, attempt, cid, data, say, found,
                 events, readerStatus, readerColor, cardStatus>>
tableOnly == <<cardDataList, tree, dataCount, project, dialogs, imp, file>>

vars == <<monitorOnly, tableOnly, main, arrivals>>

-----------------------------------------------------------------------------
Listed == Table!NumbersIn(cardDataList)

\* One more arrival of each person in the set.
Arrive(people) ==
    arrivals' = [c \in Cards |-> IF c \in people /\ arrivals[c] < 2
                                 THEN arrivals[c] + 1 ELSE arrivals[c]]

Init ==
    /\ Monitor!Init
    /\ Table!Init
    /\ arrivals = [c \in Cards |-> IF slot = c THEN 1 ELSE 0]

MonitorStep == Monitor!MonitorStep /\ UNCHANGED <<tableOnly, arrivals>>

\* The event loop runs a callback: a label, or a card for the table.
RunLabel ==
    /\ Monitor!RunPaint \/ Monitor!RunStatus
    /\ UNCHANGED <<tableOnly, arrivals>>

\* Defect: the monitor is trusted to bring nobody twice.
DefectTrustsMonitor ==
    /\ Monitor!RunAdd
    /\ Table!Insert(Head(events).rec)
    /\ dataCount' = Len(cardDataList) + 1
    /\ UNCHANGED <<project, dialogs, imp, file, arrivals>>

RunAdd ==
    /\ Monitor!RunAdd
    /\ Table!AddCard(Head(events).rec)
    /\ UNCHANGED arrivals

\* Defect: a refresh forgets the card too.
DefectRefreshForgets ==
    /\ dialogs = << >>
    /\ "refresh" \in UserActs /\ main = "loop" /\ Len(events) < MaxEvents
    /\ reader' = FALSE /\ currentCid' = NoCid /\ main' = "enumerate"
    /\ UNCHANGED <<readers, slot, link, faults, mon, attempt, cid, data, say, found,
                   events, readerStatus, readerColor, cardStatus, tableOnly, arrivals>>

\* The button of refresh_reader, reachable only when no dialog is open.
ClickRefresh ==
    /\ dialogs = << >>
    /\ Monitor!ClickRefresh
    /\ UNCHANGED <<tableOnly, arrivals>>

RefreshStep ==
    /\ Monitor!RefreshFinds \/ Monitor!RefreshFindsNone \/ Monitor!Settle
    /\ UNCHANGED <<tableOnly, arrivals>>

\* The table's buttons and dialogs.
TableStep == Table!UserStep /\ UNCHANGED <<monitorOnly, arrivals>>

\* Defect: the list is cleared and the monitor is not told.
DefectMonitorRemembers ==
    /\ Table!AnswerYes
    /\ UNCHANGED <<monitorOnly, arrivals>>

\* The rest of clear_all_data: the monitor forgets the card it has claimed, so the
\* card in the reader comes again.
AnswerYes == Table!AnswerYes /\ Monitor!Forget /\ Arrive({slot})

ImportStep ==
    /\ Table!ImportStep
    /\ Arrive(Table!NumbersIn(cardDataList') \ Listed)
    /\ UNCHANGED monitorOnly

Close ==
    /\ dialogs = << >>
    /\ Monitor!Close
    /\ UNCHANGED <<tableOnly, arrivals>>

\* The user's hands: cards and the reader's plug.
WorldStep ==
    /\ Monitor!WorldStep
    /\ Arrive({slot'} \ {slot})
    /\ UNCHANGED tableOnly

MainStep == RunLabel \/ RunAdd \/ RefreshStep \/ ImportStep

Next ==
    \/ MonitorStep \/ MainStep
    \/ ClickRefresh \/ TableStep \/ AnswerYes \/ Close \/ WorldStep

\* Beyond CardMonitor's fairness: an import runs to its end, and the user answers
\* a dialog (a callback that opens one nests in it, up to MaxDialogs deep).
AnswerDialog ==
    \/ TableStep /\ dialogs # << >>
    \/ AnswerYes

Fairness ==
    /\ WF_vars(MonitorStep)
    /\ SF_vars(Monitor!TkCall /\ UNCHANGED <<tableOnly, arrivals>>)
    /\ WF_vars(MainStep)
    /\ WF_vars(AnswerDialog)

Spec == Init /\ [][Next]_vars
FairSpec == Spec /\ Fairness

-----------------------------------------------------------------------------
TypeOK ==
    /\ Monitor!TypeOK
    /\ Table!TypeOK
    /\ arrivals \in [Cards -> 0 .. 2]

\* The monitor is on its way from claiming this number to delivering its record.
Reading(c) ==
    /\ cid = c
    /\ mon \in {"read", "deliver"} \/ (mon = "say" /\ say = "reading")

\* A record of this number waits to be added.
Waiting(c) == \E i \in DOMAIN events : events[i].kind = "add" /\ events[i].rec.cid = c

\* monitor_card marks a card as read before it is read, and its record waits in a
\* queue while the user may clear, import or refresh.  No card is marked and then
\* missing: it is being read, waits to be added, or is in the list.
ClaimedCardIsKept ==
    currentCid # NoCid /\ main # "closed" =>
        Reading(currentCid) \/ Waiting(currentCid) \/ currentCid \in Listed

\* README_GUI.md:16.  However adds, imports and clears interleave, nobody is in the
\* list twice.
NoDuplicateCid == Table!NoDuplicateCid

\* README_GUI.md:20, 131.  With files that can be read to the end, the status bar
\* counts the people in the list, whatever the monitor adds meanwhile.  (An export that
\* failed may leave a file that cannot.)
CountMatchesList == Table!CountMatchesList

\* README_GUI.md:161.  The warning of a duplicate is the answer to a person who
\* came again: by card, by file, or because the list was cleared while the card
\* lay in the reader.  Who came once is never reported as a duplicate, however
\* often the reader fails, is refreshed or plugged in and out.
WarnsOnlyWhoReturns ==
    [][\A c \in Cards :
          events # << >> /\ Head(events).kind = "add" /\ Head(events).rec.cid = c
            /\ dialogs' = Append(dialogs, "duplicate")
          => arrivals[c] = 2]_vars

\* A card left in the reader is in the list again and again, whatever is cleared
\* or imported and however often the reader was refreshed before (each refresh
\* takes the reader from the monitor, so refreshing for ever can starve it).
CardInReaderIsListed ==
    \A c \in Cards :
        <>[](slot = c /\ readers = "present" /\ main \in {"loop", "import"})
            => []<>(c \in Listed)

\* README_GUI.md:148-152.  A card that was not read well is put in again and read:
\* a card left in the reader has a complete record in the end.
ReinsertionCompletes ==
    \A c \in Cards :
        <>[](slot = c /\ readers = "present" /\ main # "closed")
            => <>[](\E i \in DOMAIN cardDataList :
                        cardDataList[i].cid = c /\ cardDataList[i].data # "blank")

\* To the monitor, an import is the loop held up: no callback runs, no Tk call is served.
MonitorView == INSTANCE CardMonitor WITH main <- IF main = "import" THEN "loop" ELSE main

\* Whatever the table does, and however long an import or a dialog takes, the monitor
\* is CardMonitor's: the table reaches into it only to make it forget its card.
ImplementsCardMonitor == MonitorView!Spec

\* To the table, a refresh and the end of the program are the loop going on.
View == INSTANCE CardTable WITH main <- IF main = "import" THEN main ELSE "loop"

\* Whatever the monitor queues, and whenever it runs, the table is CardTable's: what
\* comes out of the queue are records, and no other step touches what it holds.
ImplementsTable == View!Spec
=============================================================================

----------------------------- MODULE CliReader ------------------------------
(***************************************************************************)
(* read_improved.py: one invocation after another reads the card in the    *)
(* reader once and writes a JSON file, named by the citizen number, to the *)
(* output directory, which outlives them.  A photo file is opened, and so  *)
(* emptied, but never written: what pyscard converts the photo to is a     *)
(* str, and the file was opened for bytes.  Cards are swapped,             *)
(* transmissions and writes fail and the user interrupts at any moment.    *)
(***************************************************************************)
EXTENDS Naturals

CONSTANTS
    Cards,      \* Thai ID cards, each named by its citizen number
    Chained,    \* those that answer SELECT with 61 xx instead of 90 00
    Foreign,    \* any other smartcard
    NoCard,     \* an empty slot
    Dead,       \* a connection whose card has gone
    NoCid,      \* the empty number, and a field or part that was not read
    None,       \* no file
    Torn,       \* a file that was opened for writing and not written
    FieldCount, \* get_data calls for the record, the number's first (9)
    PartCount,  \* get_data calls for the photo (20)
    MaxFaults,  \* bound: transmissions that fail with the card in place
    MaxRuns     \* bound: invocations

ASSUME CardsAssumption ==
    /\ Chained \subseteq Cards
    /\ {Foreign, NoCard, Dead, NoCid} \cap Cards = {}
    /\ Foreign # NoCard /\ Dead \notin {Foreign, NoCard}
ASSUME CountsAssumption ==
    /\ FieldCount \in Nat \ {0} /\ PartCount \in Nat \ {0}
    /\ MaxFaults \in Nat /\ MaxRuns \in Nat

-----------------------------------------------------------------------------
Names == Cards \cup {NoCid}
Fields == [1 .. FieldCount -> Names]

\* What may be in the directory under each number: a record, or no photo.
Photos == [Names -> {None, Torn}]
Jsons == [Names -> {None, Torn} \cup Fields]
Args == [photo : BOOLEAN, json : BOOLEAN]

ASSUME FilesAssumption == None # Torn /\ {None, Torn} \cap Fields = {}

VARIABLES
    slot,       \* the card in the reader
    link,       \* the card the connection talks to
    faults,     \* transmission faults still to come
    photos,     \* {cid}.jpg of each number: None or Torn
    jsons,      \* {cid}.json of each number: None, Torn or the record written
    pc,         \* where the invocation is; "off" when none runs
    args,       \* --photo and --json
    next,       \* the field or part to be read next
    rec,        \* the fields read: the card each came from
    exit,       \* how the last invocation ended
    lost,       \* history: transmissions that did not reach the card
    runs        \* invocations so far

world == <<slot, link, faults>>
disk == <<photos, jsons>>
locals == <<args, next, rec>>
vars == <<world, disk, pc, locals, exit, lost, runs>>

-----------------------------------------------------------------------------
NoFields == [f \in 1 .. FieldCount |-> NoCid]

\* The number, which names the files.
cid == rec[1]

Init ==
    /\ slot \in Cards \cup {Foreign, NoCard}
    /\ link = Dead
    /\ faults = MaxFaults
    /\ photos = [n \in Names |-> None]
    /\ jsons = [n \in Names |-> None]
    /\ pc = "off"
    /\ args = [photo |-> FALSE, json |-> FALSE]
    /\ next = 1
    /\ rec = NoFields
    /\ exit = "none"
    /\ lost = "nothing"
    /\ runs = 0

\* The process ends, and with it the connection.
Exit(code) ==
    /\ pc' = "off"
    /\ link' = Dead
    /\ exit' = code

\* Defect: a lost connection is opened again, to the card that is there now.
DefectGetData(got) ==
    \/ link \in Cards /\ got = link /\ UNCHANGED <<faults, lost>>
    \/ link = Foreign /\ got = NoCid /\ UNCHANGED <<faults, lost>>
    \/ /\ link = Dead /\ got = (IF slot \in Cards THEN slot ELSE NoCid)
       /\ lost' = "something" /\ UNCHANGED faults
    \/ link \in Cards /\ got = NoCid /\ faults > 0 /\ faults' = faults - 1 /\ lost' = "something"

\* get_data: the card's answer, or the empty one when a transmission raises.  A
\* foreign card has no such data.
GetData(got) ==
    \/ link \in Cards /\ got = link /\ UNCHANGED <<faults, lost>>
    \/ link = Foreign /\ got = NoCid /\ UNCHANGED <<faults, lost>>
    \/ link = Dead /\ got = NoCid /\ lost' = "something" /\ UNCHANGED faults
    \/ link \in Cards /\ got = NoCid /\ faults > 0 /\ faults' = faults - 1 /\ lost' = "something"

-----------------------------------------------------------------------------
\* The command is given.
Start(photo, json) ==
    /\ pc = "off" /\ runs < MaxRuns
    /\ pc' = "connect"
    /\ args' = [photo |-> photo, json |-> json]
    /\ next' = 1 /\ rec' = NoFields
    /\ exit' = "none" /\ lost' = "nothing" /\ runs' = runs + 1
    /\ UNCHANGED <<world, disk>>

\* No reader, no such reader, or connect raises.
ConnectFails ==
    /\ pc = "connect"
    /\ Exit("failure")
    /\ UNCHANGED <<slot, faults, disk, locals, lost, runs>>

Connect ==
    /\ pc = "connect"
    /\ slot # NoCard
    /\ link' = slot
    /\ pc' = "select"
    /\ UNCHANGED <<slot, faults, disk, locals, exit, lost, runs>>

\* Defect: the status is not tested, as in read.py.
DefectSelect ==
    /\ pc = "select"
    /\ link # Dead
    /\ pc' = "field"
    /\ UNCHANGED <<world, disk, locals, exit, lost, runs>>

\* SELECT of the Thai applet has to answer 90 00.
Select ==
    /\ pc = "select"
    /\ link \in Cards \ Chained
    /\ pc' = "field"
    /\ UNCHANGED <<world, disk, locals, exit, lost, runs>>

\* Another answer ends the invocation, and so does a transmission that raises: it is
\* not inside get_data.
SelectFails ==
    /\ pc = "select"
    /\ \/ link \in Chained \cup {Foreign, Dead} /\ UNCHANGED faults
       \/ link \in Cards /\ faults > 0 /\ faults' = faults - 1
    /\ lost' = IF link \in Chained \cup {Foreign} THEN lost ELSE "something"
    /\ Exit("failure")
    /\ UNCHANGED <<slot, disk, locals, runs>>

\* The record is read: main saves the JSON file if it is asked to.
SaveOrSucceed == IF args.json THEN pc' = "open json" /\ UNCHANGED <<link, exit>>
                              ELSE Exit("success")

\* Defect: one field too many is asked for.
DefectReadField ==
    /\ pc = "field"
    /\ \E got \in Names : GetData(got) /\ rec' = [rec EXCEPT ![next] = got]
    /\ IF next <= FieldCount
       THEN next' = next + 1 /\ UNCHANGED <<pc, link, exit>>
       ELSE next' = 1 /\ IF args.photo THEN pc' = "part" /\ UNCHANGED <<link, exit>>
                                       ELSE SaveOrSucceed
    /\ UNCHANGED <<slot, disk, args, runs>>

\* Defect: the last field is forgotten.
DefectForgetsField ==
    /\ pc = "field"
    /\ \E got \in Names : GetData(got) /\ rec' = [rec EXCEPT ![next] = got]
    /\ IF next + 1 < FieldCount
       THEN next' = next + 1 /\ UNCHANGED <<pc, link, exit>>
       ELSE next' = 1 /\ IF args.photo THEN pc' = "part" /\ UNCHANGED <<link, exit>>
                                       ELSE SaveOrSucceed
    /\ UNCHANGED <<slot, disk, args, runs>>

\* One get_data of read_thai_id_card.
ReadField ==
    /\ pc = "field"
    /\ \E got \in Names : GetData(got) /\ rec' = [rec EXCEPT ![next] = got]
    /\ IF next < FieldCount
       THEN next' = next + 1 /\ UNCHANGED <<pc, link, exit>>
       ELSE next' = 1 /\ IF args.photo THEN pc' = "part" /\ UNCHANGED <<link, exit>>
                                       ELSE SaveOrSucceed
    /\ UNCHANGED <<slot, disk, args, runs>>

\* One get_data for the photo.
ReadPart ==
    /\ pc = "part"
    /\ \E got \in Names : GetData(got)
    /\ IF next < PartCount THEN next' = next + 1 /\ UNCHANGED pc
                           ELSE next' = 1 /\ pc' = "open photo"
    /\ UNCHANGED <<slot, link, disk, args, rec, exit, runs>>

\* Opening a file empties it.
OpenPhoto ==
    /\ pc = "open photo"
    /\ photos' = [photos EXCEPT ![cid] = Torn]
    /\ pc' = "write photo"
    /\ UNCHANGED <<world, jsons, locals, exit, lost, runs>>

\* write raises, whatever was read: a TypeError, which main catches.
WritePhoto ==
    /\ pc = "write photo"
    /\ Exit("failure")
    /\ UNCHANGED <<slot, faults, disk, locals, lost, runs>>

OpenJson ==
    /\ pc = "open json"
    /\ jsons' = [jsons EXCEPT ![cid] = Torn]
    /\ pc' = "write json"
    /\ UNCHANGED <<world, photos, locals, exit, lost, runs>>

WriteJson ==
    /\ pc = "write json"
    /\ jsons' = [jsons EXCEPT ![cid] = rec]
    /\ Exit("success")
    /\ UNCHANGED <<slot, faults, photos, locals, lost, runs>>

\* A file cannot be opened or written; what was opened stays as it is.
FileFails ==
    /\ pc \in {"open photo", "open json", "write json"}
    /\ Exit("failure")
    /\ UNCHANGED <<slot, faults, disk, locals, lost, runs>>

\* Ctrl-C: not an Exception, so main does not catch it.
Interrupt ==
    /\ pc # "off"
    /\ Exit("killed")
    /\ UNCHANGED <<slot, faults, disk, locals, lost, runs>>

InsertCard ==
    /\ slot = NoCard
    /\ slot' \in Cards \cup {Foreign}
    /\ UNCHANGED <<link, faults, disk, pc, locals, exit, lost, runs>>

RemoveCard ==
    /\ slot # NoCard
    /\ slot' = NoCard
    /\ link' = Dead
    /\ UNCHANGED <<faults, disk, pc, locals, exit, lost, runs>>

ReadStep ==
    ConnectFails \/ Connect \/ Select \/ SelectFails \/ ReadField \/ ReadPart

FileStep == OpenPhoto \/ WritePhoto \/ OpenJson \/ WriteJson \/ FileFails

Next ==
    \/ \E photo, json \in BOOLEAN : Start(photo, json)
    \/ ReadStep \/ FileStep
    \/ Interrupt \/ InsertCard \/ RemoveCard

Spec == Init /\ [][Next]_vars

-----------------------------------------------------------------------------
TypeOK ==
    /\ slot \in Cards \cup {Foreign, NoCard}
    /\ link \in Cards \cup {Foreign, Dead}
    /\ faults \in 0 .. MaxFaults
    /\ photos \in Photos
    /\ jsons \in Jsons
    /\ pc \in {"off", "connect", "select", "field", "part",
               "open photo", "write photo", "open json", "write json"}
    /\ args \in Args
    /\ next \in 1 .. FieldCount \cup 1 .. PartCount
    /\ rec \in Fields
    /\ exit \in {"none", "success", "failure", "killed"}
    /\ lost \in {"nothing", "something"}
    /\ runs \in 0 .. MaxRuns

Written(file) == file \notin {None, Torn}

\* Whatever cards are swapped while one is read, a JSON file holds fields of one card
\* only, and of the card whose number it bears if it bears one.
FilesOfOneCard ==
    \A n \in Names :
        Written(jsons[n]) =>
            \E c \in Cards : n \in {c, NoCid} /\ \A f \in 1 .. FieldCount : jsons[n][f] \in {c, NoCid}

\* Status 0: the record that was read is saved if that was asked for, whatever an
\* earlier invocation left there; and it is all the card holds if no transmission was
\* lost.
SuccessSavesRecord ==
    exit = "success" =>
        /\ args.json => jsons[cid] = rec
        /\ lost = "nothing" => cid \in Cards /\ \A f \in 1 .. FieldCount : rec[f] = cid

\* read_improved.py:217, 219, 224, "--photo: save the photo of the card".  An
\* invocation that comes to writing the photo, and is not interrupted, has saved it.
PhotoIsSaved ==
    [][pc = "write photo" /\ pc' # pc /\ exit' # "killed" => Written(photos'[cid])]_vars

\* The number is not tested for being empty: files without a number are touched, but
\* only by an invocation that lost a transmission.
NumberlessFileMeansLoss ==
    [][photos'[NoCid] # photos[NoCid] \/ jsons'[NoCid] # jsons[NoCid] => lost = "something"]_vars
=============================================================================

# Verification of the Thai ID card reader

TLA+ models of `src/gui_reader.py`, the program that reads Thai ID cards one after
another and collects the people in a table, and of `src/read_improved.py`, the command
that reads one card and writes it to files. They are checked with TLC on small
instances and, where it matters most, proved with TLAPS for every instance.

## 1. The system

| Part | State | Operations | Behaviour that is hard to test |
|---|---|---|---|
| **Monitor thread** `monitor_card` | `reader`, `current_cid`, its locals | find a reader, connect, SELECT with retries, read the number, claim the card, read its fields, queue the record | races with the buttons; cards swapped at any moment; failed transmissions; a thread that must never die |
| **Reader search** `find_reader` | `reader`, `reader_status`, the label's colour | run by the monitor and by the button *refresh* | two threads in one function without a lock |
| **Event queue** (`root.after`) | callbacks in order | the event loop runs them, also inside a modal dialog | records and labels arrive between a question and its answer |
| **Record table** | `card_data_list`, rows of the Treeview, `data_count`, project and school | add, import, export, clear, details | two insertion paths; tests made before a dialog and used after it; an import that breaks off |
| **Card protocol** `get_data`, `read_card_data` | the connection, a dictionary | eight fields, one transmission each; a failure is an empty field | a card swapped or a fault between two fields; a default that hides one |
| **Parsers** `parse_name`, `parse_address` | locals, one of them not always bound | split what the card holds at runs of `#`, guess the parts | six layouts and two post-processing steps that build on each other; texts that cannot be split; what a file keeps of them |
| **Command line** `read_improved.py` | a dictionary, an output directory that outlives it | one pass over one card, a photo of twenty parts, a JSON file | lost fields with a good exit status, emptied files, an invocation over the files of another |
| **Dates** `format_date`, one in each program | – | cut eight digits into day, month and year | two programs that cut in two ways |
| `read.py` | a dictionary | the same pass, printed | no test of any status |
| Window layout, packaging, vendored SWIG | – | – | not part of the program's logic |

The parts meet in four places.

* **Callbacks.** The monitor never touches the table: it queues `add_card_to_table`
  and the label changes with `root.after`.
* **`current_cid`.** The monitor writes it when it claims a card and when the card is
  out; `clear_all_data` resets it from the main thread, without a lock.
* **`reader`.** Set by either thread in `find_reader`, reset by `refresh_reader`,
  used by the monitor some steps after it was tested.
* **The main thread itself.** A Tk call of the monitor thread is marshalled to the
  main thread and blocks until that is in an event loop. An import and the
  half second at the end of a refresh keep it out of one.

What makes each part correct: a card claimed is never lost; a card left in the
reader is read; a record comes from one card; the labels tell the truth; nobody is
listed twice; rows, list and counter agree; an import accounts for every row.

## 2. Modules

| Module | What it is |
|---|---|
| `CardRegistry` | abstract: an append-only list of people, one record per number, emptied only as a whole |
| `CardTable` | the record table with its dialogs, on the main thread |
| `CardMonitor` | the monitor thread, the callbacks and labels, refresh and close, and the world (card slot, connection, plug) |
| `GuiReader` | composes the two by `INSTANCE` over a shared `main` |
| `CardText` | `parse_name`, `parse_address`, and the columns of a record in a file, as operators |
| `ReadText` | any text a card may hold, built token by token, put through `CardText` |
| `CardFields` | extends `CardMonitor`: `read_card_data` in its eight transmissions, the record made by `CardText`; implements `CardMonitor` |
| `CliReader` | invocations of `read_improved.py` one after another, with the directory they write |
| `MCCardTable`, `MCCardMonitor`, `MCGuiReader`, `MCReadText`, `MCCardFields`, `MCCliReader` | small instances for TLC |
| `CardTableProofs`, `CardMonitorProofs`, `GuiReaderProofs`, `GuiArrivalProofs`, `CardFieldsProofs`, `CliReaderProofs`, `ReadTextProofs` | theorems |
| `CardTextProofs` | lemmas about the operators of `CardText`, for texts of any length |

Definitions named `Defect...` are deliberate bugs, each placed before the definition
it is an altered form of. No specification uses them; they show that the property
named with them in `PROJECT.json` notices such a bug.

### CardTable and the code

`cardDataList`, `tree`, `dataCount` are the attributes of those names. `project`
stands for both entries, project and school. `dialogs` is the stack of modal dialogs
that have not returned: a dialog runs an event loop of its own and takes the grab, so
buttons work only when the stack is empty (`Free`), while callbacks still run, may
open the duplicate warning on top, and the outer dialog returns only after the inner
one (`Asked` looks at the last). `imp` holds the locals of `import_from_csv`, `main =
"import"` says its loop is running and no callback can.

| Code | Definition |
|---|---|
| `add_card_to_table` 559-587 | `AddCard` = `AddNew` or `AddDuplicate` |
| `clear_all_data` 803-813 | `ClickClear`, then `AnswerYes` or `AnswerNo` |
| `import_from_csv` 589-734 | `ClickImport`; `ChooseFile` or `RefuseFile`; `ImportRow` (`ImportBad`, `ImportDuplicate`, `ImportNew`) once a row; `ImportDone` or `ImportFails` |
| `export_to_csv` 736-801 | `ClickExport`; `SaveFile`, `SaveFails` or `RefuseSave` |
| `view_details` 820-862 | `DetailOf`, `ClickDetailsOfNothing` |

The text of a record is one of three tokens: `"whole"` (nothing empty, name and address
split), `"raw"` (nothing empty, not split: only the full text is kept), `"blank"` (a field
is empty). The program itself has no such classes; they are what can be seen of a record
in the table and in the columns of the file. The answer "yes" is one step at line 808-812,
because nothing between those lines enters an event loop.

A failed export (`SaveFails`) may end at any byte: after whole rows, or inside one
(`CutRows`). A row cut inside its number is a row of nobody or, where the digits left
are another's number, of somebody else (`CutsOf`, a constant); cut behind the number it
has columns missing; cut inside a letter of UTF-8 it is `Garbled`, and an import of the
file will raise there.

### CardMonitor and the code

`mon` is the program counter of the thread; a step ends where another thread can see
a change or make one that matters (a read of `self.reader`, a write to `current_cid`,
a Tk call, a transmission). Sleeps are the points between steps. `link` is the card
the open connection talks to; it dies with the card or the reader, so a connection
never talks to a second card.

| Code | Definition |
|---|---|
| head of the loop 404-410 | `Poll` |
| `find_reader` 376-394 on this thread | `Enumerate`, `NameReader`, `ShowReader`, `PaintReader` |
| `createConnection`, `connect` 413-415 and the handlers 472-484 | `Connect`, `ConnectFindsNoCard` then `Absent`, `ConnectFails` |
| SELECT with `max_retries` 429-447 | `Select` |
| number, comparison 449-470 | `Identify`, `Claim` |
| `read_card_data` 495-557 | `Read` (`get_data` swallows every failure, so a failed read is a `"blank"` record) |
| `root.after(add_card_to_table)`, `update_card_status` | `Deliver`, `Say` |
| `refresh_reader` 815-818, on the main thread | `ClickRefresh`, `RefreshFinds`/`RefreshFindsNone`, `Settle` |
| callbacks | `RunPaint`, `RunStatus`, `RunAdd` |
| line 812 | `Forget` |
| `on_closing` 864-867 | `Close`, `MonitorStops` |

### GuiReader

Each action of a part is an action of the composition that leaves the other part
alone, except two that are joint: `RunAdd` (the callback is `add_card_to_table`) and
`AnswerYes` (clearing the table and forgetting the card). Buttons need an empty dialog
stack. `arrivals` is a history variable for one property: how often a person came, by
card, by a row imported, or by lying in the reader when the list was cleared.

`ImplementsTable` states that the table's part of the composition is a `CardTable`: with
`main` seen as an import or the loop (a refresh and the end are the loop going on), the
records that `CardTable` lets arrive at any time are those the monitor's queue delivers.
`ImplementsCardMonitor` states the same of the other part: to the monitor an import is the loop
held up, and the table reaches into it only to make it forget its card. `CardMonitor`'s
`Spec` is therefore the safety part; `FairSpec` adds the fairness its liveness needs.

### CardText, ReadText and the code

A text is a sequence of tokens: separators (`#`), blanks, and pieces of words. Pieces
next to each other are one word. Of a piece the code asks only whether it is the mark of a
subdistrict (*tambon*, *khwaeng*), which it searches for inside words too, and whether it
is four digits at the beginning; that is its `kind`. `strip`, the replacement of `#` by a
blank (`Spaced`, lines 91 and 261) and by nothing (`Glued`, 219-223, which makes one word of
two) are what they are in the code, and so are the two ways in which a full name is
joined: with a blank between the parts, empty or not (`Spread`, line 83), and of the parts
that are not empty (`Beside`, 668-684 and 229-241).

| Code | Definition |
|---|---|
| `parse_name` 65-99 | `ParseName` |
| `parse_address`, first line 111 | `DropYear` |
| `'###'`, `'##'`, `'#'` or none, 120-174 | `Divide` = `SplitAtThree`, `SplitAtTwo`, `SplitAtOne` or all to the rest |
| the rest shared out 177-189 | `ShareRest` |
| post-processing 193-209, 212-216 | `TakeMarked`, `TakeVillage` |
| `#` deleted 219-223, full address 229-250 | `Cleaned`, `Joined` |
| the handler 251-262 | `ParseAddress` |
| what the file has of them 779-794, and the import 648-698 | `NameColumns`, `AddressColumns`, `ImportedName`, `ImportedAddress` |

The branch of single separators binds no `rest`; the test of `rest` at 177 then raises
and the handler keeps the full text. `bound` says so. The operators were also compared
with the Python functions themselves, character by character, on 30378 texts (every short
one and the layouts of `MCReadText`), without a difference.

`ReadText` has one variable, the text, and one action, a token more; its properties say
what the parsers may do with any text: the documented forms come out as documented, no
piece of a word is invented, moved or used twice, whole words stay whole outside village and
subdistrict, parts fill from the subdistrict on, and a split record survives the file.
Three things do not hold and are not claimed. `h#a#b##x` has the village `ab`, a word the
card has not. A name whose title is empty has a blank in front of it in the table, and
none after export and import. And `#w#### ##`, with a blank between separators, comes out
with nothing at all: the village is then a separator, which counts as filled when the
house is post-processed, and is deleted after that.
(`AddressKeepsOrder`, `SplitTextSurvivesTheFile` and
`UnsplitAddressIsKept` say what is left.)

### CardFields and the code

`rec` holds, for each field, the card it came from (`NoCid`: empty), `next` the field to
be read. `ReadField` is one `get_data`. `Info` is the dictionary `card_info` that the
fields make, the texts of the cards (constants) put through `CardText`, with the gender
that turns female when nothing was read (528). `HasGap` and `DataOf` look at that
dictionary alone: whether something in it is empty, and so which of the tokens of
`CardTable` stands for it. Which transmission failed they do not know, as the program
does not. `lost` counts the faults used up since the read began:
with it, `CardFields` implements `CardMonitor`, in which they count when the read ends
(`Whole`, `faults <- faults + lost`).

### CliReader and the code

`pc` follows `main` and `read_thai_id_card`; each transmission and each file operation
is a step, since the card may go, the disk may fill and the user may press Ctrl-C before
any of them. `photos` and `jsons` are the files under each number; the empty number is a
name like any other (`.jpg`, `.json`), because the code does not test it. A file opened
for writing is `Torn` until it is written.

A photo is never written. pyscard's `HexListToBinString` (line 183) returns a `str` in
the versions `requirements.txt` admits (2.0.0 and later), the file is opened with `"wb"`,
and Python 3 raises a `TypeError` at line 186: `main` returns 1 before the JSON file, and
the photo file is empty. The library is not in the repository; the model rests on this one
fact about it. So `photos` is `None` or `Torn` for each number, and only an invocation
without `--photo` succeeds.

| Code | Definition |
|---|---|
| arguments 223-232 | `Start` |
| reader and connection 236-260 | `Connect`, `ConnectFails` |
| SELECT 97-105 (90 00 only) | `Select`, `SelectFails` |
| `get_data` 69-77, fields 113-165 | `GetData`, `ReadField` |
| photo 170-187 | `ReadPart`, `OpenPhoto`, `WritePhoto` (which raises) |
| `save_to_json` 199-207 | `OpenJson`, `WriteJson` |
| handlers 280-288 | `SelectFails`, `FileFails`, `Exit` |

`lost` is a history variable: whether a transmission of this invocation missed the card.

### What is external

Tk (grab, nested event loops, the order of `after` callbacks, marshalling from other
threads), PC/SC and the csv module are modelled from how the code uses them and marked
external in the map; so are the user's hands.

## 3. Runs

Bounds: `MaxDialogs` (depth of nested dialogs), `MaxEvents` (callbacks waiting),
`MaxFaults` (transmissions that fail with the card in place; pulling a card fails any
number of them). `MaxRetries = 3` is the code's own. `UserActs` names the buttons and
the plug the user reaches for in a run.

| Run | Instance | Shows |
|---|---|---|
| `Table` | 2 people, 5 files (repeated, nameless, unreadable rows, and whatever was exported or half exported), 2 dialogs | the table is the registry; no duplicates; rows lead to their person; tests made before a question still hold; imports add up |
| `TableBrokenFile` | the same | **violated**: the counter after a broken import |
| `TableExportRaw` | no files | **violated**: an unsplit name is missing in the file |
| `MonitorFields` | 2 cards (one whose texts cannot be split) + a foreign one, read field by field, 1 fault, the reader comes, goes and errs | `CardFields` implements `CardMonitor`; a record is of one card, and only a lost gender leaves nothing empty; the label of a reader that is plugged in; liveness: reader found, card read, removal noticed |
| `MonitorAllActs` | the cards of `MonitorFields`, read in one step, with refresh, clear, close | the card status and the claim agree; no mixed record |
| `MonitorRefreshRace` | refresh and plug | **violated**: `find_reader` on two threads |
| `GuiTwoCards` | 2 people by card and file, clear, close, plug | no claimed card lost, no duplicate, right counter |
| `GuiLive` | 1 person by card and file, clear, import, refresh | the card in the reader gets listed; warnings only for who returns; `GuiReader` implements `CardTable` and `CardMonitor` |
| `GuiReinsertion` | 1 card, no button | **violated**: an incomplete record cannot be replaced |
| `ReadText` | every text of up to 8 tokens, and 3072 addresses of eight fields | documented forms are split as documented; no piece of a word invented, moved or doubled; words whole where no separator is deleted; parts fill in order; split records survive the file |
| `CliReader` | 3 cards (one answers SELECT with 61 xx) + a foreign one, 3 fields, 2 photo parts, 3 invocations, 1 fault | files of one card; a success has saved what was read, and all of it without a loss; files without a number come of a loss |
| `CliPhoto` | the same cards, 1 invocation | **violated**: the photo is not saved |

The largest are `MonitorAllActs` (3.2 million states) and `GuiTwoCards` (3.1), each
within two minutes; `CliReader` has 449 thousand, `MonitorFields` 287 thousand with three
liveness properties, `ReadText` 112 thousand, `Table` 100 thousand.

Why the bounds are enough. Two people are needed to tell "the last one" from "one of
them" and to swap cards; a third adds no new relation to any test in the code, which
compare numbers pairwise. Two dialogs give a question with a warning above it; a third
is another warning. Two callbacks are what one poll queues (status, record; or record,
status), so a full queue and a queue with two polls' remains both occur; the third of
`MonitorFields` leaves room for a paint. One fault is enough for each single failed
transmission, and a fault in every transmission in a row is a pulled card. Symmetry is
used in `GuiTwoCards` only (its set of files is symmetric and it checks no liveness).
Eight tokens (`MaxTokens`) hold a name of four parts with a word more, `###`, `##`
and `#` each with words around them, and blanks or a mark beside them; the form with all
eight fields is longer and is among the texts to begin with. `CutsOf` gives one number
another one for what a cut leaves of it, and the other none: both cases of a cut row.
`FieldCount` and `PartCount` are 9 and 20 in the code; three fields are a first (the
number), a last and one between, two parts a first and a last, and the proofs hold for any. Three invocations (`MaxRuns`) let one work on the files
of two others. `CHECK_DEADLOCK` is off in `ReadText`, whose texts end at `MaxTokens`, and
in `CliReader` and `CliPhoto`, whose invocations end at `MaxRuns`; elsewhere it
is on: some user or poll step is always possible.

### Fairness

Weak fairness of the monitor thread and of the event loop: both are loops that sleep
and go on. Strong fairness of the monitor's Tk calls: they are enabled only while the
main thread is in its event loop, and the thread queue of Tcl serves a call it has
received, so one that is offered again and again is served. In the composition an
import goes on to its end, and (`AnswerDialog`) a user answers a dialog, without which
nothing nested below it returns. Nothing is asked of the user otherwise: not to insert,
remove, press or plug anything. `CardInReaderIsListed` assumes that the user stops
refreshing, since every refresh takes the reader from the monitor.

### Disagreements found

Five runs end in a counterexample; `PROJECT.json` quotes the line of the manual or the
code each contradicts.

| Run | At | What happens |
|---|---|---|
| `TableBrokenFile` | `gui_reader.py:733` | the counter stays behind an import that breaks off |
| `TableExportRaw` | `gui_reader.py:779` | a name that was not split is empty in the file |
| `MonitorRefreshRace` | `gui_reader.py:818` | two searches at once: a reader in use is shown as missing |
| `GuiReinsertion` | `gui_reader.py:562`, with `:50` | a record with empty fields cannot be replaced by the complete one |
| `CliPhoto` | `read_improved.py:186` | `--photo` ends with status 1 and an empty file |

Others were met while modelling; the models do what the code does, and no run is kept for
them.

* A gender that could not be read is female (`gui_reader.py:528`), in a record announced as
  read (`README_GUI.md:77`). `OnlyGenderHidesALoss` says that it is the only field a lost
  transmission does not leave empty.
* A reader that is unplugged after it was found stays green: the handler at
  `gui_reader.py:478` prints the error and goes on, where `README_GUI.md:71` has red for a
  reader that is not connected. `ReaderInUseIsShown` is about readers that are plugged in.
* An address with single separators is never split: its branch (`gui_reader.py:159-172`,
  whose comment says "split at #") leaves `rest` unbound, and the test at 177 raises.
  `UnsplitAddressIsKept` says that the full text is kept all the same.
* The two programs cut the same eight digits of a date in two ways: YYYYMMDD at
  `gui_reader.py:55-62`, DDMMYYYY at `read_improved.py:80-84`. The sample output of
  `README_TH.md` (78, 81-82: `01011990`, `01012020`, `01012025`) is DDMMYYYY; a card that
  holds its dates so has its birth date shown as `90/19/0101` in the window.
* The two programs differ on SELECT too: 61 xx is accepted at `gui_reader.py:440` and
  refused at `read_improved.py:100`. The repository does not say which is right.
* `read_improved.py` exits with 0 when fields were lost: `SuccessSavesRecord` says that
  what was read is saved, and that it is all the card holds if `lost = "nothing"`.
* A list cleared while the card in the reader is being read may be followed by that card's
  record and then by a duplicate warning: `arrivals` counts this as a second arrival. And
  after a clear with the card pulled at once, the status goes on asking to remove a card,
  because `current_cid` is already `None` when the removal is seen; `RemovalIsNoticed` is
  therefore checked without the clear button.
* The documented address is split right in its documented layout. Where a card has a lane
  or a road, parts may shift: with a road and no village, the road comes out as the
  subdistrict and the province is lost. `AddressKeepsOrder` and
  `PartsFillInOrder` are what holds in any layout.

## 4. Proofs

| Theorem | For every value of the constants |
|---|---|
| `CardTableProofs!TypeCorrect` | `TypeOK` |
| `CardTableProofs!NobodyTwice` | `NoDuplicateCid` |
| `CardTableProofs!DetailsAreThoseShown` | `DetailsMatchRow` |
| `CardTableProofs!TableImplementsRegistry` | `Registry!Spec` (refinement) |
| `CardTableProofs!OneAtATime` | `OneOperationAtATime` |
| `CardTableProofs!AskedListStays` | `AskedListIsNotEmpty` |
| `CardTableProofs!ImportAddsUp` | `ImportAccounts` |
| `CardTableProofs!ImportKeepsEverybody` | `ImportLosesNobody` |
| `CardTableProofs!CountIsNotAbove` | `CountNotAboveList` |
| `CardMonitorProofs!TypeCorrect` | `TypeOK` |
| `CardMonitorProofs!NoMixedRecord` | `OneCardPerRecord` |
| `CardMonitorProofs!StatusTellsClaim` | `CardStatusTellsClaim` |
| `CardMonitorProofs!ReaderIsShown` | `ReaderInUseIsShown`, if nobody refreshes |
| `GuiReaderProofs!NoClaimedCardIsLost` | `ClaimedCardIsKept` |
| `GuiReaderProofs!NobodyTwice` | `NoDuplicateCid`, in the composition |
| `GuiReaderProofs!TableIsCardTable` | `ImplementsTable` (refinement): `CardTable`'s properties hold in the composition |
| `GuiReaderProofs!MonitorIsCardMonitor` | `ImplementsCardMonitor` (refinement): `CardMonitor`'s properties hold in the composition |
| `GuiReaderProofs!CountIsRight` | `CountMatchesList`, if the files to begin with can be read to their ends and no export fails half way |
| `GuiReaderProofs!TypeCorrect` | `TypeOK` |
| `GuiReaderProofs!MonitorKeepsItsPromises` | `CardStatusTellsClaim` and `OneCardPerRecord`, in the composition |
| `GuiReaderProofs!TableKeepsItsPromises` | the six invariants of the table, in the composition |
| `GuiReaderProofs!ListIsRegistry` | `Registry!Spec` (refinement), in the composition |
| `GuiArrivalProofs!OnlyWhoReturnsIsWarnedOf` | `WarnsOnlyWhoReturns` |
| `CardFieldsProofs!FieldsTypeCorrect` | `FieldsTypeOK` |
| `CardFieldsProofs!FieldsAreOfOneCard` | `FieldsOfOneCard` |
| `CardFieldsProofs!OnlyGenderLost` | `OnlyGenderHidesALoss` |
| `CardFieldsProofs!FieldsImplementMonitor` | `ImplementsMonitor` (refinement) |
| `CliReaderProofs!TypeCorrect` | `TypeOK` |
| `CliReaderProofs!FilesAreOfOneCard` | `FilesOfOneCard` |
| `CliReaderProofs!SuccessSaves` | `SuccessSavesRecord` |
| `CliReaderProofs!NumberlessMeansLoss` | `NumberlessFileMeansLoss` |
| `ReadTextProofs!SplitTextSurvives` | `SplitTextSurvivesTheFile` |
| `ReadTextProofs!AddressFillsInOrder` | `PartsFillInOrder` |
| `ReadTextProofs!AddressOrder` | `AddressKeepsOrder` |
| `ReadTextProofs!WordsAreWhole` | `WordsStayWhole` |
| `ReadTextProofs!AddressKeepsText` | `UnsplitAddressIsKept` |
| `ReadTextProofs!FourPartNames` | `FourPartNameIsKept` |
| `ReadTextProofs!DocumentedNames` | `DocumentedNameIsSplit` |
| `ReadTextProofs!DocumentedAddresses` | `DocumentedAddressIsSplit` |

For `ReadText` "every value" means texts of any length. The theorems assume only the named
assumptions of the modules: the constants that stand for "none" differ from the others, files
are sequences of lines, the texts to begin with are sequences of tokens, bounds are numbers,
`CutsOf` names people, and `CardFields` takes it that a card whose every field was read
leaves nothing empty in the record, and that `Splits` are the cards whose texts are split.
Two theorems have hypotheses of their own, stated in the table; the runs
`MonitorRefreshRace` and `TableBrokenFile` show that they cannot be dropped.

The arguments:

* **Table.** All theorems rest on `ListSteps` (each step inserts one new person, empties
  the list, or leaves it alone), `DialogSteps` and `ImportSteps`. The refinement follows
  from `ListSteps` and `NobodyTwice`'s invariant. `DetailsMatchRow` is strengthened to
  "row *k* shows position *k* and the record there". `AskedListIsNotEmpty` alone is not
  inductive: it needs that an import or a clear cannot run under an open question, which
  is `OneOperationAtATime`. The import's properties need the list not to shrink while
  it runs, which holds because its loop enters no event loop.
* **Monitor.** `OneCardPerRecord` is strengthened to the phases before reading: from the
  moment the number is read, an open connection is to the card of that number.
  Insertion cannot break it, because it needs an empty slot and emptying the slot kills
  the connection. For the labels, `ComesLast` says what a label will show when the queue
  has run; posting puts a value last (`PostedLast`), running the oldest callback changes
  nothing in the end (`TakenFirst`). `StatusInv` then relates that coming text, not the
  shown one, to the claim in every phase, and `ReaderInv` the coming colour to `reader`.
* **Field by field.** `CardFields`' invariant says that between reads nothing is lost
  (`Idle`), that each field read is the claimed card's or empty (`ReadFromOne`), that a
  loss shows (`LossShows`): if a fault was used up, a field before `next` is empty, if two
  were, one besides the gender is, and if none was and the card is still there, none is;
  and that `data` is what the record amounts to (`DataIsOfRecord`). `GapShows` takes this
  from the fields to the dictionary: a record has a gap exactly where a field other than
  the gender is empty, since the parsers make nothing out of nothing (`NoText`). That is
  `OnlyGenderHidesALoss`, and it makes the eighth field a step of `CardMonitor`'s `Read`;
  `Idle` makes every other step one of the same name.
* **Command line.** `Stages` says what each value of `pc` has read already; `OneCard`
  that number and fields are of the connection's card or empty; `NothingLost` that without
  a loss every field passed is the card's; `Saved` that a success has replaced whatever was
  under its number by its record, which no later step of the invocation touches.
* **Texts.** The operators over texts are functions built prefix by prefix, so what they do
  with one token more is a lemma (`WithoutOfAppended`, `PiecesStep`), and what they do with a
  text is an induction. The library's induction theorems take an operator and cannot be
  used; `SetInduction` and `SeqInduction` state induction for a set of numbers or of
  sequences instead, from the theorem that a well-founded set has minimal elements.
  `AddressKeepsOrder` is carried through the stages of the parser: which pieces a text
  holds, and in which order (`Holds`, `HoldsInOrder`), is kept when the address is divided
  (`Divided`), its rest shared out (`Shared`) and its parts post-processed (`Parted`), and
  deleting blanks and separators (`Core`) is the same before and after two texts are
  joined. `WordsStayWhole` follows the words instead: a text cut at a separator or a blank
  has words of the whole (`WordsMeet`, `WordPart`), and house, district and province are
  cut nowhere else and have no separator left to delete (`Unbroken`). Where blanks come
  and go at the ends of parts, the words stay (`GapBetween`, `StripKeepsWords`).
  `UnsplitAddressIsKept` needs that no stage makes a part of separators alone
  (`VillageHasWord`), which blanks beside separators would allow (`Neat`): such a part would
  count as filled and come out empty. The documented forms are read from the end: a text of *n* pieces is one of *n* - 1 pieces, a separator and
  a piece (`LastPiece`, `TakeOffLast`); the eight pieces are regrouped as the form is
  written (`EightPieces`), and `DividedAt` says that a run of separators is found where it
  stands, since there is none as long before it. For the survival in a file, a record
  either has no part or its full text joins its parts, by cases on the result.
* **Composition.** `ClaimedCardIsKept` is nearly inductive; it needs that the queue is a
  sequence. Its three disjuncts hand the card over: `Claim` starts *Reading*, `Deliver`
  turns it into *Waiting*, `RunAdd` into *Listed* (as new, or because it is there), and
  only `AnswerYes` shrinks the list, which also forgets the claim.

* **Composition of the parts' proofs.** Each part's theorems hold in the composition because
  it implements both parts: the proofs of `CardMonitor` and `CardTable` are instantiated with
  the view the refinement gives (`MonitorKeepsItsPromises`, `TableKeepsItsPromises`,
  `ListIsRegistry`), and so is the composition's `TypeOK`.
* **Warnings.** `WarnsOnlyWhoReturns` needs to know, for every person, how often they can be
  under way for the arrivals counted so far. `Road(c)` is the set of places at which a person
  can be met: in the list, at each place of the queue, being read, about to be claimed.
  `CameAsOften` says that one place needs one arrival, and two places need two; each step
  maps the places after it into those before it, one to one, or counts an arrival. A
  duplicate is met at two places: the head of the queue and the list.

`NoDuplicateCid` of the composition follows from its own `ListSteps`; `CountMatchesList`
is strengthened by what an import under way still has to read, and by what an export
that does not fail writes being readable. `TableIsCardTable` needs one invariant, `RecordsInv`: the card
being claimed or read is one of `Cards`, so what waits in the queue is a record, and
`RunAdd` is `CardTable`'s `AddCard`. Every other step either is one of `CardTable`'s own
or leaves its variables alone and neither begins nor ends an import.

Only model-checked is what needs fairness: `ReaderIsFound`, `InsertedCardIsRead`,
`RemovalIsNoticed` and `CardInReaderIsListed`, since TLAPS cannot reason about `ENABLED`.
Every invariant and every other action property that a passing run checks has a theorem.

## 5. Not modelled

* The bytes of texts (tokens instead), `format_date`, and the request code chosen by the
  ATR: data that no step looks at.
* Geometry, fonts, and the detail window, which only shows a record.
* `read.py`: a straight line without tests or files to outlive it but the photo;
  `CliReader` has the same sequence, and its mutant `DefectSelect` is `read.py`'s way with
  the status of SELECT.
* Packaging scripts.
* `src/swigwin-4.0.1`, a third-party code generator with its tests and examples, vendored
  to build a dependency on Windows. It is all of the repository's C and C++ and nothing
  the program calls; the program is the Python files, most of whose lines the map names.

## 6. Plan

What is left is `GuiReader` over `CardFields` instead of `CardMonitor`, to check liveness with
real records; the refinements proved here say that nothing new can happen to safety.

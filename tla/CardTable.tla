----------------------------- MODULE CardTable ------------------------------
(***************************************************************************)
(* The record table of gui_reader.py: the list of the people read so far,  *)
(* the rows of the Treeview, the counter on the status bar, and the        *)
(* operations that work on them (add, import, export, clear, details).     *)
(*                                                                         *)
(* Everything here runs on the main thread.  A modal dialog runs an event  *)
(* loop of its own: while it is open the user reaches no button, but the   *)
(* callbacks the monitor thread queued with root.after still run, so a     *)
(* card can be added between the question of a dialog and its answer.      *)
(* Dialogs opened by such a callback nest, and return last in first out.   *)
(* An import runs its loop with no event loop at all.                      *)
(***************************************************************************)
EXTENDS Naturals, Sequences

CONSTANTS
    Cids,       \* citizen numbers, and whatever else a file gives for one
    NoCid,      \* the empty or missing number of a bad CSV row
    CutsOf,     \* of each number, what a row cut inside it may leave of it
    Projects,   \* texts of the project and school entries, whole or cut
    NoProject,  \* an empty entry
    Files,      \* contents of the CSV files the user may pick (sequences of rows)
    NoFile,     \* no file has been exported yet
    UserActs,   \* what the user may do in this instance
    MaxDialogs  \* bound: how deep modal dialogs nest

\* What a record holds beyond its number.  "whole": every field was read, name
\* and address are split in their parts.  "raw": every field was read, but the
\* name or the address could not be split and only its full text is kept.
\* "blank": a field is missing.
Data == {"whole", "raw", "blank"}

Record == [cid : Cids, data : Data]

\* A CSV row has columns for the parts only, so it is never "raw".
CsvRow == [cid : Cids \cup {NoCid}, data : {"whole", "blank"},
           project : Projects \cup {NoProject}]

\* A row the csv module cannot read (a bad byte, a NUL): its iterator raises.
Garbled == [garbled |-> TRUE]

CsvLine == CsvRow \cup {Garbled}

ASSUME NoCidAssumption == NoCid \notin Cids
ASSUME NoProjectAssumption == NoProject \notin Projects
ASSUME CutsAssumption == CutsOf \in [Cids -> SUBSET Cids]
ASSUME FilesAssumption == /\ Files \subseteq Seq(CsvLine)
                          /\ NoFile \notin Seq(CsvLine)
ASSUME MaxDialogsAssumption == MaxDialogs \in Nat \ {0}

VARIABLES
    cardDataList,   \* self.card_data_list
    tree,           \* the rows of self.tree: position shown, number, data
    dataCount,      \* self.data_count
    project,        \* self.project_name and self.school_name
    dialogs,        \* modal dialogs that have not returned, outermost first
    main,           \* what the main thread is doing
    imp,            \* locals of import_from_csv while it runs
    file            \* the last file exported, as far as it was written

vars == <<cardDataList, tree, dataCount, project, dialogs, main, imp, file>>

-----------------------------------------------------------------------------
\* "loop": in an event loop, its own or a dialog's.  "import": in the loop of
\* import_from_csv.  The others are the steps of refresh_reader (CardMonitor)
\* and the end of the program.
MainPhases == {"loop", "import", "enumerate", "settle", "closed"}

Questions == {"open_file", "save_file", "confirm_clear"}
Notices == {"duplicate", "info", "error"}

\* The locals of import_from_csv when it has opened a file of these rows, with
\* the list at length n.
Opened(rows, n) == [rows |-> rows, done |-> 0, before |-> n,
                    imported |-> 0, duplicate |-> 0, error |-> 0]

NoImport == Opened(<< >>, 0)

ImportState == [rows : Seq(CsvLine), done : Nat, before : Nat,
                imported : Nat, duplicate : Nat, error : Nat]

Row == [no : Nat, cid : Cids, data : Data]

NumbersIn(records) == {records[i].cid : i \in DOMAIN records}

\* Defect: dialogs that do not hold the grab, so that buttons stay in reach.
DefectModelessDialogs == main = "loop"

\* The user can reach the buttons and entries: no dialog holds the grab.
Free == main = "loop" /\ dialogs = << >>

\* The innermost dialog, the one the user answers.
Asked(d) == main = "loop" /\ dialogs # << >> /\ dialogs[Len(dialogs)] = d

Push(d) == dialogs' = Append(dialogs, d)
Pop == dialogs' = SubSeq(dialogs, 1, Len(dialogs) - 1)
ReplaceBy(d) == dialogs' = [dialogs EXCEPT ![Len(dialogs)] = d]

table == <<cardDataList, tree, dataCount>>

-----------------------------------------------------------------------------
Init ==
    /\ cardDataList = << >>
    /\ tree = << >>
    /\ dataCount = 0
    /\ project = NoProject
    /\ dialogs = << >>
    /\ main = "loop"
    /\ imp = NoImport
    /\ file = NoFile

\* Append the record, then show it in a row that carries its position.
Insert(r) ==
    /\ cardDataList' = Append(cardDataList, r)
    /\ tree' = Append(tree, [no |-> Len(cardDataList) + 1,
                             cid |-> r.cid, data |-> r.data])

\* Defect: only the last record is compared with the new one.
DefectComparesLast(r) ==
    /\ cardDataList # << >> => cardDataList[Len(cardDataList)].cid # r.cid
    /\ Insert(r)
    /\ dataCount' = Len(cardDataList) + 1
    /\ UNCHANGED dialogs

\* add_card_to_table, run by the event loop for a card the monitor has read.
AddNew(r) ==
    /\ r.cid \notin NumbersIn(cardDataList)
    /\ Insert(r)
    /\ dataCount' = Len(cardDataList) + 1
    /\ UNCHANGED dialogs

AddDuplicate(r) ==
    /\ r.cid \in NumbersIn(cardDataList)
    /\ Len(dialogs) < MaxDialogs
    /\ Push("duplicate")
    /\ UNCHANGED table

AddCard(r) ==
    /\ main = "loop"
    /\ AddNew(r) \/ AddDuplicate(r)
    /\ UNCHANGED <<project, main, imp, file>>

-----------------------------------------------------------------------------
\* clear_all_data: the list is tested before the question, emptied after it.
ClickClear ==
    /\ "clear" \in UserActs
    /\ Free
    /\ cardDataList # << >>
    /\ Push("confirm_clear")
    /\ UNCHANGED <<table, project, main, imp, file>>

\* Defects: the rows, or the counter, are forgotten when the list is cleared.
DefectKeepsRows ==
    /\ Asked("confirm_clear")
    /\ cardDataList' = << >>
    /\ dataCount' = 0
    /\ ReplaceBy("info")
    /\ UNCHANGED <<tree, project, main, imp, file>>

DefectKeepsCount ==
    /\ Asked("confirm_clear")
    /\ cardDataList' = << >>
    /\ tree' = << >>
    /\ ReplaceBy("info")
    /\ UNCHANGED <<dataCount, project, main, imp, file>>

AnswerYes ==
    /\ Asked("confirm_clear")
    /\ cardDataList' = << >>
    /\ tree' = << >>
    /\ dataCount' = 0
    /\ ReplaceBy("info")
    /\ UNCHANGED <<project, main, imp, file>>

AnswerNo ==
    /\ Asked("confirm_clear")
    /\ Pop
    /\ UNCHANGED <<table, project, main, imp, file>>

-----------------------------------------------------------------------------
\* import_from_csv, up to the file dialog.
ClickImport ==
    /\ "import" \in UserActs
    /\ Free
    /\ Push("open_file")
    /\ UNCHANGED <<table, project, main, imp, file>>

\* The user picks a file of this program (any file, or the last one exported).
ChooseFile ==
    /\ Asked("open_file")
    /\ \E rows \in Files \cup ({file} \ {NoFile}) :
          imp' = Opened(rows, Len(cardDataList))
    /\ Pop
    /\ main' = "import"
    /\ UNCHANGED <<table, project, file>>

\* The user cancels, or the file cannot be opened or lacks the columns.
RefuseFile ==
    /\ Asked("open_file")
    /\ Pop \/ ReplaceBy("error")
    /\ UNCHANGED <<table, project, main, imp, file>>

\* One row of the file.  The first one sets project and school.
TakeProject(row) ==
    project' = IF imp.done = 0 /\ row.project # NoProject
               THEN row.project ELSE project

\* The row is done, as one imported, one duplicate or one error.
Count(i, d, e) ==
    imp' = [rows |-> imp.rows, done |-> imp.done + 1, before |-> imp.before,
            imported |-> imp.imported + i, duplicate |-> imp.duplicate + d,
            error |-> imp.error + e]

\* Defect: a row without a name counts as an error too.
DefectRefusesUnnamed(row) ==
    /\ row.cid = NoCid \/ row.data = "blank"
    /\ Count(0, 0, 1)
    /\ UNCHANGED <<cardDataList, tree>>

ImportBad(row) ==
    /\ row.cid = NoCid
    /\ Count(0, 0, 1)
    /\ UNCHANGED <<cardDataList, tree>>

\* Defect: a duplicate is skipped and not counted.
DefectSkipsSilently(row) ==
    /\ row.cid \in NumbersIn(cardDataList)
    /\ Count(0, 0, 0)
    /\ UNCHANGED <<cardDataList, tree>>

ImportDuplicate(row) ==
    /\ row.cid \in NumbersIn(cardDataList)
    /\ Count(0, 1, 0)
    /\ UNCHANGED <<cardDataList, tree>>

\* Defect: the rows of the file are taken to differ.
DefectImportsAll(row) ==
    /\ row.cid # NoCid
    /\ Insert([cid |-> row.cid, data |-> row.data])
    /\ Count(1, 0, 0)

ImportNew(row) ==
    /\ row.cid \notin NumbersIn(cardDataList) \cup {NoCid}
    /\ Insert([cid |-> row.cid, data |-> row.data])
    /\ Count(1, 0, 0)

ImportRow ==
    /\ main = "import"
    /\ imp.done < Len(imp.rows)
    /\ LET row == imp.rows[imp.done + 1]
       IN  /\ row # Garbled
           /\ TakeProject(row)
           /\ ImportBad(row) \/ ImportDuplicate(row) \/ ImportNew(row)
    /\ UNCHANGED <<dataCount, dialogs, main, file>>

\* Defect: the list is rolled back on failure, the rest is not.
DefectRollsBack ==
    /\ main = "import"
    /\ imp.done < Len(imp.rows)
    /\ imp.rows[imp.done + 1] = Garbled
    /\ cardDataList' = SubSeq(cardDataList, 1, imp.before)
    /\ imp' = NoImport
    /\ Push("error")
    /\ main' = "loop"
    /\ UNCHANGED <<tree, dataCount, project, file>>

\* The iterator raises: the error is shown, the rows taken so far stay, and the
\* assignment of the counter is skipped.
ImportFails ==
    /\ main = "import"
    /\ imp.done < Len(imp.rows)
    /\ imp.rows[imp.done + 1] = Garbled
    /\ imp' = NoImport
    /\ Push("error")
    /\ main' = "loop"
    /\ UNCHANGED <<table, project, file>>

\* Defect: the counter is left to add_card_to_table.
DefectDoesNotCount ==
    /\ main = "import"
    /\ imp.done = Len(imp.rows)
    /\ imp' = NoImport
    /\ Push("info")
    /\ main' = "loop"
    /\ UNCHANGED <<table, project, file>>

ImportDone ==
    /\ main = "import"
    /\ imp.done = Len(imp.rows)
    /\ dataCount' = Len(cardDataList)
    /\ imp' = NoImport
    /\ Push("info")
    /\ main' = "loop"
    /\ UNCHANGED <<cardDataList, tree, project, file>>

-----------------------------------------------------------------------------
\* Defect: the full name is put in the columns of its parts.
DefectWritesRaw(r) == [cid |-> r.cid, data |-> r.data, project |-> project]

\* The row written for a record: the full name and the full address have no
\* column, so a record that kept only these is written with empty cells.
CsvOf(r) == [cid |-> r.cid,
             data |-> IF r.data = "whole" THEN "whole" ELSE "blank",
             project |-> project]

CsvOfList == [i \in DOMAIN cardDataList |-> CsvOf(cardDataList[i])]

\* Defect: the dialog opens whether or not there is anything to save.
DefectSavesNothing ==
    /\ "export" \in UserActs
    /\ Free
    /\ Push("save_file")
    /\ UNCHANGED <<table, project, main, imp, file>>

\* export_to_csv: the list is tested before the dialog, written after it.
ClickExport ==
    /\ "export" \in UserActs
    /\ Free
    /\ Push(IF cardDataList = << >> THEN "info" ELSE "save_file")
    /\ UNCHANGED <<table, project, main, imp, file>>

SaveFile ==
    /\ Asked("save_file")
    /\ file' = CsvOfList
    /\ ReplaceBy("info")
    /\ UNCHANGED <<table, project, main, imp>>

\* What a row cut at some byte is when it is read again: a letter cut in two breaks the
\* reader; before the number has begun there is none; the number may be a part of
\* itself; the columns after it may be missing, or just the end of the last.
CutRows(r) ==
    {Garbled}
    \cup [cid : {NoCid} \cup CutsOf[r.cid], data : {"blank"}, project : Projects \cup {NoProject}]
    \cup [cid : {r.cid}, data : {"blank", CsvOf(r).data}, project : {project}]

\* Opened for writing, hence truncated, and then the disk fails: so many rows are
\* written, and the next one perhaps in part.
SaveFails ==
    /\ Asked("save_file")
    /\ \E n \in 0 .. Len(cardDataList) - 1 :
          LET rows == SubSeq(CsvOfList, 1, n)
          IN  \/ file' = rows
              \/ \E row \in CutRows(cardDataList[n + 1]) : file' = Append(rows, row)
    /\ ReplaceBy("error")
    /\ UNCHANGED <<table, project, main, imp>>

\* The user cancels, or the file cannot be opened.
RefuseSave ==
    /\ Asked("save_file")
    /\ Pop \/ ReplaceBy("error")
    /\ UNCHANGED <<table, project, main, imp, file>>

-----------------------------------------------------------------------------
\* view_details finds the record by the position the selected row shows.
DetailOf(row) == cardDataList[row.no]

\* view_details with no row selected.
ClickDetailsOfNothing ==
    /\ "details" \in UserActs
    /\ Free
    /\ Push("info")
    /\ UNCHANGED <<table, project, main, imp, file>>

EditProject ==
    /\ "edit" \in UserActs
    /\ Free
    /\ project' \in Projects \cup {NoProject}
    /\ UNCHANGED <<table, dialogs, main, imp, file>>

CloseNotice ==
    /\ \E n \in Notices : Asked(n)
    /\ Pop
    /\ UNCHANGED <<table, project, main, imp, file>>

\* What the user does, and what import_from_csv does once it has its file.
UserStep ==
    \/ ClickClear \/ AnswerNo
    \/ ClickImport \/ ChooseFile \/ RefuseFile
    \/ ClickExport \/ SaveFile \/ SaveFails \/ RefuseSave
    \/ ClickDetailsOfNothing \/ EditProject \/ CloseNotice

ImportStep == ImportRow \/ ImportFails \/ ImportDone

Next ==
    \/ \E r \in Record : AddCard(r)
    \/ AnswerYes
    \/ UserStep
    \/ ImportStep

Spec == Init /\ [][Next]_vars

-----------------------------------------------------------------------------
TypeOK ==
    /\ cardDataList \in Seq(Record)
    /\ tree \in Seq(Row)
    /\ dataCount \in Nat
    /\ project \in Projects \cup {NoProject}
    /\ dialogs \in Seq(Questions \cup Notices)
    /\ main \in MainPhases
    /\ imp \in ImportState
    /\ file \in Seq(CsvLine) \cup {NoFile}

\* A citizen number is in the list at most once, although two operations insert
\* with a test of their own and cards arrive while dialogs are open.
NoDuplicateCid ==
    \A i, j \in DOMAIN cardDataList :
        cardDataList[i].cid = cardDataList[j].cid => i = j

\* Everybody in the list has a row, and view_details on any row finds the person
\* that row shows: positions stay right through adds, imports and clears.
DetailsMatchRow ==
    /\ Len(tree) = Len(cardDataList)
    /\ \A k \in DOMAIN tree :
        /\ tree[k].no \in DOMAIN cardDataList
        /\ DetailOf(tree[k]).cid = tree[k].cid
        /\ DetailOf(tree[k]).data = tree[k].data

\* What was tested before a question still holds when the answer is acted on:
\* an export writes at least one person, a clear has something to clear.
AskedListIsNotEmpty ==
    \A i \in DOMAIN dialogs :
        dialogs[i] \in {"save_file", "confirm_clear"} => cardDataList # << >>

\* A dialog that goes on to change state when answered was opened from a button:
\* it is outermost, so no two of them are ever under way together, and none
\* while an import runs.
OneOperationAtATime ==
    /\ \A i \in DOMAIN dialogs : dialogs[i] \in Questions => i = 1
    /\ main = "import" => dialogs = << >>

\* The summary of an import accounts for every row it took: each is imported,
\* duplicate or in error, and the list grew by those imported.
ImportAccounts ==
    main = "import" =>
        /\ imp.done = imp.imported + imp.duplicate + imp.error
        /\ Len(cardDataList) = imp.before + imp.imported

\* No row that names a person is lost: each row the import has passed is in the
\* list, put there by this import or found there.
ImportLosesNobody ==
    main = "import" =>
        \A i \in 1 .. imp.done :
            imp.rows[i].cid \in NumbersIn(cardDataList) \cup {NoCid}

\* The status bar never counts people who are not there.
CountNotAboveList == dataCount <= Len(cardDataList)

\* README_GUI.md:20, 131: the status bar shows the number of people read.
CountMatchesList == main = "loop" => dataCount = Len(cardDataList)

\* README_GUI.md:83-84: the file holds all the data, with name and address: a
\* person whose record is not blank does not become blank in the file.
ExportKeepsNames ==
    [][\A i \in DOMAIN cardDataList :
          (Asked("save_file") /\ file' = CsvOfList /\ cardDataList[i].data # "blank")
              => file'[i].data # "blank"]_vars

Registry == INSTANCE CardRegistry WITH Records <- Record, registry <- cardDataList

\* The table is the registry: people are appended once and stay, in their place,
\* until the user clears everything.
ImplementsRegistry == Registry!Spec
=============================================================================

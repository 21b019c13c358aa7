--------------------------- MODULE CardTableProofs --------------------------
(***************************************************************************)
(* Proofs about CardTable, for any set of people, any files and any depth  *)
(* of dialogs.                                                             *)
(***************************************************************************)
EXTENDS CardTable, SequenceTheorems, TLAPS

-----------------------------------------------------------------------------
(* Types. *)

\* What the three ways of changing the stack of dialogs leave of it.
LEMMA StackTypes ==
  ASSUME NEW S, NEW s \in Seq(S), NEW d \in S
  PROVE  /\ Append(s, d) \in Seq(S)
         /\ s # << >> => SubSeq(s, 1, Len(s) - 1) \in Seq(S)
         /\ s # << >> => [s EXCEPT ![Len(s)] = d] \in Seq(S)
<1>1. Append(s, d) \in Seq(S)
  BY AppendProperties
<1>2. ASSUME s # << >> PROVE SubSeq(s, 1, Len(s) - 1) \in Seq(S)
  BY <1>2, SubSeqProperties, LenProperties, EmptySeq
<1>3. ASSUME s # << >> PROVE [s EXCEPT ![Len(s)] = d] \in Seq(S)
  BY <1>3, ExceptSeq, EmptySeq, LenProperties
<1> QED
  BY <1>1, <1>2, <1>3

\* Insert, which add_card_to_table and import_from_csv share, keeps the types of
\* the list and of the rows.
LEMMA InsertTypes ==
  ASSUME TypeOK, NEW r \in Record, Insert(r)
  PROVE  /\ cardDataList' \in Seq(Record)
         /\ tree' \in Seq(Row)
         /\ Len(cardDataList') = Len(cardDataList) + 1
<1>1. [no |-> Len(cardDataList) + 1, cid |-> r.cid, data |-> r.data] \in Row
  BY LenProperties DEF TypeOK, Record, Row
<1> QED
  BY <1>1, AppendProperties DEF TypeOK, Insert

\* The three operations on dialogs keep the stack well typed.
LEMMA DialogTypes ==
  ASSUME TypeOK, NEW d \in Questions \cup Notices
  PROVE  /\ Push(d) => dialogs' \in Seq(Questions \cup Notices)
         /\ dialogs # << >> /\ Pop => dialogs' \in Seq(Questions \cup Notices)
         /\ dialogs # << >> /\ ReplaceBy(d) => dialogs' \in Seq(Questions \cup Notices)
<1> DEFINE Frames == Questions \cup Notices
<1>1. dialogs \in Seq(Frames)
  BY DEF TypeOK
<1> HIDE DEF Frames
<1>2. d \in Frames
  BY DEF Frames
<1>3. /\ Append(dialogs, d) \in Seq(Frames)
      /\ dialogs # << >> => SubSeq(dialogs, 1, Len(dialogs) - 1) \in Seq(Frames)
      /\ dialogs # << >> => [dialogs EXCEPT ![Len(dialogs)] = d] \in Seq(Frames)
  BY <1>1, <1>2, StackTypes
<1> QED
  BY <1>3 DEF Push, Pop, ReplaceBy, Frames

-----------------------------------------------------------------------------
(* Type correctness. *)

\* What an export writes, whole or cut short, is a sequence of CSV rows.
LEMMA CsvTypes ==
  ASSUME TypeOK
  PROVE  /\ CsvOfList \in Seq(CsvRow)
         /\ Len(CsvOfList) = Len(cardDataList)
         /\ \A n \in 0 .. Len(cardDataList) - 1 : SubSeq(CsvOfList, 1, n) \in Seq(CsvRow)
<1>1. DOMAIN cardDataList = 1 .. Len(cardDataList) /\ Len(cardDataList) \in Nat
  BY LenProperties DEF TypeOK
<1>2. ASSUME NEW i \in DOMAIN cardDataList
      PROVE  CsvOf(cardDataList[i]) \in CsvRow
  <2>1. cardDataList[i] \in Record
    BY <1>1, ElementOfSeq DEF TypeOK
  <2>2. cardDataList[i].cid \in Cids
    BY <2>1 DEF Record
  <2>3. project \in Projects \cup {NoProject}
    BY DEF TypeOK
  <2> QED
    BY <2>2, <2>3 DEF CsvOf, CsvRow
<1>3. CsvOfList \in [1 .. Len(cardDataList) -> CsvRow]
  BY <1>1, <1>2 DEF CsvOfList
<1>4. CsvOfList \in Seq(CsvRow) /\ Len(CsvOfList) = Len(cardDataList)
  BY <1>1, <1>3, SeqDef, LenProperties
<1>5. ASSUME NEW n \in 0 .. Len(cardDataList) - 1
      PROVE  SubSeq(CsvOfList, 1, n) \in Seq(CsvRow)
  BY <1>1, <1>4, <1>5, SubSeqProperties, LenProperties
<1> QED
  BY <1>4, <1>5

\* A row that was cut is a row all the same, or one the csv module cannot read.
LEMMA CutRowTypes ==
  ASSUME TypeOK, NEW r \in Record
  PROVE  CutRows(r) \subseteq CsvLine
<1>1. r.cid \in Cids /\ CutsOf[r.cid] \subseteq Cids
  BY CutsAssumption DEF Record
<1>2. CsvOf(r).data \in {"whole", "blank"}
  BY DEF CsvOf
<1>3. project \in Projects \cup {NoProject}
  BY DEF TypeOK
<1>4. [cid : {r.cid}, data : {"blank", CsvOf(r).data}, project : {project}] \subseteq CsvRow
  BY <1>1, <1>2, <1>3 DEF CsvRow
<1>5. [cid : {NoCid} \cup CutsOf[r.cid], data : {"blank"}, project : Projects \cup {NoProject}]
        \subseteq CsvRow
  BY <1>1 DEF CsvRow
<1> QED
  BY <1>4, <1>5 DEF CutRows, CsvLine

\* What an export writes, whole or cut short, may be imported.
LEMMA ExportTypes ==
  ASSUME TypeOK
  PROVE  /\ SaveFile => file' \in Seq(CsvLine)
         /\ SaveFails => file' \in Seq(CsvLine)
<1>1. \A rows \in Seq(CsvRow) : rows \in Seq(CsvLine)
  BY SeqMonotonic DEF CsvLine
<1>2. SaveFile => file' \in Seq(CsvLine)
  BY <1>1, CsvTypes DEF SaveFile
<1>3. ASSUME SaveFails PROVE file' \in Seq(CsvLine)
  <2>1. PICK n \in 0 .. Len(cardDataList) - 1 :
          \/ file' = SubSeq(CsvOfList, 1, n)
          \/ \E row \in CutRows(cardDataList[n + 1]) :
                file' = Append(SubSeq(CsvOfList, 1, n), row)
    BY <1>3 DEF SaveFails
  <2>2. SubSeq(CsvOfList, 1, n) \in Seq(CsvLine)
    BY <1>1, CsvTypes
  <2>3. cardDataList[n + 1] \in Record
    <3>1. Len(cardDataList) \in Nat /\ cardDataList \in Seq(Record)
      BY LenProperties DEF TypeOK
    <3>2. n + 1 \in 1 .. Len(cardDataList)
      BY <3>1
    <3> QED
      BY <3>1, <3>2, ElementOfSeq
  <2>4. CutRows(cardDataList[n + 1]) \subseteq CsvLine
    BY <2>3, CutRowTypes
  <2>5. \A row \in CsvLine : Append(SubSeq(CsvOfList, 1, n), row) \in Seq(CsvLine)
    BY <2>2, AppendProperties
  <2> QED
    BY <2>1, <2>2, <2>4, <2>5
<1> QED
  BY <1>2, <1>3

\* The locals of import_from_csv when a file is chosen.
LEMMA ChosenFileTypes ==
  ASSUME TypeOK, NEW rows \in Files \cup ({file} \ {NoFile})
  PROVE  Opened(rows, Len(cardDataList)) \in ImportState
<1>1. rows \in Seq(CsvLine)
  <2>1. CASE rows \in Files
    BY <2>1, FilesAssumption
  <2>2. CASE rows \in {file} \ {NoFile}
    BY <2>2 DEF TypeOK
  <2> QED
    BY <2>1, <2>2
<1> QED
  BY <1>1, LenProperties DEF TypeOK, Opened, ImportState

\* The row import_from_csv is about to take is one the csv module could read.
LEMMA NextRowTypes ==
  ASSUME TypeOK, imp.done < Len(imp.rows), imp.rows[imp.done + 1] # Garbled
  PROVE  imp.rows[imp.done + 1] \in CsvRow
<1>1. imp.rows \in Seq(CsvLine) /\ imp.done \in Nat
  BY DEF TypeOK, ImportState
<1>2. imp.done + 1 \in 1 .. Len(imp.rows)
  BY <1>1, LenProperties
<1>3. imp.rows[imp.done + 1] \in CsvLine
  BY <1>1, <1>2, ElementOfSeq
<1> QED
  BY <1>3 DEF CsvLine

\* The import takes one row.
LEMMA ImportRowTypes ==
  ASSUME TypeOK, ImportRow
  PROVE  TypeOK'
<1> DEFINE row == imp.rows[imp.done + 1]
<1>1. row \in CsvRow
  BY NextRowTypes DEF ImportRow
<1>2. project' \in Projects \cup {NoProject}
  BY <1>1 DEF ImportRow, TakeProject, TypeOK, CsvRow
<1>3. CASE ImportBad(row) \/ ImportDuplicate(row)
  <2>1. imp' \in ImportState
    BY <1>3 DEF ImportBad, ImportDuplicate, Count, TypeOK, ImportState
  <2> QED
    BY <1>2, <1>3, <2>1 DEF TypeOK, ImportRow, ImportBad, ImportDuplicate
<1>4. CASE ImportNew(row)
  <2>1. [cid |-> row.cid, data |-> row.data] \in Record
    BY <1>1, <1>4 DEF ImportNew, CsvRow, Record, Data
  <2>2. cardDataList' \in Seq(Record) /\ tree' \in Seq(Row)
    BY <1>4, <2>1, InsertTypes DEF ImportNew
  <2>3. imp' \in ImportState
    BY <1>4 DEF ImportNew, Count, TypeOK, ImportState
  <2> QED
    BY <1>2, <2>2, <2>3 DEF TypeOK, ImportRow
<1> QED
  BY <1>3, <1>4 DEF ImportRow

\* Every step keeps the types.
LEMMA TypesAreInductive ==
  TypeOK /\ [Next]_vars => TypeOK'
<1> SUFFICES ASSUME TypeOK, [Next]_vars PROVE TypeOK'
  OBVIOUS
<1> USE DEF Questions, Notices
<1>1. ASSUME NEW r \in Record, AddCard(r) PROVE TypeOK'
  <2>1. CASE AddNew(r)
    <3>1. cardDataList' \in Seq(Record) /\ tree' \in Seq(Row)
      BY <2>1, InsertTypes DEF AddNew
    <3>2. dataCount' \in Nat
      BY <2>1, LenProperties DEF AddNew, TypeOK
    <3> QED
      BY <1>1, <2>1, <3>1, <3>2 DEF AddCard, AddNew, TypeOK
  <2>2. CASE AddDuplicate(r)
    BY <1>1, <2>2, DialogTypes DEF AddCard, AddDuplicate, TypeOK, table
  <2> QED
    BY <1>1, <2>1, <2>2 DEF AddCard
<1>2. CASE AnswerYes
  BY <1>2, DialogTypes, EmptySeq DEF AnswerYes, Asked, TypeOK
<1>3. CASE ClickClear \/ ClickImport \/ ClickDetailsOfNothing
  BY <1>3, DialogTypes DEF ClickClear, ClickImport, ClickDetailsOfNothing, TypeOK, table
<1>4. CASE ClickExport
  BY <1>4, DialogTypes DEF ClickExport, TypeOK, table
<1>5. CASE AnswerNo \/ CloseNotice
  BY <1>5, DialogTypes DEF AnswerNo, CloseNotice, Asked, TypeOK, table
<1>6. CASE RefuseFile \/ RefuseSave
  BY <1>6, DialogTypes DEF RefuseFile, RefuseSave, Asked, TypeOK, table
<1>7. CASE ChooseFile
  <2>1. imp' \in ImportState
    BY <1>7, ChosenFileTypes DEF ChooseFile
  <2>2. dialogs' \in Seq(Questions \cup Notices)
    BY <1>7, DialogTypes DEF ChooseFile, Asked
  <2> QED
    BY <1>7, <2>1, <2>2 DEF ChooseFile, TypeOK, table, MainPhases
<1>8. CASE SaveFile
  <2>1. file' \in Seq(CsvLine)
    BY <1>8, ExportTypes
  <2> QED
    BY <1>8, <2>1, DialogTypes DEF SaveFile, Asked, TypeOK, table
<1>9. CASE SaveFails
  <2>1. file' \in Seq(CsvLine)
    BY <1>9, ExportTypes
  <2> QED
    BY <1>9, <2>1, DialogTypes DEF SaveFails, Asked, TypeOK, table
<1>10. CASE EditProject
  BY <1>10 DEF EditProject, TypeOK, table
<1>11. CASE ImportRow
  BY <1>11, ImportRowTypes
<1>12. NoImport \in ImportState
  BY EmptySeq DEF NoImport, Opened, ImportState
<1>13. CASE ImportFails
  BY <1>12, <1>13, DialogTypes DEF ImportFails, TypeOK, table, MainPhases
<1>14. CASE ImportDone
  BY <1>12, <1>14, DialogTypes, LenProperties DEF ImportDone, TypeOK, MainPhases
<1>15. CASE UNCHANGED vars
  BY <1>15 DEF vars, TypeOK
<1> QED
  BY <1>1, <1>2, <1>3, <1>4, <1>5, <1>6, <1>7, <1>8, <1>9, <1>10, <1>11, <1>13,
     <1>14, <1>15 DEF Next, UserStep, ImportStep

\* The table's variables always have their types, whatever the user does and
\* whichever cards arrive.
THEOREM TypeCorrect == Spec => []TypeOK
<1>1. Init => TypeOK
  BY EmptySeq DEF Init, TypeOK, NoImport, Opened, ImportState, MainPhases
<1> QED
  BY <1>1, TypesAreInductive, PTL DEF Spec

-----------------------------------------------------------------------------
(* One person, one record; the rows of the table; the registry. *)

\* The numbers in the list after an insertion.
LEMMA InsertNumbers ==
  ASSUME TypeOK, NEW r \in Record, Insert(r)
  PROVE  /\ cardDataList' \in Seq(Record)
         /\ DOMAIN cardDataList = 1 .. Len(cardDataList)
         /\ DOMAIN cardDataList' = 1 .. Len(cardDataList) + 1
         /\ \A i \in DOMAIN cardDataList : cardDataList'[i] = cardDataList[i]
         /\ cardDataList'[Len(cardDataList) + 1] = r
         /\ NumbersIn(cardDataList') = NumbersIn(cardDataList) \cup {r.cid}
<1>1. cardDataList \in Seq(Record) /\ Len(cardDataList) \in Nat
  BY LenProperties DEF TypeOK
<1>2. cardDataList' \in Seq(Record) /\ Len(cardDataList') = Len(cardDataList) + 1
  BY InsertTypes
<1>3. DOMAIN cardDataList = 1 .. Len(cardDataList)
      /\ DOMAIN cardDataList' = 1 .. Len(cardDataList) + 1
  BY <1>1, <1>2, LenProperties
<1>4. /\ \A i \in 1 .. Len(cardDataList) : cardDataList'[i] = cardDataList[i]
      /\ cardDataList'[Len(cardDataList) + 1] = r
  BY <1>1, AppendProperties DEF Insert
<1>5. NumbersIn(cardDataList') = NumbersIn(cardDataList) \cup {r.cid}
  BY <1>1, <1>3, <1>4 DEF NumbersIn
<1> QED
  BY <1>2, <1>3, <1>4, <1>5

\* Every step leaves list and rows alone, inserts one new person, or empties both.
LEMMA ListSteps ==
  ASSUME TypeOK, [Next]_vars
  PROVE  \/ UNCHANGED <<cardDataList, tree>>
         \/ \E r \in Record : r.cid \notin NumbersIn(cardDataList) /\ Insert(r)
         \/ cardDataList' = << >> /\ tree' = << >>
<1>1. ASSUME NEW r \in Record, AddCard(r)
      PROVE  \/ UNCHANGED <<cardDataList, tree>>
             \/ r.cid \notin NumbersIn(cardDataList) /\ Insert(r)
  BY <1>1 DEF AddCard, AddNew, AddDuplicate, table
<1>2. CASE AnswerYes
  BY <1>2 DEF AnswerYes
<1>3. CASE UserStep
  BY <1>3 DEF UserStep, ClickClear, AnswerNo, ClickImport, ChooseFile, RefuseFile,
       ClickExport, SaveFile, SaveFails, RefuseSave, ClickDetailsOfNothing,
       EditProject, CloseNotice, table
<1>4. CASE ImportRow
  <2> DEFINE row == imp.rows[imp.done + 1]
             new == [cid |-> row.cid, data |-> row.data]
  <2>1. CASE ImportBad(row) \/ ImportDuplicate(row)
    BY <2>1 DEF ImportBad, ImportDuplicate
  <2>2. CASE ImportNew(row)
    <3>1. row \in CsvRow
      BY <1>4, NextRowTypes DEF ImportRow
    <3>2. new \in Record
      BY <2>2, <3>1 DEF ImportNew, CsvRow, Record, Data
    <3> QED
      BY <2>2, <3>2 DEF ImportNew
  <2> QED
    BY <1>4, <2>1, <2>2 DEF ImportRow
<1>5. CASE ImportFails \/ ImportDone
  BY <1>5 DEF ImportFails, ImportDone, table
<1>6. CASE UNCHANGED vars
  BY <1>6 DEF vars
<1> QED
  BY <1>1, <1>2, <1>3, <1>4, <1>5, <1>6 DEF Next, ImportStep

\* README_GUI.md:16.  No citizen number is in the list twice: add_card_to_table
\* and import_from_csv each test for it, and nothing comes between test and append.
THEOREM NobodyTwice == Spec => []NoDuplicateCid
<1>1. Init => NoDuplicateCid
  BY EmptySeq DEF Init, NoDuplicateCid
<1>2. TypeOK /\ NoDuplicateCid /\ [Next]_vars => NoDuplicateCid'
  <2> SUFFICES ASSUME TypeOK, NoDuplicateCid, [Next]_vars PROVE NoDuplicateCid'
    OBVIOUS
  <2>1. CASE UNCHANGED <<cardDataList, tree>>
    BY <2>1 DEF NoDuplicateCid
  <2>2. ASSUME NEW r \in Record, r.cid \notin NumbersIn(cardDataList), Insert(r)
        PROVE  NoDuplicateCid'
    <3>1. \A i \in DOMAIN cardDataList : cardDataList[i].cid # r.cid
      BY <2>2 DEF NumbersIn
    <3>2. \A i \in DOMAIN cardDataList' :
            i \in DOMAIN cardDataList \/ i = Len(cardDataList) + 1
      BY <2>2, InsertNumbers, LenProperties DEF TypeOK
    <3>3. \A i \in DOMAIN cardDataList : cardDataList'[i] = cardDataList[i]
      BY <2>2, InsertNumbers
    <3>4. cardDataList'[Len(cardDataList) + 1] = r
      BY <2>2, InsertNumbers
    <3> QED
      BY <3>1, <3>2, <3>3, <3>4 DEF NoDuplicateCid
  <2>3. CASE cardDataList' = << >> /\ tree' = << >>
    BY <2>3 DEF NoDuplicateCid
  <2> QED
    BY <2>1, <2>2, <2>3, ListSteps
<1> QED
  BY <1>1, <1>2, TypeCorrect, PTL DEF Spec

\* Every record has its row, and view_details finds for every row the person it
\* shows, at any moment at which the user may ask.
THEOREM DetailsAreThoseShown == Spec => []DetailsMatchRow
<1>1. Init => DetailsMatchRow
  BY EmptySeq DEF Init, DetailsMatchRow
<1>2. TypeOK /\ DetailsMatchRow /\ [Next]_vars => DetailsMatchRow'
  <2> SUFFICES ASSUME TypeOK, DetailsMatchRow, [Next]_vars PROVE DetailsMatchRow'
    OBVIOUS
  <2>1. CASE UNCHANGED <<cardDataList, tree>>
    BY <2>1 DEF DetailsMatchRow, DetailOf
  <2>2. ASSUME NEW r \in Record, Insert(r)
        PROVE  DetailsMatchRow'
    <3> DEFINE n == Len(cardDataList)
               new == [no |-> n + 1, cid |-> r.cid, data |-> r.data]
    <3>1. n \in Nat /\ Len(tree) = n /\ tree \in Seq(Row)
      BY LenProperties DEF TypeOK, DetailsMatchRow
    <3>2. new \in Row
      BY <3>1 DEF Record, Row
    <3>3. /\ Len(tree') = n + 1
          /\ DOMAIN tree' = 1 .. n + 1
          /\ \A k \in 1 .. n : tree'[k] = tree[k]
          /\ tree'[n + 1] = new
      BY <2>2, <3>1, <3>2, AppendProperties, LenProperties DEF Insert
    <3>4. Len(cardDataList') = n + 1
      BY <2>2, InsertTypes
    <3>5. ASSUME NEW k \in DOMAIN tree'
          PROVE  /\ tree'[k].no \in DOMAIN cardDataList'
                 /\ cardDataList'[tree'[k].no].cid = tree'[k].cid
                 /\ cardDataList'[tree'[k].no].data = tree'[k].data
      <4>1. CASE k = n + 1
        BY <2>2, <3>1, <3>3, <4>1, InsertNumbers
      <4>2. CASE k \in 1 .. n
        <5>1. /\ k \in DOMAIN tree
              /\ tree'[k] = tree[k]
          BY <3>1, <3>3, <4>2, LenProperties
        <5>2. /\ tree[k].no \in DOMAIN cardDataList
              /\ cardDataList[tree[k].no].cid = tree[k].cid
              /\ cardDataList[tree[k].no].data = tree[k].data
          BY <5>1 DEF DetailsMatchRow, DetailOf
        <5>3. /\ DOMAIN cardDataList \subseteq DOMAIN cardDataList'
              /\ \A i \in DOMAIN cardDataList : cardDataList'[i] = cardDataList[i]
          BY <2>2, <3>1, InsertNumbers
        <5> QED
          BY <5>1, <5>2, <5>3
      <4> QED
        BY <3>1, <3>3, <4>1, <4>2
    <3> QED
      BY <3>3, <3>4, <3>5 DEF DetailsMatchRow, DetailOf
  <2>3. CASE cardDataList' = << >> /\ tree' = << >>
    BY <2>3 DEF DetailsMatchRow
  <2> QED
    BY <2>1, <2>2, <2>3, ListSteps
<1> QED
  BY <1>1, <1>2, TypeCorrect, PTL DEF Spec

\* The table implements the registry: what is in the list stays where it is until
\* everything is cleared, and nobody enters twice.
THEOREM TableImplementsRegistry == Spec => ImplementsRegistry
<1>1. Init => Registry!Init
  BY DEF Init, Registry!Init
<1>2. TypeOK /\ [Next]_vars => [Registry!Next]_cardDataList
  <2> SUFFICES ASSUME TypeOK, [Next]_vars PROVE [Registry!Next]_cardDataList
    OBVIOUS
  <2>1. ASSUME NEW r \in Record, r.cid \notin NumbersIn(cardDataList), Insert(r)
        PROVE  Registry!Register(r)
    BY <2>1 DEF Registry!Register, Registry!Registered, NumbersIn, Insert
  <2>2. CASE cardDataList' = << >>
    BY <2>2 DEF Registry!Next, Registry!Clear
  <2> QED
    BY <2>1, <2>2, ListSteps DEF Registry!Next
<1> QED
  BY <1>1, <1>2, TypeCorrect, PTL DEF Spec, ImplementsRegistry, Registry!Spec

-----------------------------------------------------------------------------
(* Questions and their answers. *)

\* Every step changes the stack of dialogs in one of five ways; only a confirmed
\* clear empties the list, and it answers a question.
LEMMA DialogSteps ==
  ASSUME TypeOK, [Next]_vars
  PROVE  \/ UNCHANGED dialogs /\ (UNCHANGED cardDataList \/ cardDataList' # << >>)
         \/ /\ dialogs = << >>
            /\ \E d \in Questions : /\ Push(d)
                                    /\ d \in {"save_file", "confirm_clear"}
                                         => cardDataList # << >>
            /\ UNCHANGED cardDataList
         \/ (\E n \in Notices : Push(n)) /\ UNCHANGED cardDataList
         \/ dialogs # << >> /\ Pop /\ UNCHANGED cardDataList
         \/ /\ dialogs # << >>
            /\ \E n \in Notices : ReplaceBy(n)
            /\ UNCHANGED cardDataList \/ dialogs[Len(dialogs)] = "confirm_clear"
<1> USE DEF Questions, Notices
<1>1. ASSUME NEW r \in Record, AddCard(r)
      PROVE  \/ UNCHANGED dialogs /\ cardDataList' # << >>
             \/ Push("duplicate") /\ UNCHANGED cardDataList
  <2>1. CASE AddNew(r)
    <3>1. Insert(r)
      BY <2>1 DEF AddNew
    <3>2. Len(cardDataList') = Len(cardDataList) + 1 /\ Len(cardDataList) \in Nat
      BY <3>1, InsertTypes, LenProperties DEF TypeOK
    <3>3. cardDataList' # << >>
      BY <3>2, EmptySeq
    <3> QED
      BY <2>1, <3>3 DEF AddNew
  <2>2. CASE AddDuplicate(r)
    BY <2>2 DEF AddDuplicate, table
  <2> QED
    BY <1>1, <2>1, <2>2 DEF AddCard
<1>2. CASE AnswerYes
  BY <1>2 DEF AnswerYes, Asked
<1>3. CASE ClickClear \/ ClickImport
  BY <1>3 DEF ClickClear, ClickImport, Free, table
<1>4. CASE ClickExport
  BY <1>4 DEF ClickExport, Free, table
<1>5. CASE ClickDetailsOfNothing
  BY <1>5 DEF ClickDetailsOfNothing, table
<1>6. CASE AnswerNo \/ CloseNotice \/ ChooseFile
  BY <1>6 DEF AnswerNo, CloseNotice, ChooseFile, Asked, table
<1>7. CASE RefuseFile \/ RefuseSave
  BY <1>7 DEF RefuseFile, RefuseSave, Asked, table
<1>8. CASE SaveFile \/ SaveFails
  BY <1>8 DEF SaveFile, SaveFails, Asked, table
<1>9. CASE EditProject
  BY <1>9 DEF EditProject, table
<1>10. CASE ImportRow
  <2>1. UNCHANGED cardDataList \/ cardDataList' # << >>
    <3>1. ASSUME NEW r \in Record, Insert(r) PROVE cardDataList' # << >>
      <4>1. Len(cardDataList') = Len(cardDataList) + 1 /\ Len(cardDataList) \in Nat
        BY <3>1, InsertTypes, LenProperties DEF TypeOK
      <4> QED
        BY <4>1, EmptySeq
    <3>2. \/ UNCHANGED cardDataList
          \/ \E r \in Record : Insert(r)
      <4> DEFINE row == imp.rows[imp.done + 1]
                 new == [cid |-> row.cid, data |-> row.data]
      <4>1. CASE ImportBad(row) \/ ImportDuplicate(row)
        BY <4>1 DEF ImportBad, ImportDuplicate
      <4>2. CASE ImportNew(row)
        <5>1. row \in CsvRow
          BY <1>10, NextRowTypes DEF ImportRow
        <5>2. new \in Record
          BY <4>2, <5>1 DEF ImportNew, CsvRow, Record, Data
        <5> QED
          BY <4>2, <5>2 DEF ImportNew
      <4> QED
        BY <1>10, <4>1, <4>2 DEF ImportRow
    <3> QED
      BY <3>1, <3>2
  <2> QED
    BY <1>10, <2>1 DEF ImportRow
<1>11. CASE ImportFails \/ ImportDone
  BY <1>11 DEF ImportFails, ImportDone, table
<1>12. CASE UNCHANGED vars
  BY <1>12 DEF vars
<1> QED
  BY <1>1, <1>2, <1>3, <1>4, <1>5, <1>6, <1>7, <1>8, <1>9, <1>10, <1>11, <1>12
     DEF Next, UserStep, ImportStep

\* An import starts from the one question on the stack, and no callback opens a
\* dialog while it runs.
LEMMA ImportSteps ==
  ASSUME TypeOK, [Next]_vars, main' = "import"
  PROVE  \/ main = "import" /\ UNCHANGED dialogs
         \/ Asked("open_file") /\ Pop
<1> USE DEF Free, Asked
<1>1. ASSUME NEW r \in Record, AddCard(r) PROVE FALSE
  BY <1>1 DEF AddCard
<1>2. CASE ChooseFile
  BY <1>2 DEF ChooseFile
<1>3. CASE ImportRow
  BY <1>3 DEF ImportRow
<1>4. CASE UNCHANGED vars
  BY <1>4 DEF vars
<1>5. ASSUME AnswerYes \/ ClickClear \/ AnswerNo \/ ClickImport \/ RefuseFile
             \/ ClickExport \/ SaveFile \/ SaveFails \/ RefuseSave
             \/ ClickDetailsOfNothing \/ EditProject \/ CloseNotice
      PROVE  FALSE
  BY <1>5 DEF AnswerYes, ClickClear, AnswerNo, ClickImport, RefuseFile, ClickExport,
       SaveFile, SaveFails, RefuseSave, ClickDetailsOfNothing, EditProject, CloseNotice
<1>6. CASE ImportFails \/ ImportDone
  BY <1>6 DEF ImportFails, ImportDone
<1> QED
  BY <1>1, <1>2, <1>3, <1>4, <1>5, <1>6 DEF Next, UserStep, ImportStep

\* A question is outermost in a stack.
QuestionsOutermost(s) == \A i \in DOMAIN s : s[i] \in Questions => i = 1

\* The operations on dialogs keep questions outermost.
LEMMA StackQuestions ==
  ASSUME NEW S, NEW s \in Seq(S), QuestionsOutermost(s), Notices \subseteq S
  PROVE  /\ \A n \in Notices : QuestionsOutermost(Append(s, n))
         /\ s # << >> => QuestionsOutermost(SubSeq(s, 1, Len(s) - 1))
         /\ s # << >> => \A n \in Notices : QuestionsOutermost([s EXCEPT ![Len(s)] = n])
<1> USE DEF QuestionsOutermost
<1>1. Len(s) \in Nat /\ DOMAIN s = 1 .. Len(s)
  BY LenProperties
<1>2. ASSUME NEW n \in Notices PROVE QuestionsOutermost(Append(s, n))
  <2>1. n \notin Questions
    BY <1>2 DEF Notices, Questions
  <2> QED
    BY <1>1, <1>2, <2>1, AppendProperties, LenProperties
<1>3. ASSUME s # << >> PROVE QuestionsOutermost(SubSeq(s, 1, Len(s) - 1))
  <2>1. Len(s) - 1 \in Nat
    BY <1>1, <1>3, EmptySeq
  <2>2. SubSeq(s, 1, Len(s) - 1) = [i \in 1 .. Len(s) - 1 |-> s[i]]
    BY <1>1, <2>1, SubSeqProperties
  <2> QED
    BY <1>1, <2>1, <2>2
<1>4. ASSUME s # << >>, NEW n \in Notices
      PROVE  QuestionsOutermost([s EXCEPT ![Len(s)] = n])
  <2>1. n \notin Questions
    BY <1>4 DEF Notices, Questions
  <2> QED
    BY <1>1, <1>4, <2>1
<1> QED
  BY <1>2, <1>3, <1>4

\* Dialogs that change state when answered are opened one at a time, and no dialog
\* is open while an import runs.
THEOREM OneAtATime == Spec => []OneOperationAtATime
<1>1. Init => OneOperationAtATime
  BY EmptySeq DEF Init, OneOperationAtATime
<1>2. TypeOK /\ OneOperationAtATime /\ [Next]_vars => OneOperationAtATime'
  <2> SUFFICES ASSUME TypeOK, OneOperationAtATime, [Next]_vars
               PROVE  OneOperationAtATime'
    OBVIOUS
  <2>1. QuestionsOutermost(dialogs) /\ dialogs \in Seq(Questions \cup Notices)
    BY DEF OneOperationAtATime, QuestionsOutermost, TypeOK
  <2>2. QuestionsOutermost(dialogs')
    <3>1. /\ \A n \in Notices : QuestionsOutermost(Append(dialogs, n))
          /\ dialogs # << >> => QuestionsOutermost(SubSeq(dialogs, 1, Len(dialogs) - 1))
          /\ dialogs # << >> => \A n \in Notices :
                QuestionsOutermost([dialogs EXCEPT ![Len(dialogs)] = n])
      BY <2>1, StackQuestions
    <3>2. CASE UNCHANGED dialogs
      BY <2>1, <3>2
    <3>3. ASSUME dialogs = << >>, NEW d \in Questions, Push(d)
          PROVE  QuestionsOutermost(dialogs')
      BY <3>3 DEF Push, QuestionsOutermost
    <3>4. ASSUME NEW n \in Notices, Push(n)
          PROVE  QuestionsOutermost(dialogs')
      BY <3>1, <3>4 DEF Push
    <3>5. CASE dialogs # << >> /\ Pop
      BY <3>1, <3>5 DEF Pop
    <3>6. ASSUME dialogs # << >>, NEW n \in Notices, ReplaceBy(n)
          PROVE  QuestionsOutermost(dialogs')
      BY <3>1, <3>6 DEF ReplaceBy
    <3> QED
      BY <3>2, <3>3, <3>4, <3>5, <3>6, DialogSteps
  <2>3. ASSUME main' = "import" PROVE dialogs' = << >>
    <3>1. CASE main = "import" /\ UNCHANGED dialogs
      BY <3>1 DEF OneOperationAtATime
    <3>2. CASE Asked("open_file") /\ Pop
      <4>1. Len(dialogs) \in DOMAIN dialogs /\ dialogs[Len(dialogs)] \in Questions
        BY <2>1, <3>2, LenProperties, EmptySeq DEF Asked, Questions
      <4>2. Len(dialogs) = 1
        BY <2>1, <4>1 DEF QuestionsOutermost
      <4>3. dialogs' = SubSeq(dialogs, 1, 0)
        BY <3>2, <4>2 DEF Pop
      <4> QED
        BY <2>1, <4>3, SubSeqProperties, EmptySeq
    <3> QED
      BY <2>3, <3>1, <3>2, ImportSteps
  <2> QED
    BY <2>2, <2>3 DEF OneOperationAtATime, QuestionsOutermost
<1> QED
  BY <1>1, <1>2, TypeCorrect, PTL DEF Spec

\* The tests export_to_csv and clear_all_data make before they ask still hold when
\* the user answers, whatever was added in between: an export has somebody to write.
THEOREM AskedListStays == Spec => []AskedListIsNotEmpty
<1>1. Init => AskedListIsNotEmpty
  BY EmptySeq DEF Init, AskedListIsNotEmpty
<1>2. TypeOK /\ OneOperationAtATime /\ AskedListIsNotEmpty /\ [Next]_vars
        => AskedListIsNotEmpty'
  <2> SUFFICES ASSUME TypeOK, OneOperationAtATime, AskedListIsNotEmpty, [Next]_vars,
                      NEW i \in DOMAIN dialogs',
                      dialogs'[i] \in {"save_file", "confirm_clear"}
               PROVE  cardDataList' # << >>
    BY DEF AskedListIsNotEmpty
  <2> USE DEF Questions, Notices
  <2>1. /\ dialogs \in Seq(Questions \cup Notices)
        /\ Len(dialogs) \in Nat
        /\ DOMAIN dialogs = 1 .. Len(dialogs)
    BY LenProperties DEF TypeOK
  <2>2. CASE UNCHANGED dialogs /\ (UNCHANGED cardDataList \/ cardDataList' # << >>)
    BY <2>2 DEF AskedListIsNotEmpty
  <2>3. ASSUME dialogs = << >>, NEW d \in Questions, Push(d),
               d \in {"save_file", "confirm_clear"} => cardDataList # << >>,
               UNCHANGED cardDataList
        PROVE  cardDataList' # << >>
    BY <2>3 DEF Push
  <2>4. ASSUME NEW n \in Notices, Push(n), UNCHANGED cardDataList
        PROVE  cardDataList' # << >>
    <3>1. /\ DOMAIN dialogs' = 1 .. Len(dialogs) + 1
          /\ \A k \in 1 .. Len(dialogs) : dialogs'[k] = dialogs[k]
          /\ dialogs'[Len(dialogs) + 1] = n
      BY <2>1, <2>4, AppendProperties, LenProperties DEF Push
    <3>2. i \in 1 .. Len(dialogs)
      BY <2>1, <3>1
    <3> QED
      BY <2>1, <2>4, <3>1, <3>2 DEF AskedListIsNotEmpty
  <2>5. ASSUME dialogs # << >>, Pop, UNCHANGED cardDataList
        PROVE  cardDataList' # << >>
    <3>1. Len(dialogs) - 1 \in Nat
      BY <2>1, <2>5, EmptySeq
    <3>2. dialogs' = [k \in 1 .. Len(dialogs) - 1 |-> dialogs[k]]
      BY <2>1, <2>5, <3>1, SubSeqProperties DEF Pop
    <3>3. i \in DOMAIN dialogs /\ dialogs'[i] = dialogs[i]
      BY <2>1, <3>1, <3>2
    <3> QED
      BY <2>5, <3>3 DEF AskedListIsNotEmpty
  <2>6. ASSUME dialogs # << >>, NEW n \in Notices, ReplaceBy(n),
               UNCHANGED cardDataList \/ dialogs[Len(dialogs)] = "confirm_clear"
        PROVE  cardDataList' # << >>
    <3>1. Len(dialogs) \in 1 .. Len(dialogs)
      BY <2>1, <2>6, EmptySeq
    <3>2. /\ i \in DOMAIN dialogs
          /\ dialogs'[i] = IF i = Len(dialogs) THEN n ELSE dialogs[i]
      BY <2>1, <2>6, <3>1 DEF ReplaceBy
    <3>3. i # Len(dialogs) /\ dialogs[i] \in {"save_file", "confirm_clear"}
      BY <3>2
    <3>4. i = 1
      BY <3>2, <3>3 DEF OneOperationAtATime
    <3>5. dialogs[Len(dialogs)] # "confirm_clear"
      BY <2>1, <3>1, <3>3, <3>4 DEF OneOperationAtATime
    <3> QED
      BY <2>6, <3>2, <3>3, <3>5 DEF AskedListIsNotEmpty
  <2> QED
    BY <2>2, <2>3, <2>4, <2>5, <2>6, DialogSteps
<1> QED
  BY <1>1, <1>2, TypeCorrect, OneAtATime, PTL DEF Spec

-----------------------------------------------------------------------------
(* The accounts of an import. *)

\* Every step leaves a running import alone, starts one, or takes a row of it.
LEMMA RunningImportSteps ==
  ASSUME TypeOK, [Next]_vars, main' = "import"
  PROVE  \/ main = "import" /\ UNCHANGED <<imp, cardDataList>>
         \/ \E rows \in Seq(CsvLine) : /\ imp' = Opened(rows, Len(cardDataList))
                                       /\ UNCHANGED cardDataList
         \/ main = "import" /\ ImportRow
<1> USE DEF Free, Asked
<1>1. ASSUME NEW r \in Record, AddCard(r) PROVE FALSE
  BY <1>1 DEF AddCard
<1>2. CASE ChooseFile
  <2>1. PICK rows \in Files \cup ({file} \ {NoFile}) : imp' = Opened(rows, Len(cardDataList))
    BY <1>2 DEF ChooseFile
  <2>2. Opened(rows, Len(cardDataList)) \in ImportState
    BY ChosenFileTypes
  <2>3. rows \in Seq(CsvLine)
    BY <2>2 DEF Opened, ImportState
  <2> QED
    BY <1>2, <2>1, <2>3 DEF ChooseFile, table
<1>3. CASE ImportRow
  BY <1>3 DEF ImportRow
<1>4. CASE UNCHANGED vars
  BY <1>4 DEF vars
<1>5. ASSUME AnswerYes \/ ClickClear \/ AnswerNo \/ ClickImport \/ RefuseFile
             \/ ClickExport \/ SaveFile \/ SaveFails \/ RefuseSave
             \/ ClickDetailsOfNothing \/ EditProject \/ CloseNotice
      PROVE  FALSE
  BY <1>5 DEF AnswerYes, ClickClear, AnswerNo, ClickImport, RefuseFile, ClickExport,
       SaveFile, SaveFails, RefuseSave, ClickDetailsOfNothing, EditProject, CloseNotice
<1>6. CASE ImportFails \/ ImportDone
  BY <1>6 DEF ImportFails, ImportDone
<1> QED
  BY <1>1, <1>2, <1>3, <1>4, <1>5, <1>6 DEF Next, UserStep, ImportStep

\* One row: what it counts as, and what it does to the list.
LEMMA RowSteps ==
  ASSUME TypeOK, ImportRow
  PROVE  LET row == imp.rows[imp.done + 1]
         IN  \/ Count(0, 0, 1) /\ UNCHANGED cardDataList /\ row.cid = NoCid
             \/ /\ Count(0, 1, 0)
                /\ UNCHANGED cardDataList
                /\ row.cid \in NumbersIn(cardDataList)
             \/ /\ Count(1, 0, 0)
                /\ [cid |-> row.cid, data |-> row.data] \in Record
                /\ Insert([cid |-> row.cid, data |-> row.data])
<1> DEFINE row == imp.rows[imp.done + 1]
<1>1. CASE ImportBad(row)
  BY <1>1 DEF ImportBad
<1>2. CASE ImportDuplicate(row)
  BY <1>2 DEF ImportDuplicate
<1>3. CASE ImportNew(row)
  <2>1. row \in CsvRow
    BY NextRowTypes DEF ImportRow
  <2>2. [cid |-> row.cid, data |-> row.data] \in Record
    BY <1>3, <2>1 DEF ImportNew, CsvRow, Record, Data
  <2> QED
    BY <1>3, <2>2 DEF ImportNew
<1> QED
  BY <1>1, <1>2, <1>3 DEF ImportRow

\* The summary import_from_csv shows adds up: every row taken is imported,
\* duplicate or in error, and the list grew by those imported.
THEOREM ImportAddsUp == Spec => []ImportAccounts
<1>1. Init => ImportAccounts
  BY DEF Init, ImportAccounts
<1>2. TypeOK /\ ImportAccounts /\ [Next]_vars => ImportAccounts'
  <2> SUFFICES ASSUME TypeOK, ImportAccounts, [Next]_vars, main' = "import"
               PROVE  /\ imp'.done = imp'.imported + imp'.duplicate + imp'.error
                      /\ Len(cardDataList') = imp'.before + imp'.imported
    BY DEF ImportAccounts
  <2>1. CASE main = "import" /\ UNCHANGED <<imp, cardDataList>>
    BY <2>1 DEF ImportAccounts
  <2>2. ASSUME NEW rows \in Seq(CsvLine), imp' = Opened(rows, Len(cardDataList)),
               UNCHANGED cardDataList
        PROVE  /\ imp'.done = imp'.imported + imp'.duplicate + imp'.error
               /\ Len(cardDataList') = imp'.before + imp'.imported
    BY <2>2, LenProperties DEF Opened, TypeOK
  <2>3. CASE main = "import" /\ ImportRow
    <3>1. /\ imp.done = imp.imported + imp.duplicate + imp.error
          /\ Len(cardDataList) = imp.before + imp.imported
          /\ imp.imported \in Nat /\ imp.duplicate \in Nat
          /\ imp.error \in Nat /\ imp.before \in Nat
      BY <2>3 DEF ImportAccounts, TypeOK, ImportState
    <3>2. CASE (Count(0, 0, 1) \/ Count(0, 1, 0)) /\ UNCHANGED cardDataList
      <4>0. Len(cardDataList') = Len(cardDataList)
        BY <3>2
      <4>1. CASE Count(0, 0, 1)
        <5>1. /\ imp'.done = imp.done + 1
              /\ imp'.before = imp.before
              /\ imp'.imported = imp.imported
              /\ imp'.duplicate = imp.duplicate
              /\ imp'.error = imp.error + 1
          BY <3>1, <4>1 DEF Count
        <5> QED
          BY <3>1, <4>0, <5>1, SMTT(30)
      <4>2. CASE Count(0, 1, 0)
        <5>1. /\ imp'.done = imp.done + 1
              /\ imp'.before = imp.before
              /\ imp'.imported = imp.imported
              /\ imp'.duplicate = imp.duplicate + 1
              /\ imp'.error = imp.error
          BY <3>1, <4>2 DEF Count
        <5> QED
          BY <3>1, <4>0, <5>1, SMTT(30)
      <4> QED
        BY <3>2, <4>1, <4>2
    <3>3. ASSUME Count(1, 0, 0), NEW r \in Record, Insert(r)
          PROVE  /\ imp'.done = imp'.imported + imp'.duplicate + imp'.error
                 /\ Len(cardDataList') = imp'.before + imp'.imported
      <4>1. Len(cardDataList') = Len(cardDataList) + 1
        BY <3>3, InsertTypes
      <4>2. /\ imp'.done = imp.done + 1
            /\ imp'.before = imp.before
            /\ imp'.imported = imp.imported + 1
            /\ imp'.duplicate = imp.duplicate
            /\ imp'.error = imp.error
        BY <3>1, <3>3 DEF Count
      <4> QED
        BY <3>1, <4>1, <4>2, SMTT(30)
    <3> QED
      BY <2>3, <3>2, <3>3, RowSteps
  <2> QED
    BY <2>1, <2>2, <2>3, RunningImportSteps
<1> QED
  BY <1>1, <1>2, TypeCorrect, PTL DEF Spec

\* No row of the file that names a person is lost.
THEOREM ImportKeepsEverybody == Spec => []ImportLosesNobody
<1>1. Init => ImportLosesNobody
  BY DEF Init, ImportLosesNobody
<1>2. TypeOK /\ ImportLosesNobody /\ [Next]_vars => ImportLosesNobody'
  <2> SUFFICES ASSUME TypeOK, ImportLosesNobody, [Next]_vars, main' = "import",
                      NEW i \in 1 .. imp'.done
               PROVE  imp'.rows[i].cid \in NumbersIn(cardDataList') \cup {NoCid}
    BY DEF ImportLosesNobody
  <2>1. CASE main = "import" /\ UNCHANGED <<imp, cardDataList>>
    BY <2>1 DEF ImportLosesNobody
  <2>2. ASSUME NEW rows \in Seq(CsvLine), imp' = Opened(rows, Len(cardDataList))
        PROVE  FALSE
    BY <2>2 DEF Opened
  <2>3. CASE main = "import" /\ ImportRow
    <3>1. imp.done \in Nat
      BY DEF TypeOK, ImportState
    <3>2. imp'.rows = imp.rows /\ imp'.done = imp.done + 1
      BY <2>3, RowSteps DEF Count
    <3>3. NumbersIn(cardDataList) \subseteq NumbersIn(cardDataList')
      BY <2>3, RowSteps, InsertNumbers
    <3>4. CASE i \in 1 .. imp.done
      BY <2>3, <3>2, <3>3, <3>4 DEF ImportLosesNobody
    <3>5. CASE i = imp.done + 1
      <4> DEFINE row == imp.rows[imp.done + 1]
                 new == [cid |-> row.cid, data |-> row.data]
      <4>1. CASE row.cid = NoCid \/ row.cid \in NumbersIn(cardDataList)
        BY <3>2, <3>3, <3>5, <4>1
      <4>2. CASE new \in Record /\ Insert(new)
        <5>1. new.cid \in NumbersIn(cardDataList')
          BY <4>2, InsertNumbers
        <5> QED
          BY <3>2, <3>5, <5>1
      <4> QED
        BY <2>3, <4>1, <4>2, RowSteps
    <3> QED
      BY <3>1, <3>2, <3>4, <3>5
  <2> QED
    BY <2>1, <2>2, <2>3, RunningImportSteps
<1> QED
  BY <1>1, <1>2, TypeCorrect, PTL DEF Spec

-----------------------------------------------------------------------------
(* The counter on the status bar. *)

\* The status bar may lag behind an import, and stays behind one that fails, but it
\* never counts people who are not in the list.
THEOREM CountIsNotAbove == Spec => []CountNotAboveList
<1>1. Init => CountNotAboveList
  BY EmptySeq DEF Init, CountNotAboveList
<1>2. TypeOK /\ CountNotAboveList /\ [Next]_vars => CountNotAboveList'
  <2> SUFFICES ASSUME TypeOK, CountNotAboveList, [Next]_vars
               PROVE  dataCount' <= Len(cardDataList')
    BY DEF CountNotAboveList
  <2>1. /\ dataCount \in Nat /\ Len(cardDataList) \in Nat
        /\ dataCount <= Len(cardDataList)
    BY LenProperties DEF TypeOK, CountNotAboveList
  <2>2. CASE UNCHANGED dataCount /\ UNCHANGED cardDataList
    BY <2>1, <2>2
  <2>3. ASSUME NEW r \in Record, AddCard(r) PROVE dataCount' <= Len(cardDataList')
    <3>1. CASE AddNew(r)
      <4>1. Len(cardDataList') = Len(cardDataList) + 1
        BY <3>1, InsertTypes DEF AddNew
      <4> QED
        BY <2>1, <3>1, <4>1 DEF AddNew
    <3>2. CASE AddDuplicate(r)
      BY <2>2, <3>2 DEF AddDuplicate, table
    <3> QED
      BY <2>3, <3>1, <3>2 DEF AddCard
  <2>4. CASE AnswerYes
    BY <2>4, EmptySeq DEF AnswerYes
  <2>5. CASE UserStep
    BY <2>2, <2>5 DEF UserStep, ClickClear, AnswerNo, ClickImport, ChooseFile, RefuseFile,
         ClickExport, SaveFile, SaveFails, RefuseSave, ClickDetailsOfNothing,
         EditProject, CloseNotice, table
  <2>6. CASE ImportRow
    <3>1. UNCHANGED dataCount
      BY <2>6 DEF ImportRow
    <3>2. ASSUME NEW r \in Record, Insert(r) PROVE dataCount' <= Len(cardDataList')
      <4>1. Len(cardDataList') = Len(cardDataList) + 1
        BY <3>2, InsertTypes
      <4> QED
        BY <2>1, <3>1, <4>1
    <3> QED
      BY <2>2, <2>6, <3>1, <3>2, RowSteps
  <2>7. CASE ImportFails
    BY <2>2, <2>7 DEF ImportFails, table
  <2>8. CASE ImportDone
    BY <2>1, <2>8 DEF ImportDone
  <2>9. CASE UNCHANGED vars
    BY <2>2, <2>9 DEF vars
  <2> QED
    BY <2>3, <2>4, <2>5, <2>6, <2>7, <2>8, <2>9 DEF Next, ImportStep
<1> QED
  BY <1>1, <1>2, TypeCorrect, PTL DEF Spec
=============================================================================

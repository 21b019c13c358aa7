--------------------------- MODULE CliReaderProofs --------------------------
(***************************************************************************)
(* Proofs about CliReader, for any cards, any numbers of fields and parts  *)
(* and any number of faults and invocations.                               *)
(***************************************************************************)
EXTENDS CliReader, TLAPS

-----------------------------------------------------------------------------
(* Type correctness. *)

\* What each stage of an invocation relies on.
Stages ==
  /\ pc \in {"connect", "select"} => rec = NoFields /\ next = 1
  /\ pc = "field" => next \in 1 .. FieldCount /\ (next = 1 => rec = NoFields)
  /\ pc = "part" => next \in 1 .. PartCount
  /\ pc \in {"part", "open photo", "write photo"} => args.photo
  /\ pc \notin {"off", "connect", "select"} => link # Foreign
  /\ exit = "success" => pc = "off"

TypeInv == TypeOK /\ Stages

LEMMA NothingRead ==
  /\ NoCid \in Names /\ Cards \subseteq Names
  /\ NoFields \in Fields
  /\ 1 \in 1 .. FieldCount /\ 1 \in 1 .. PartCount
BY CountsAssumption DEF Names, Fields, NoFields

LEMMA InitTypes == Init => TypeInv
<1> SUFFICES ASSUME Init PROVE TypeInv
  OBVIOUS
<1>1. photos \in Photos /\ jsons \in Jsons
  BY DEF Init, Photos, Jsons
<1>2. args \in Args
  BY DEF Init, Args
<1> QED
  BY <1>1, <1>2, NothingRead, CountsAssumption DEF Init, TypeInv, TypeOK, Stages

\* What get_data returns, and what it uses up.
LEMMA GetDataTypes ==
  ASSUME TypeOK, NEW got \in Names, GetData(got)
  PROVE  faults' \in 0 .. MaxFaults /\ lost' \in {"nothing", "something"}
<1>1. faults \in 0 .. MaxFaults /\ lost \in {"nothing", "something"}
  BY DEF TypeOK
<1>2. faults' \in 0 .. MaxFaults
  BY <1>1, CountsAssumption DEF GetData
<1>3. lost' \in {"nothing", "something"}
  BY <1>1 DEF GetData
<1> QED
  BY <1>2, <1>3

LEMMA NextTypes == TypeInv /\ [Next]_vars => TypeInv'
<1> SUFFICES ASSUME TypeInv, [Next]_vars
             PROVE  TypeInv'
  OBVIOUS
<1> USE CardsAssumption, CountsAssumption
<1>1. ASSUME NEW photo \in BOOLEAN, NEW json \in BOOLEAN, Start(photo, json)
      PROVE  TypeInv'
  <2>1. args' \in Args
    BY <1>1 DEF Start, Args
  <2> QED
    BY <1>1, <2>1, NothingRead DEF Start, TypeInv, TypeOK, Stages, world, disk
<1>2. CASE ConnectFails
  BY <1>2 DEF ConnectFails, Exit, TypeInv, TypeOK, Stages, disk, locals
<1>3. CASE Connect
  BY <1>3 DEF Connect, TypeInv, TypeOK, Stages, disk, locals
<1>4. CASE Select
  BY <1>4 DEF Select, TypeInv, TypeOK, Stages, world, disk, locals
<1>5. CASE SelectFails
  BY <1>5 DEF SelectFails, Exit, TypeInv, TypeOK, Stages, disk, locals
<1>6. CASE ReadField
  <2>1. PICK got \in Names : GetData(got) /\ rec' = [rec EXCEPT ![next] = got]
    BY <1>6 DEF ReadField
  <2>2. faults' \in 0 .. MaxFaults /\ lost' \in {"nothing", "something"}
    BY <2>1, GetDataTypes DEF TypeInv
  <2>3. rec' \in Fields
    BY <2>1 DEF TypeInv, TypeOK, Fields
  <2>4. pc = "field" /\ next \in 1 .. FieldCount /\ link # Foreign
    BY <1>6 DEF ReadField, TypeInv, Stages
  <2>5. next' \in 1 .. FieldCount /\ (pc' = "field" => next' # 1)
    <3>1. \/ next < FieldCount /\ next' = next + 1
          \/ next' = 1 /\ pc' # "field"
      BY <1>6 DEF ReadField, SaveOrSucceed, Exit
    <3> QED
      BY <2>4, <3>1
  <2>6. /\ pc' \in {"off", "field", "part", "open json"}
        /\ pc' = "part" => next' = 1 /\ args.photo
        /\ link' \in {link, Dead} /\ (pc' # "off" => link' = link)
        /\ exit' \in {exit, "success"} /\ (pc' # "off" => exit' = exit)
    BY <1>6 DEF ReadField, SaveOrSucceed, Exit
  <2>7. UNCHANGED <<slot, disk, args, runs>>
    BY <1>6 DEF ReadField
  <2>8. TypeOK'
    BY <2>2, <2>3, <2>5, <2>6, <2>7 DEF TypeInv, TypeOK, disk
  <2>9. Stages'
    BY <2>4, <2>5, <2>6, <2>7, NothingRead DEF TypeInv, Stages
  <2> QED
    BY <2>8, <2>9 DEF TypeInv
<1>7. CASE ReadPart
  <2>1. PICK got \in Names : GetData(got)
    BY <1>7 DEF ReadPart
  <2>2. faults' \in 0 .. MaxFaults /\ lost' \in {"nothing", "something"}
    BY <2>1, GetDataTypes DEF TypeInv
  <2>4. pc = "part" /\ next \in 1 .. PartCount /\ args.photo /\ link # Foreign
    BY <1>7 DEF ReadPart, TypeInv, Stages
  <2>5. next' \in 1 .. PartCount /\ pc' \in {"part", "open photo"}
    <3>1. \/ next < PartCount /\ next' = next + 1
          \/ next' = 1
      BY <1>7 DEF ReadPart
    <3>2. next' \in 1 .. PartCount
      BY <2>4, <3>1
    <3>3. pc' \in {"part", "open photo"}
      BY <1>7 DEF ReadPart
    <3> QED
      BY <3>2, <3>3
  <2>6. UNCHANGED <<slot, link, disk, args, rec, exit, runs>>
    BY <1>7 DEF ReadPart
  <2>7. TypeOK'
    BY <2>2, <2>5, <2>6 DEF TypeInv, TypeOK, disk
  <2>8. Stages'
    BY <2>4, <2>5, <2>6 DEF TypeInv, Stages
  <2> QED
    BY <2>7, <2>8 DEF TypeInv
<1>8. CASE OpenPhoto
  <2>1. photos' \in Photos
    BY <1>8 DEF OpenPhoto, TypeInv, TypeOK, Photos
  <2> QED
    BY <1>8, <2>1 DEF OpenPhoto, TypeInv, TypeOK, Stages, world, locals
<1>9. CASE WritePhoto
  BY <1>9 DEF WritePhoto, Exit, TypeInv, TypeOK, Stages, disk, locals
<1>10. CASE OpenJson
  <2>1. jsons' \in Jsons
    BY <1>10 DEF OpenJson, TypeInv, TypeOK, Jsons
  <2> QED
    BY <1>10, <2>1 DEF OpenJson, TypeInv, TypeOK, Stages, world, locals
<1>11. CASE WriteJson
  <2>1. jsons' \in Jsons
    BY <1>11 DEF WriteJson, TypeInv, TypeOK, Jsons
  <2> QED
    BY <1>11, <2>1 DEF WriteJson, Exit, TypeInv, TypeOK, Stages, locals
<1>12. CASE FileFails
  BY <1>12 DEF FileFails, Exit, TypeInv, TypeOK, Stages, disk, locals
<1>13. CASE Interrupt
  BY <1>13 DEF Interrupt, Exit, TypeInv, TypeOK, Stages, disk, locals
<1>14. CASE InsertCard
  BY <1>14 DEF InsertCard, TypeInv, TypeOK, Stages, disk, locals
<1>15. CASE RemoveCard
  BY <1>15 DEF RemoveCard, TypeInv, TypeOK, Stages, disk, locals
<1>16. CASE UNCHANGED vars
  BY <1>16 DEF vars, world, disk, locals, TypeInv, TypeOK, Stages
<1> QED
  BY <1>1, <1>2, <1>3, <1>4, <1>5, <1>6, <1>7, <1>8, <1>9, <1>10, <1>11, <1>12,
     <1>13, <1>14, <1>15, <1>16
     DEF Next, ReadStep, FileStep

\* Every variable of CliReader keeps its type, whatever fails or is swapped.
THEOREM TypeCorrect == Spec => []TypeOK
<1>1. TypeInv => TypeOK
  BY DEF TypeInv
<1> QED
  BY InitTypes, NextTypes, <1>1, PTL DEF Spec

LEMMA TypesHold == Spec => []TypeInv
BY InitTypes, NextTypes, PTL DEF Spec

-----------------------------------------------------------------------------
(* Files and their numbers. *)

\* From SELECT to the end of the invocation.
Reading ==
  pc \in {"field", "part", "open photo", "write photo", "open json", "write json"}

\* Once the applet is selected, one card answers or nothing does.
OneCard ==
  Reading =>
    \E c \in Cards : link \in {c, Dead} /\ \A f \in 1 .. FieldCount : rec[f] \in {c, NoCid}

LEMMA DiskTypes ==
  ASSUME TypeOK
  PROVE  /\ photos \in [Names -> {None, Torn}]
         /\ jsons \in [Names -> {None, Torn} \cup Fields]
         /\ cid \in Names /\ rec \in Fields
<1>1. rec \in Fields
  BY DEF TypeOK
<1>2. cid \in Names
  BY <1>1, NothingRead DEF Fields, cid
<1> QED
  BY <1>1, <1>2 DEF TypeOK, Photos, Jsons

\* Steps that leave the directory alone.
LEMMA Untouched == [Next]_vars => OpenPhoto \/ OpenJson \/ WriteJson \/ UNCHANGED disk
BY DEF Next, ReadStep, FileStep, Start, ConnectFails, Connect, Select, SelectFails, WritePhoto,
       ReadField, ReadPart, FileFails, Interrupt, InsertCard, RemoveCard, disk, vars

\* A step that reads nothing can only end the connection.
LEMMA OneCardKept ==
  ASSUME OneCard, rec' = rec, link' \in {link, Dead}, Reading' => Reading
  PROVE  OneCard'
BY DEF OneCard

LEMMA NextOneCard == TypeInv /\ OneCard /\ [Next]_vars => OneCard'
<1> SUFFICES ASSUME TypeInv, OneCard, [Next]_vars
             PROVE  OneCard'
  OBVIOUS
<1>1. CASE Select
  <2>1. link' \in Cards /\ rec' = NoFields
    BY <1>1 DEF Select, TypeInv, Stages, world, locals
  <2> QED
    BY <2>1 DEF OneCard, NoFields
<1>2. CASE ReadField
  <2>1. PICK got \in Names : GetData(got) /\ rec' = [rec EXCEPT ![next] = got]
    BY <1>2 DEF ReadField
  <2>2. PICK c \in Cards : /\ link \in {c, Dead}
                           /\ \A f \in 1 .. FieldCount : rec[f] \in {c, NoCid}
    BY <1>2 DEF ReadField, OneCard, Reading
  <2>3. got \in {c, NoCid}
    BY <2>1, <2>2, CardsAssumption DEF GetData, TypeInv, Stages
  <2>4. link' \in {link, Dead}
    BY <1>2 DEF ReadField, SaveOrSucceed, Exit
  <2>5. \A f \in 1 .. FieldCount : rec'[f] \in {c, NoCid}
    BY <2>1, <2>2, <2>3, DiskTypes DEF TypeInv, Fields
  <2>6. link' \in {c, Dead}
    BY <2>2, <2>4
  <2> QED
    BY <2>5, <2>6 DEF OneCard
<1>3. CASE ReadPart
  BY <1>3, OneCardKept DEF ReadPart, Reading
<1>4. CASE FileStep
  BY <1>4, OneCardKept DEF FileStep, OpenPhoto, WritePhoto, OpenJson, WriteJson, FileFails, Exit,
                           Reading, world, locals
<1>5. CASE ConnectFails \/ Connect \/ SelectFails \/ \E photo, json \in BOOLEAN : Start(photo, json)
  BY <1>5 DEF ConnectFails, Connect, SelectFails, Start, Exit, OneCard, Reading
<1>6. CASE Interrupt \/ InsertCard \/ RemoveCard \/ UNCHANGED vars
  BY <1>6, OneCardKept DEF Interrupt, InsertCard, RemoveCard, vars, world, locals, Exit, Reading
<1> QED
  BY <1>1, <1>2, <1>3, <1>4, <1>5, <1>6 DEF Next, ReadStep

\* A file is written with what is read, under the number that was read.
LEMMA NextFiles ==
  TypeInv /\ OneCard /\ FilesOfOneCard /\ [Next]_vars => FilesOfOneCard'
<1> SUFFICES ASSUME TypeInv, OneCard, FilesOfOneCard, [Next]_vars,
                    NEW n \in Names, Written(jsons[n])'
             PROVE  \E c \in Cards : /\ n \in {c, NoCid}
                                     /\ \A f \in 1 .. FieldCount : jsons'[n][f] \in {c, NoCid}
  BY DEF FilesOfOneCard, Written
<1>1. jsons \in [Names -> {None, Torn} \cup Fields] /\ cid \in Names /\ rec \in Fields
  BY DiskTypes DEF TypeInv
<1>2. CASE jsons'[n] = jsons[n]
  BY <1>2 DEF FilesOfOneCard, Written
<1>3. CASE OpenJson
  BY <1>1, <1>2, <1>3 DEF OpenJson, Written
<1>4. CASE WriteJson /\ n = cid
  <2>1. jsons'[n] = rec
    BY <1>1, <1>4 DEF WriteJson
  <2>2. PICK c \in Cards : \A f \in 1 .. FieldCount : rec[f] \in {c, NoCid}
    BY <1>4 DEF WriteJson, OneCard, Reading
  <2>3. n \in {c, NoCid}
    BY <1>4, <2>2, NothingRead DEF cid
  <2> QED
    BY <2>1, <2>2, <2>3
<1>5. CASE WriteJson /\ n # cid
  BY <1>1, <1>2, <1>5 DEF WriteJson
<1> QED
  BY <1>2, <1>3, <1>4, <1>5, Untouched DEF OpenPhoto, disk

\* Whatever cards are swapped, a file holds fields of one card only, and of the card
\* whose number it bears if it bears one.
THEOREM FilesAreOfOneCard == Spec => []FilesOfOneCard
<1>1. Init => FilesOfOneCard
  BY DEF Init, FilesOfOneCard, Written
<1>2. Init => OneCard
  BY DEF Init, OneCard, Reading
<1> QED
  BY InitTypes, NextTypes, <1>1, <1>2, NextOneCard, NextFiles, PTL DEF Spec

-----------------------------------------------------------------------------
(* Invocations that succeed, and those that lose nothing. *)

\* What a card that answers every transmission leaves in the locals.
AllRead == cid \in Cards /\ \A f \in 1 .. FieldCount : rec[f] = cid

\* An invocation that has lost nothing has read all it should.
NothingLost ==
  lost = "nothing" =>
    /\ pc = "field" => \A f \in 1 .. FieldCount : f < next => rec[f] = cid /\ cid \in Cards
    /\ (Reading /\ pc # "field") \/ exit = "success" => AllRead

\* A success that should have written a file has.
Saved == exit = "success" /\ args.json => jsons[cid] = rec

LEMMA ReadFieldLosesNothing ==
  TypeInv /\ OneCard /\ NothingLost /\ ReadField => NothingLost'
<1> SUFFICES ASSUME TypeInv, OneCard, NothingLost, ReadField, lost' = "nothing"
             PROVE  NothingLost'
  BY DEF NothingLost
<1>1. PICK got \in Names : GetData(got) /\ rec' = [rec EXCEPT ![next] = got]
  BY DEF ReadField
<1>2. /\ pc = "field" /\ next \in 1 .. FieldCount /\ link # Foreign
      /\ rec \in Fields /\ exit # "success"
  BY DEF ReadField, TypeInv, TypeOK, Stages
<1>3. lost = "nothing" /\ got = link /\ got \in Cards
  BY <1>1, <1>2 DEF GetData
<1>4. \A f \in 1 .. FieldCount : rec'[f] = IF f = next THEN got ELSE rec[f]
  BY <1>1, <1>2 DEF Fields
<1>5. \A f \in 1 .. FieldCount : f < next => rec[f] = got
  <2> SUFFICES ASSUME NEW f \in 1 .. FieldCount, f < next
               PROVE  rec[f] = got
    OBVIOUS
  <2>1. rec[f] = cid /\ cid \in Cards
    BY <1>2, <1>3 DEF NothingLost
  <2> QED
    BY <1>2, <1>3, <2>1, CardsAssumption DEF OneCard, Reading
<1>6. \A f \in 1 .. FieldCount : f <= next => rec'[f] = got
  BY <1>2, <1>4, <1>5
<1>7. cid' = got
  BY <1>2, <1>6, NothingRead DEF cid
<1>8. CASE next < FieldCount
  <2>1. next' = next + 1 /\ pc' = "field" /\ exit' = exit
    BY <1>2, <1>8 DEF ReadField
  <2>2. \A f \in 1 .. FieldCount : f < next' => rec'[f] = got
    BY <1>2, <1>6, <2>1
  <2> QED
    BY <1>2, <1>3, <1>7, <2>1, <2>2 DEF NothingLost
<1>9. CASE ~(next < FieldCount)
  <2>1. next = FieldCount
    BY <1>2, <1>9, CountsAssumption
  <2>2. \A f \in 1 .. FieldCount : rec'[f] = got
    BY <1>6, <2>1, CountsAssumption
  <2>3. AllRead'
    BY <1>3, <1>7, <2>2 DEF AllRead
  <2>4. pc' # "field"
    BY <1>9 DEF ReadField, SaveOrSucceed, Exit
  <2> QED
    BY <2>3, <2>4 DEF NothingLost
<1> QED
  BY <1>8, <1>9

LEMMA NextNothingLost ==
  TypeInv /\ OneCard /\ NothingLost /\ [Next]_vars => NothingLost'
<1> SUFFICES ASSUME TypeInv, OneCard, NothingLost, [Next]_vars
             PROVE  NothingLost'
  OBVIOUS
<1>1. CASE ReadField
  BY <1>1, ReadFieldLosesNothing
<1>2. CASE ReadPart
  <2>1. lost' = "nothing" => lost = "nothing"
    BY <1>2 DEF ReadPart, GetData
  <2> QED
    BY <1>2, <2>1 DEF ReadPart, NothingLost, AllRead, Reading, cid
<1>3. CASE OpenPhoto \/ OpenJson \/ WriteJson
  BY <1>3 DEF OpenPhoto, OpenJson, WriteJson, Exit, NothingLost, AllRead, Reading, locals, cid
<1>4. CASE ConnectFails \/ SelectFails \/ WritePhoto \/ FileFails \/ Interrupt
  BY <1>4 DEF ConnectFails, SelectFails, WritePhoto, FileFails, Interrupt, Exit, NothingLost,
              Reading
<1>5. CASE \E photo, json \in BOOLEAN : Start(photo, json)
  BY <1>5 DEF Start, NothingLost, Reading
<1>6. CASE Connect
  BY <1>6 DEF Connect, NothingLost, TypeInv, Stages, Reading
<1>7. CASE Select
  <2>1. next' = 1 /\ exit' # "success" /\ pc' = "field"
    BY <1>7 DEF Select, TypeInv, Stages, locals
  <2>2. \A f \in 1 .. FieldCount : ~(f < next')
    BY <2>1, CountsAssumption
  <2> QED
    BY <2>1, <2>2 DEF NothingLost
<1>8. CASE InsertCard \/ RemoveCard \/ UNCHANGED vars
  BY <1>8 DEF InsertCard, RemoveCard, vars, disk, locals, NothingLost, AllRead, Reading, cid
<1> QED
  BY <1>1, <1>2, <1>3, <1>4, <1>5, <1>6, <1>7, <1>8 DEF Next, ReadStep, FileStep

LEMMA NextSaved == TypeInv /\ Saved /\ [Next]_vars => Saved'
<1> SUFFICES ASSUME TypeInv, Saved, [Next]_vars, exit' = "success", args'.json
             PROVE  jsons'[cid'] = rec'
  BY DEF Saved, cid
<1>1. CASE WriteJson
  BY <1>1, DiskTypes DEF WriteJson, TypeInv, locals, cid
<1>2. CASE UNCHANGED <<exit, args, rec, jsons>>
  BY <1>2 DEF Saved, cid
<1>3. WriteJson \/ UNCHANGED <<exit, args, rec, jsons>>
  BY DEF Next, ReadStep, FileStep, Start, ConnectFails, Connect, Select, SelectFails, WritePhoto,
         ReadField, ReadPart, OpenPhoto, OpenJson, FileFails, Interrupt, InsertCard, RemoveCard,
         SaveOrSucceed, Exit, disk, locals, vars, TypeInv, Stages
<1> QED
  BY <1>1, <1>2, <1>3

CleanInv == TypeInv /\ OneCard /\ NothingLost /\ Saved

LEMMA CleanHolds == Spec => []CleanInv
<1>1. Init => NothingLost /\ OneCard /\ Saved
  BY DEF Init, NothingLost, OneCard, Saved, Reading
<1>2. CleanInv /\ [Next]_vars => CleanInv'
  BY NextTypes, NextOneCard, NextNothingLost, NextSaved DEF CleanInv
<1>3. Init => CleanInv
  BY InitTypes, <1>1 DEF CleanInv
<1> QED
  BY <1>2, <1>3, PTL DEF Spec

\* A success has saved the record that was read, and has read all the card holds if no
\* transmission was lost.
THEOREM SuccessSaves == Spec => []SuccessSavesRecord
<1>1. CleanInv => SuccessSavesRecord
  BY DEF CleanInv, NothingLost, Saved, AllRead, SuccessSavesRecord
<1> QED
  BY CleanHolds, <1>1, PTL

\* Files without a number are touched only by an invocation that lost a transmission.
THEOREM NumberlessMeansLoss == Spec => NumberlessFileMeansLoss
<1>1. CleanInv /\ [Next]_vars
        => [photos'[NoCid] # photos[NoCid] \/ jsons'[NoCid] # jsons[NoCid]
              => lost = "something"]_vars
  <2> SUFFICES ASSUME CleanInv, [Next]_vars, lost # "something"
               PROVE  photos'[NoCid] = photos[NoCid] /\ jsons'[NoCid] = jsons[NoCid]
    OBVIOUS
  <2>1. lost = "nothing"
    BY DEF CleanInv, TypeInv, TypeOK
  <2>2. photos \in [Names -> {None, Torn}] /\ jsons \in [Names -> {None, Torn} \cup Fields]
    BY DiskTypes DEF CleanInv, TypeInv
  <2>3. pc \in {"open photo", "open json", "write json"} => cid # NoCid
    BY <2>1, CardsAssumption DEF CleanInv, NothingLost, AllRead, Reading
  <2> QED
    BY <2>2, <2>3, Untouched, NothingRead DEF OpenPhoto, OpenJson, WriteJson, disk
<1> QED
  BY CleanHolds, <1>1, PTL DEF Spec, NumberlessFileMeansLoss
=============================================================================

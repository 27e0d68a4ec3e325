------------------------------ MODULE SdCardProofs ------------------------------
(***************************************************************************)
(* Proofs about SdCard, for any number of sets, any paths and any cards.   *)
(***************************************************************************)
EXTENDS SdCard, TLAPS

CardRecords == [exists : BOOLEAN, size : {0, HeadSector + 1}, sectors : Contents]

LEMMA Sizes ==
    /\ MAX_N_SETS \in Nat /\ MAX_N_SETS > 0 /\ HeadSector = MAX_N_SETS
    /\ Sectors = 0 .. MAX_N_SETS /\ Slots = 0 .. MAX_N_SETS - 1
    /\ Slots \subseteq Sectors /\ HeadSector \in Sectors /\ HeadSector \notin Slots
    /\ Meta \notin Sectors
    /\ \A s \in Sectors : s # HeadSector <=> s \in Slots
  BY SetsAssumption DEF HeadSector, Sectors, Slots, Meta

LEMMA ValueTypes == /\ SetValues \subseteq Int /\ HeadValues \subseteq Int
                    /\ Lost \in SetValues /\ Lost \in HeadValues /\ Empty \in SetValues
                    /\ 0 \in HeadValues /\ Paths \subseteq SetValues
                    /\ \A s \in Sectors : Fits(s, Lost)
  BY CardAssumption, SetsAssumption
     DEF SetValues, HeadValues, Lost, Empty, Slots, Fits, Sectors, HeadSector

\* The bytes of localData are a possible file.
LEMMA StructType ==
    ASSUME TypeOK
    PROVE  Struct \in Contents /\ \A s \in Sectors : Fits(s, Struct[s]) /\ Struct[s] \in Int
  BY Sizes, ValueTypes DEF TypeOK, Struct, Contents, Fits

\* Flushing touches the sector of the buffer and no other.
LEMMA FlushedType ==
    ASSUME TypeOK
    PROVE  /\ Flushed \in CardRecords
           /\ Flushed.exists = card.exists /\ Flushed.size = card.size
           /\ \A s \in Sectors : Flushed.sectors[s] =
                  IF buffer.modified /\ buffer.sector = s THEN buffer.data ELSE card.sectors[s]
<1>1. CASE buffer.modified
  <2>1. buffer.sector \in Sectors /\ Fits(buffer.sector, buffer.data) /\ buffer.data \in Int
        /\ card \in CardRecords
    BY <1>1 DEF TypeOK, CardRecords
  <2> DEFINE written == [card.sectors EXCEPT ![buffer.sector] = buffer.data]
  <2>3. written \in Contents
    BY <2>1 DEF Contents, CardRecords
  <2>4. Flushed = [card EXCEPT !.sectors = written]
    BY <1>1, <2>1 DEF Flushed, CardRecords
  <2>5. /\ Flushed \in CardRecords /\ Flushed.sectors = written
        /\ Flushed.exists = card.exists /\ Flushed.size = card.size
    <3> HIDE DEF written
    <3> QED
      BY <2>1, <2>3, <2>4 DEF CardRecords
  <2> QED
    BY <1>1, <2>1, <2>5 DEF CardRecords, Contents
<1>2. CASE ~buffer.modified
  BY <1>2 DEF Flushed, TypeOK, CardRecords
<1> QED
  BY <1>1, <1>2
-------------------------------------------------------------------------------
(* Types, and the size of the file.                                         *)

\* A file being saved is as long as what was written of it, unless it was
\* complete before; a file being loaded has grown only if it was just created.
GrowthInv ==
    /\ pc = "load" => job = "load" /\ (file.modified => file.size = 0)
    /\ pc = "save" => /\ job = "save"
                      /\ file.modified => file.size = i
                      /\ ~file.modified => file.size = HeadSector + 1 \/ (file.size = 0 /\ i = 0)

CardInv == TypeOK /\ GrowthInv

LEMMA CardInit == Init => CardInv
<1> SUFFICES ASSUME Init PROVE CardInv
  OBVIOUS
<1>1. card \in CardRecords
  BY CardAssumption DEF Init, CardRecords
<1>2. dataSets \in [Slots -> SetValues] /\ headTimeQueue \in HeadValues
  BY ValueTypes DEF Init
<1>3. /\ buffer \in [sector : Sectors \cup {Meta}, data : Int, modified : BOOLEAN]
      /\ buffer.modified = FALSE
      /\ file \in [in_use : BOOLEAN, modified : BOOLEAN, size : 0 .. HeadSector + 1]
  BY Sizes DEF Init, CleanBuffer, NoFile
<1>4. /\ present \in BOOLEAN /\ connected \in BOOLEAN /\ pulled \in BOOLEAN
      /\ pc = "off" /\ job = "load"
  BY Zenon DEF Init
<1>5. /\ i \in 0 .. HeadSector + 1 /\ result \in {0, -1, -3} /\ failures \in 0 .. MaxFailures
  <2>1. i = 0 /\ result = 0 /\ failures = 0
    BY Zenon DEF Init
  <2> QED
    BY <2>1, Sizes, CardAssumption
<1>6. TypeOK
  BY <1>1, <1>2, <1>3, <1>4, <1>5 DEF TypeOK, CardRecords
<1> QED
  BY <1>4, <1>6 DEF CardInv, GrowthInv

\* What the type invariant says of the driver alone, and of the rest.
DriverTypeOK ==
    /\ card \in CardRecords
    /\ buffer \in [sector : Sectors \cup {Meta}, data : Int, modified : BOOLEAN]
    /\ buffer.modified => buffer.sector \in Sectors /\ Fits(buffer.sector, buffer.data)
    /\ file \in [in_use : BOOLEAN, modified : BOOLEAN, size : 0 .. HeadSector + 1]

DataTypeOK == dataSets \in [Slots -> SetValues] /\ headTimeQueue \in HeadValues

ProgramTypeOK ==
    /\ present \in BOOLEAN /\ connected \in BOOLEAN /\ pulled \in BOOLEAN
    /\ pc \in {"off", "check", "mount", "load", "save", "menu"}
    /\ job \in {"load", "save"} /\ i \in 0 .. HeadSector + 1
    /\ result \in {0, -1, -3} /\ failures \in 0 .. MaxFailures

LEMMA TypeParts == TypeOK <=> DriverTypeOK /\ DataTypeOK /\ ProgramTypeOK
  BY DEF TypeOK, DriverTypeOK, DataTypeOK, ProgramTypeOK, CardRecords

LEMMA ClosedType ==
    ASSUME DriverTypeOK
    PROVE  /\ Closed \in [in_use : BOOLEAN, modified : BOOLEAN, size : 0 .. HeadSector + 1]
           /\ ~Closed.modified /\ Closed.size = file.size
  BY DEF DriverTypeOK, Closed

LEMMA CleanType ==
    /\ CleanBuffer \in [sector : Sectors \cup {Meta}, data : Int, modified : BOOLEAN]
    /\ ~CleanBuffer.modified
  BY DEF CleanBuffer

LEMMA ReadType ==
    ASSUME CardInv, LoadNext
    PROVE  DriverTypeOK' /\ DataTypeOK' /\ GrowthInv'
<1>1. /\ DriverTypeOK /\ DataTypeOK /\ i \in Sectors /\ pc = "load" /\ pc' = "load"
      /\ job' = job
  BY TypeParts DEF CardInv, LoadNext
<1>2. ASSUME NEW value, Fits(i, value), Loaded(value)
      PROVE  DataTypeOK'
  BY <1>1, <1>2, Sizes DEF Loaded, DataTypeOK, Fits
<1>3. /\ Flushed \in CardRecords /\ Fits(i, Flushed.sectors[i]) /\ Flushed.sectors[i] \in Int
  BY <1>1, FlushedType DEF CardInv, CardRecords, Contents
<1>4. CASE /\ Loaded(Flushed.sectors[i]) /\ card' = Flushed /\ UNCHANGED file
           /\ buffer' = [sector |-> i, data |-> Flushed.sectors[i], modified |-> FALSE]
  <2>1. DriverTypeOK'
    BY <1>1, <1>3, <1>4 DEF DriverTypeOK
  <2> QED
    BY <1>1, <1>2, <1>3, <1>4, <2>1 DEF CardInv, GrowthInv
<1>5. CASE Loaded(Lost) /\ file' = Closed /\ UNCHANGED <<card, buffer>>
  <2>1. DriverTypeOK' /\ ~file'.modified
    BY <1>1, <1>5, ClosedType DEF DriverTypeOK
  <2> QED
    BY <1>1, <1>2, <1>5, <2>1, ValueTypes DEF CardInv, GrowthInv
<1>6. CASE Loaded(Lost) /\ UNCHANGED <<card, buffer, file>>
  BY <1>1, <1>2, <1>6, ValueTypes DEF CardInv, GrowthInv, DriverTypeOK
<1> QED
  BY <1>4, <1>5, <1>6 DEF LoadNext, ReadSector

LEMMA WriteType ==
    ASSUME CardInv, SaveNext
    PROVE  DriverTypeOK' /\ DataTypeOK' /\ GrowthInv'
<1>1. /\ DriverTypeOK /\ DataTypeOK /\ i \in Sectors /\ pc = "save" /\ pc' = "save"
      /\ job' = job /\ i' = i + 1 /\ UNCHANGED localData
  BY TypeParts DEF CardInv, SaveNext
<1>2. /\ card' = Flushed /\ file' = Grown
      /\ buffer' = [sector |-> i, data |-> Struct[i], modified |-> TRUE]
  BY DEF SaveNext, WriteSector
<1>3. card' \in CardRecords
  BY <1>2, FlushedType DEF CardInv
<1>4. /\ buffer' \in [sector : Sectors \cup {Meta}, data : Int, modified : BOOLEAN]
      /\ buffer'.sector \in Sectors /\ Fits(buffer'.sector, buffer'.data)
  BY <1>1, <1>2, StructType DEF CardInv
<1>5. /\ file' \in [in_use : BOOLEAN, modified : BOOLEAN, size : 0 .. HeadSector + 1]
      /\ file'.modified => file'.size = i + 1
      /\ ~file'.modified => file'.size = HeadSector + 1
  <2>1. /\ file \in [in_use : BOOLEAN, modified : BOOLEAN, size : 0 .. HeadSector + 1]
        /\ file.size \in Int /\ i \in 0 .. HeadSector /\ HeadSector \in Nat
        /\ file.modified => file.size = i
        /\ ~file.modified => file.size = HeadSector + 1 \/ (file.size = 0 /\ i = 0)
    BY <1>1, Sizes DEF CardInv, GrowthInv, DriverTypeOK
  <2>2. CASE i < file.size
    <3>1. file' = file
      BY <1>2, <2>2 DEF Grown
    <3> QED
      BY <2>1, <2>2, <3>1
  <2>3. CASE ~(i < file.size)
    <3>1. file' = [file EXCEPT !.size = file.size + 1, !.modified = TRUE] /\ file.size = i
      BY <1>2, <2>1, <2>3 DEF Grown
    <3>2. file' = [in_use |-> file.in_use, modified |-> TRUE, size |-> i + 1]
      BY <2>1, <3>1
    <3>3. file.in_use \in BOOLEAN /\ i + 1 \in 0 .. HeadSector + 1
      BY <2>1
    <3> QED
      BY <3>2, <3>3
  <2> QED
    BY <2>2, <2>3
<1> QED
  BY <1>1, <1>3, <1>4, <1>5 DEF DriverTypeOK, DataTypeOK, localData, GrowthInv, CardInv

LEMMA OpenType ==
    ASSUME CardInv, Mount
    PROVE  DriverTypeOK' /\ GrowthInv'
<1>1. /\ card' = [Flushed EXCEPT !.exists = TRUE] /\ buffer' = CleanBuffer
      /\ file' = [in_use |-> TRUE, modified |-> ~card.exists,
                  size |-> IF card.exists THEN card.size ELSE 0]
      /\ pc' = job /\ job' = job /\ i' = 0 /\ DriverTypeOK
  BY TypeParts DEF Mount, Open, CardInv
<1>2. card' \in CardRecords
  BY <1>1, FlushedType DEF CardInv, CardRecords
<1>3. /\ file' \in [in_use : BOOLEAN, modified : BOOLEAN, size : 0 .. HeadSector + 1]
      /\ file'.modified => file'.size = 0
      /\ file'.size \in {0, HeadSector + 1}
  <2>1. card.exists \in BOOLEAN /\ card.size \in {0, HeadSector + 1} /\ HeadSector \in Nat
    BY <1>1, Sizes DEF DriverTypeOK, CardRecords
  <2>2. CASE card.exists
    <3>1. file' = [in_use |-> TRUE, modified |-> FALSE, size |-> card.size]
      BY <1>1, <2>2
    <3> QED
      BY <2>1, <3>1
  <2>3. CASE ~card.exists
    <3>1. file' = [in_use |-> TRUE, modified |-> TRUE, size |-> 0]
      BY <1>1, <2>3
    <3> QED
      BY <2>1, <3>1
  <2> QED
    BY <2>2, <2>3
<1>4. DriverTypeOK'
  BY <1>1, <1>2, <1>3, CleanType DEF DriverTypeOK
<1>5. job \in {"load", "save"}
  BY DEF CardInv, TypeOK
<1> QED
  BY <1>1, <1>3, <1>4, <1>5 DEF GrowthInv

LEMMA CloseType ==
    ASSUME CardInv, Finish
    PROVE  DriverTypeOK'
<1>1. /\ DriverTypeOK /\ file' = Closed /\ pc \in {"load", "save"}
      /\ i \in 0 .. HeadSector + 1 /\ i \notin Sectors
  BY TypeParts DEF CardInv, Finish, Close, ProgramTypeOK
<1>2. file.modified => file.size \in {0, HeadSector + 1}
  BY <1>1, Sizes DEF CardInv, GrowthInv
<1>3. CASE UNCHANGED <<card, buffer>>
  BY <1>1, <1>3, ClosedType DEF DriverTypeOK
<1>4. CASE file.modified /\ card' = [Flushed EXCEPT !.size = file.size] /\ buffer' = CleanBuffer
  <2>1. card' \in CardRecords
    BY <1>2, <1>4, FlushedType DEF CardInv, CardRecords
  <2> QED
    BY <1>1, <1>4, <2>1, ClosedType, CleanType DEF DriverTypeOK
<1> QED
  BY <1>3, <1>4 DEF Finish, Close

LEMMA TypeStep == CardInv /\ [Next]_vars => CardInv'
<1> SUFFICES ASSUME CardInv, [Next]_vars PROVE CardInv'
  OBVIOUS
<1>1. DriverTypeOK /\ DataTypeOK /\ ProgramTypeOK /\ GrowthInv
  BY TypeParts DEF CardInv
<1>2. ASSUME DriverTypeOK', DataTypeOK', ProgramTypeOK', GrowthInv' PROVE CardInv'
  BY <1>2, TypeParts, PTL DEF CardInv
\* The steps that touch neither the driver nor the data, and do not read or write on.
<1>3. ASSUME UNCHANGED <<localData, driverVars>>, ProgramTypeOK',
             UNCHANGED <<pc, job, i>> \/ pc' \notin {"load", "save"}
      PROVE  CardInv'
  <2>1. DriverTypeOK' /\ DataTypeOK'
    BY <1>1, <1>3 DEF DriverTypeOK, DataTypeOK, localData, driverVars
  <2>2. GrowthInv'
    BY <1>1, <1>3 DEF GrowthInv, driverVars
  <2> QED
    BY <1>2, <1>3, <2>1, <2>2
<1>4. CASE UNCHANGED vars
  BY <1>1, <1>3, <1>4 DEF vars, driverVars, ProgramTypeOK
<1>5. CASE CheckPresent \/ MountFails \/ GiveUp
  <2>1. ProgramTypeOK' /\ pc' \notin {"load", "save"}
    BY <1>1, <1>5 DEF CheckPresent, MountFails, GiveUp, AskToDisconnect, Return, history,
                      ProgramTypeOK
  <2> QED
    BY <1>3, <1>5, <2>1 DEF CheckPresent, MountFails, GiveUp
<1>6. CASE Remove \/ Insert
  <2>1. ProgramTypeOK'
    BY <1>1, <1>6 DEF Remove, Insert, history, ProgramTypeOK
  <2> QED
    BY <1>3, <1>6, <2>1 DEF Remove, Insert
<1>7. CASE Mount
  <2>1. DataTypeOK' /\ ProgramTypeOK'
    BY <1>1, <1>7, Sizes DEF Mount, DataTypeOK, localData, ProgramTypeOK
  <2> QED
    BY <1>2, <1>7, <2>1, OpenType
<1>8. CASE LoadNext \/ SaveNext
  <2>1. ProgramTypeOK'
    BY <1>1, <1>8, Sizes DEF LoadNext, SaveNext, history, ProgramTypeOK
  <2> QED
    BY <1>2, <1>8, <2>1, ReadType, WriteType
<1>9. CASE SaveError
  <2>1. DriverTypeOK' /\ DataTypeOK'
    BY <1>1, <1>9, ClosedType DEF SaveError, DriverTypeOK, DataTypeOK, localData
  <2>2. ProgramTypeOK' /\ GrowthInv'
    BY <1>1, <1>9 DEF SaveError, Return, history, ProgramTypeOK, GrowthInv
  <2> QED
    BY <1>2, <2>1, <2>2
<1>10. CASE Finish
  <2>1. DataTypeOK' /\ ProgramTypeOK' /\ GrowthInv'
    BY <1>1, <1>10 DEF Finish, Return, history, DataTypeOK, localData, ProgramTypeOK, GrowthInv
  <2> QED
    BY <1>2, <1>10, <2>1, CloseType
<1>11. CASE Start
  <2>1. DataTypeOK' /\ DriverTypeOK'
    BY <1>1, <1>11, ValueTypes DEF Start, ResetData, driverVars, DataTypeOK, DriverTypeOK
  <2>2. ProgramTypeOK' /\ GrowthInv'
    BY <1>1, <1>11 DEF Start, Call, ProgramTypeOK, GrowthInv
  <2> QED
    BY <1>2, <2>1, <2>2
<1>12. CASE Download
  <2>1. PICK path \in Paths : StorePath(path)
    BY <1>12 DEF Download
  <2>2. headTimeQueue' \in Slots
    BY <1>12, <2>1, SetsAssumption DEF Download, StorePath, NewHead, Slots
  <2>3. DataTypeOK'
    BY <1>1, <2>1, <2>2, ValueTypes DEF StorePath, DataTypeOK, HeadValues
  <2>4. DriverTypeOK' /\ ProgramTypeOK' /\ GrowthInv'
    BY <1>1, <1>12 DEF Download, Call, history, driverVars, DriverTypeOK, ProgramTypeOK, GrowthInv
  <2> QED
    BY <1>2, <2>3, <2>4
<1>13. CASE PowerFailure
  <2>1. DataTypeOK'
    BY <1>13, ValueTypes DEF PowerFailure, ResetData, DataTypeOK
  <2>2. DriverTypeOK'
    BY <1>1, <1>13, CleanType, Sizes DEF PowerFailure, NoFile, DriverTypeOK
  <2>3. /\ connected' = FALSE /\ present' = present /\ pulled' = pulled /\ pc' = "off"
        /\ job' = "load" /\ i' = 0 /\ result' = 0
    BY <1>13, Zenon DEF PowerFailure, history
  <2>4. failures' \in 0 .. MaxFailures /\ 0 \in 0 .. HeadSector + 1
    BY <1>1, <1>13, Sizes, CardAssumption DEF PowerFailure, ProgramTypeOK
  <2>5. ProgramTypeOK' /\ GrowthInv'
    BY <1>1, <2>3, <2>4 DEF ProgramTypeOK, GrowthInv
  <2> QED
    BY <1>2, <2>1, <2>2, <2>5
<1> QED
  BY <1>4, <1>5, <1>6, <1>7, <1>8, <1>9, <1>10, <1>11, <1>12, <1>13 DEF Next, Step

\* Types are kept by any loads, saves, removals and power failures.
THEOREM CardTypeCorrect == Spec => []TypeOK
<1>1. CardInv => TypeOK
  BY DEF CardInv
<1> QED
  BY CardInit, TypeStep, <1>1, PTL DEF Spec
-------------------------------------------------------------------------------
(* What a save has written when it returns.                                 *)

\* While it runs, the sectors written are on the card, but for the last one,
\* which is in the buffer.
Written ==
    /\ \A s \in Sectors : s < i - 1 => card.sectors[s] = Struct[s]
    /\ i > 0 => buffer = [sector |-> i - 1, data |-> Struct[i - 1], modified |-> TRUE]

WrittenInv == (pc = "save" => Written) /\ SavedUpToHead

LEMMA WrittenInit == Init => WrittenInv
  BY Zenon DEF Init, WrittenInv, SavedUpToHead

LEMMA WrittenNext ==
    ASSUME CardInv, Written, SaveNext
    PROVE  Written'
<1>1. /\ i \in Sectors /\ i' = i + 1 /\ card' = Flushed
      /\ buffer' = [sector |-> i, data |-> Struct[i], modified |-> TRUE]
      /\ i \in 0 .. MAX_N_SETS
  BY Sizes DEF SaveNext, WriteSector
<1>2. Struct' = Struct
  BY DEF SaveNext, localData, Struct
<1>3. ASSUME NEW s \in Sectors, s < i PROVE card'.sectors[s] = Struct[s]
  <2>1. s \in 0 .. MAX_N_SETS
    BY Sizes
  <2>2. card'.sectors[s] = IF buffer.modified /\ buffer.sector = s THEN buffer.data
                           ELSE card.sectors[s]
    BY <1>1, FlushedType DEF CardInv
  <2>3. i > 0 /\ buffer = [sector |-> i - 1, data |-> Struct[i - 1], modified |-> TRUE]
    BY <1>1, <1>3, <2>1 DEF Written
  <2>4. CASE s = i - 1
    BY <2>2, <2>3, <2>4
  <2>5. CASE s # i - 1
    BY <1>1, <1>3, <2>1, <2>2, <2>3, <2>5 DEF Written
  <2> QED
    BY <2>4, <2>5
<1>4. i' - 1 = i
  BY <1>1
<1> QED
  BY <1>1, <1>2, <1>3, <1>4 DEF Written

\* The last sector is the head's; closing the file leaves it or flushes it.
LEMMA WrittenFinish ==
    ASSUME CardInv, Written, Finish, pc = "save"
    PROVE  SavedUpToHead'
<1>1. i = HeadSector + 1
  BY Sizes DEF CardInv, TypeOK, Finish
<1>2. /\ \A s \in Slots : card.sectors[s] = dataSets[s]
      /\ buffer = [sector |-> HeadSector, data |-> headTimeQueue, modified |-> TRUE]
  BY <1>1, Sizes DEF Written, Struct
<1>3. UNCHANGED localData
  BY DEF Finish
<1>4. CASE UNCHANGED <<card, buffer>>
  BY <1>2, <1>3, <1>4 DEF SavedUpToHead, localData
<1>5. CASE card' = [Flushed EXCEPT !.size = file.size]
  <2>1. card'.sectors = Flushed.sectors
    BY <1>5, FlushedType DEF CardInv, CardRecords
  <2>2. card'.sectors[HeadSector] = headTimeQueue
    BY <1>2, <2>1, FlushedType, Sizes DEF CardInv
  <2>3. \A s \in Slots : card'.sectors[s] = dataSets[s]
    BY <1>2, <2>1, FlushedType, Sizes DEF CardInv
  <2> QED
    BY <1>3, <2>2, <2>3 DEF SavedUpToHead, localData
<1> QED
  BY <1>4, <1>5 DEF Finish, Close

LEMMA WrittenStep == CardInv /\ WrittenInv /\ [Next]_vars => WrittenInv'
<1> SUFFICES ASSUME CardInv, WrittenInv, [Next]_vars PROVE WrittenInv'
  OBVIOUS
\* The steps that keep data, card and buffer, and end no save.
<1>1. ASSUME UNCHANGED <<localData, card, buffer>>,
             UNCHANGED <<pc, job, result, i>> \/ (pc' # "save" /\ (pc' = "menu" => result' # 0))
      PROVE  WrittenInv'
  BY <1>1 DEF WrittenInv, Written, SavedUpToHead, Struct, localData
\* The steps after which neither a save runs nor one has returned.
<1>2. ASSUME pc' \notin {"save", "menu"} PROVE WrittenInv'
  BY <1>2 DEF WrittenInv, SavedUpToHead
<1>3. CASE UNCHANGED vars \/ Remove \/ Insert
  BY <1>1, <1>3 DEF vars, Remove, Insert, driverVars
<1>4. CASE Start \/ CheckPresent \/ MountFails \/ LoadNext \/ Download \/ PowerFailure
  BY <1>2, <1>4 DEF Start, Call, CheckPresent, MountFails, LoadNext, Download, PowerFailure
<1>5. CASE GiveUp \/ SaveError
  BY <1>1, <1>5 DEF GiveUp, SaveError, Return, driverVars
<1>6. CASE Mount
  <2>1. i' = 0 /\ Sectors = 0 .. MAX_N_SETS /\ pc' # "menu"
    BY <1>6, Sizes DEF Mount, CardInv, TypeOK
  <2> QED
    BY <2>1 DEF WrittenInv, Written, SavedUpToHead
<1>7. CASE SaveNext
  BY <1>7, WrittenNext DEF WrittenInv, SaveNext, SavedUpToHead
<1>8. CASE Finish
  <2>1. CASE pc = "save"
    BY <1>8, <2>1, WrittenFinish DEF WrittenInv, Finish, Return
  <2>2. CASE pc = "load"
    BY <1>8, <2>2 DEF WrittenInv, SavedUpToHead, CardInv, GrowthInv, Finish, Return
  <2> QED
    BY <1>8, <2>1, <2>2 DEF Finish
<1> QED
  BY <1>3, <1>4, <1>5, <1>6, <1>7, <1>8 DEF Next, Step

\* A save that returns 0 has brought every sector but the last to the card, the last there
\* or to the buffer, for any number of sets and whatever was pulled in between.
THEOREM SaveCorrect == Spec => []SavedUpToHead
<1>1. WrittenInv => SavedUpToHead
  BY DEF WrittenInv
<1> QED
  BY CardInit, TypeStep, WrittenInit, WrittenStep, <1>1, PTL DEF Spec
-------------------------------------------------------------------------------
(* What a load has read when it returns.                                    *)

\* Of the sectors done, the first n are the file's and the others lost; once
\* one is lost, so are all that follow.
ReadUpTo(n) ==
    /\ \A s \in Sectors : s < i => Struct[s] = IF s < n THEN card.sectors[s] ELSE Lost
    /\ n < i => ~file.in_use \/ file.size <= n

ReadInv == /\ pc = "load" => ~buffer.modified /\ \E n \in 0 .. i : ReadUpTo(n)
           /\ LoadIsPrefix

LEMMA ReadInit == Init => ReadInv
<1> SUFFICES ASSUME Init PROVE ReadInv
  OBVIOUS
<1>1. pc = "off"
  BY Zenon DEF Init
<1> QED
  BY <1>1 DEF ReadInv, LoadIsPrefix

\* A sector read changes its own bytes of localData only.
LEMMA LoadedBytes ==
    ASSUME CardInv, i \in Sectors, NEW value, Loaded(value)
    PROVE  \A s \in Sectors : Struct'[s] = IF s = i THEN value ELSE Struct[s]
<1>1. CASE i = HeadSector
  BY <1>1, Sizes DEF Loaded, Struct
<1>2. CASE i # HeadSector
  <2>1. i \in Slots /\ dataSets \in [Slots -> SetValues]
    BY <1>2, Sizes DEF CardInv, TypeOK
  <2>2. dataSets' = [dataSets EXCEPT ![i] = value] /\ headTimeQueue' = headTimeQueue
    BY <1>2 DEF Loaded
  <2> QED
    BY <1>2, <2>1, <2>2, Sizes DEF Struct
<1> QED
  BY <1>1, <1>2

LEMMA ReadNext ==
    ASSUME CardInv, ~buffer.modified, NEW n \in 0 .. i, ReadUpTo(n), LoadNext
    PROVE  ~buffer'.modified /\ \E m \in 0 .. i' : ReadUpTo(m)'
<1>1. /\ i \in Sectors /\ i \in 0 .. MAX_N_SETS /\ i' = i + 1 /\ Sectors = 0 .. MAX_N_SETS
      /\ file.size \in Int
  BY Sizes DEF LoadNext, CardInv, TypeOK
<1>2. Flushed = card
  BY DEF Flushed
<1>3. CASE /\ InFile /\ Loaded(card.sectors[i]) /\ card' = card
           /\ buffer' = [sector |-> i, data |-> card.sectors[i], modified |-> FALSE]
  <2>1. n = i
    BY <1>1, <1>3 DEF InFile, ReadUpTo
  <2>2. \A s \in Sectors : Struct'[s] = IF s = i THEN card.sectors[i] ELSE Struct[s]
    BY <1>1, <1>3, LoadedBytes
  <2>3. \A s \in Sectors : s < i + 1 => Struct'[s] = card.sectors[s]
    BY <1>1, <2>1, <2>2 DEF ReadUpTo
  <2>4. PICK m \in 0 .. i' : m = i + 1
    BY <1>1
  <2>5. ReadUpTo(m)'
    BY <1>1, <1>3, <2>3, <2>4 DEF ReadUpTo
  <2>6. ~buffer'.modified
    BY <1>3
  <2> QED
    BY <2>5, <2>6
<1>4. CASE /\ Loaded(Lost) /\ UNCHANGED <<card, buffer>>
           /\ (InFile /\ file' = Closed) \/ (~InFile /\ file' = file)
  <2>1. \A s \in Sectors : Struct'[s] = IF s = i THEN Lost ELSE Struct[s]
    BY <1>1, <1>4, LoadedBytes
  <2>2. \A s \in Sectors : s < i + 1 => Struct'[s] = IF s < n THEN card.sectors[s] ELSE Lost
    BY <1>1, <2>1 DEF ReadUpTo
  <2>3. ~file'.in_use \/ file'.size <= n
    <3>1. CASE InFile
      BY <1>4, <3>1 DEF Closed, CardInv, TypeOK
    <3>2. CASE ~InFile
      BY <1>1, <1>4, <3>2 DEF InFile, ReadUpTo
    <3> QED
      BY <3>1, <3>2
  <2>4. ReadUpTo(n)'
    BY <1>1, <1>4, <2>2, <2>3 DEF ReadUpTo
  <2>5. n \in 0 .. i' /\ ~buffer'.modified
    BY <1>1, <1>4
  <2> QED
    BY <2>4, <2>5
<1> QED
  BY <1>2, <1>3, <1>4 DEF LoadNext, ReadSector

LEMMA ReadStep == CardInv /\ ReadInv /\ [Next]_vars => ReadInv'
<1> SUFFICES ASSUME CardInv, ReadInv, [Next]_vars PROVE ReadInv'
  OBVIOUS
<1>1. ASSUME UNCHANGED <<localData, card, buffer, file>>,
             UNCHANGED <<pc, job, result, i>>
      PROVE  ReadInv'
  BY <1>1 DEF ReadInv, ReadUpTo, LoadIsPrefix, Struct, localData
\* The steps after which neither a load runs nor one has returned 0.
<1>2. ASSUME pc' # "load", pc' = "menu" => job' = "save" \/ result' # 0 PROVE ReadInv'
  BY <1>2 DEF ReadInv, LoadIsPrefix
<1>3. CASE UNCHANGED vars \/ Remove \/ Insert
  BY <1>1, <1>3 DEF vars, Remove, Insert, driverVars
<1>4. CASE Start \/ CheckPresent \/ MountFails \/ GiveUp \/ Download \/ PowerFailure \/ SaveNext
  BY <1>2, <1>4 DEF Start, Call, CheckPresent, MountFails, GiveUp, Return, Download,
                    PowerFailure, SaveNext
<1>5. CASE SaveError
  BY <1>2, <1>5 DEF SaveError, Return
<1>6. CASE Mount
  <2>1. i' = 0 /\ ~buffer'.modified /\ pc' # "menu"
    BY <1>6, CleanType DEF Mount, Open, CardInv, TypeOK
  <2>2. ReadUpTo(0)' /\ 0 \in 0 .. i'
    BY <2>1, Sizes DEF ReadUpTo
  <2> QED
    BY <2>1, <2>2 DEF ReadInv, LoadIsPrefix
<1>7. CASE LoadNext
  <2>1. pc = "load" /\ pc' = "load"
    BY <1>7 DEF LoadNext
  <2>2. PICK n \in 0 .. i : ReadUpTo(n)
    BY <2>1 DEF ReadInv
  <2> QED
    BY <1>7, <2>1, <2>2, ReadNext DEF ReadInv, LoadIsPrefix
<1>8. CASE Finish
  <2>1. CASE pc = "save"
    BY <1>2, <1>8, <2>1 DEF Finish, Return, CardInv, GrowthInv
  <2>2. CASE pc = "load"
    <3>1. i = HeadSector + 1 /\ Flushed = card /\ UNCHANGED localData
      BY <1>8, <2>2, Sizes DEF Finish, CardInv, TypeOK, ReadInv, Flushed
    <3>2. PICK n \in 0 .. i : ReadUpTo(n)
      BY <2>2 DEF ReadInv
    <3>3. card'.sectors = card.sectors
      BY <1>8, <3>1 DEF Finish, Close, CardInv, TypeOK
    <3>4. \A s \in Sectors : Struct'[s] = IF s < n THEN card'.sectors[s] ELSE Lost
      BY <3>1, <3>2, <3>3, Sizes DEF ReadUpTo, Struct, localData
    <3> QED
      BY <1>8, <3>1, <3>4 DEF Finish, Return, ReadInv, LoadIsPrefix
  <2> QED
    BY <1>8, <2>1, <2>2 DEF Finish
<1> QED
  BY <1>3, <1>4, <1>5, <1>6, <1>7, <1>8 DEF Next, Step

\* What a load leaves in localData is the file up to some sector and 0xFF from
\* there on, for any number of sets and whatever was pulled in between.
THEOREM LoadCorrect == Spec => []LoadIsPrefix
<1>1. ReadInv => LoadIsPrefix
  BY DEF ReadInv
<1> QED
  BY CardInit, TypeStep, ReadInit, ReadStep, <1>1, PTL DEF Spec
-------------------------------------------------------------------------------
(* What a power failure leaves.                                             *)

OnCard == RingOf(card.sectors, card.sectors[HeadSector])

\* The card, with what waits in the buffer, is the ring of the last save.
Synced ==
    /\ card.exists /\ card.size = HeadSector + 1
    /\ \A s \in Slots : Flushed.sectors[s] = dataSets[s]
    /\ Flushed.sectors[HeadSector] = headTimeQueue
    /\ saved = RingOf(dataSets, headTimeQueue)

\* A download is on its way: the ring in memory is ahead by one path, and its
\* slot is the oldest of the ring on the card.
Behind(sectors) ==
    /\ card.exists /\ card.size = HeadSector + 1
    /\ headTimeQueue \in Slots
    /\ sectors[HeadSector] \in Slots /\ NewHead(sectors[HeadSector]) = headTimeQueue
    /\ \A s \in Slots \ {headTimeQueue} : sectors[s] = dataSets[s]

Loading ==
    /\ file.in_use
    /\ \/ file.size = 0
       \/ ~file.modified /\ file.size = HeadSector + 1 /\ card.exists /\ card.size = HeadSector + 1
    /\ \A s \in Sectors : s < i => Struct[s] = IF s < file.size THEN card.sectors[s] ELSE Lost

Saving ==
    /\ Behind(card.sectors)
    /\ ~file.modified /\ file.size = HeadSector + 1 /\ (i = 0 => ~buffer.modified)
    /\ saved = RingOf(dataSets, headTimeQueue) /\ Recent(OnCard) = Recent(earlier)

\* As long as nobody pulls the card: the user is asked for nothing; a load
\* changes nothing; the data shown are on the card, and a save brings one path.
Undisturbed == /\ connected = FALSE
               /\ pc \in {"mount", "load", "save"} => present
LoadKeeps   == /\ job = "load" /\ pc \in {"check", "mount", "load"} =>
                      ~buffer.modified /\ saved = OnCard /\ earlier = OnCard
               /\ pc = "load" => Loading
ShownIsOnCard == pc = "menu" /\ headTimeQueue \in Slots => Synced
SaveKeeps   == /\ job = "save" /\ pc \in {"check", "mount"} =>
                      /\ Behind(Flushed.sectors)
                      /\ saved = RingOf(Flushed.sectors, Flushed.sectors[HeadSector])
               /\ pc = "save" => Saving

KeepInv ==
    /\ pc = "off" => ~buffer.modified
    /\ CardKeepsRecent
    /\ ~pulled => Undisturbed /\ LoadKeeps /\ ShownIsOnCard /\ SaveKeeps

\* Two rings with the same sets, or with the same sets but the oldest.
LEMMA SameRing ==
    ASSUME NEW a, NEW b, NEW head \in Slots, \A s \in Slots : a[s] = b[s]
    PROVE  RingOf(a, head) = RingOf(b, head)
<1>1. ASSUME NEW k \in Slots PROVE Before(a, head, k) = Before(b, head, k)
  <2>1. (IF head + k < MAX_N_SETS THEN head + k ELSE head + k - MAX_N_SETS) \in Slots
    BY SetsAssumption DEF Slots
  <2> QED
    BY <2>1 DEF Before
<1> QED
  BY <1>1 DEF RingOf

LEMMA SameRecent ==
    ASSUME NEW a, NEW b, NEW head \in Slots, \A s \in Slots \ {NewHead(head)} : a[s] = b[s]
    PROVE  Recent(RingOf(a, head)) = Recent(RingOf(b, head))
<1>1. ASSUME NEW k \in 0 .. MAX_N_SETS - 2 PROVE RingOf(a, head)[k] = RingOf(b, head)[k]
  <2>1. /\ k \in Slots
        /\ (IF head + k < MAX_N_SETS THEN head + k ELSE head + k - MAX_N_SETS)
             \in Slots \ {NewHead(head)}
    BY SetsAssumption DEF Slots, NewHead
  <2>2. Before(a, head, k) = Before(b, head, k)
    BY <2>1 DEF Before
  <2> QED
    BY <2>1, <2>2 DEF RingOf
<1> QED
  BY <1>1 DEF Recent

LEMMA KeepInit == Init => KeepInv
<1> SUFFICES ASSUME Init PROVE KeepInv
  OBVIOUS
<1>1. /\ pc = "off" /\ connected = FALSE /\ buffer = CleanBuffer
      /\ saved = OnCard
  BY Zenon DEF Init, OnCard
<1>2. CardKeepsRecent
  BY <1>1 DEF CardKeepsRecent, OnCard
<1> QED
  BY <1>1, <1>2, CleanType DEF KeepInv, Undisturbed, LoadKeeps, ShownIsOnCard, SaveKeeps

\* Where card, buffer, data and history stay, only the place in the program can
\* disturb the invariant.
LEMMA KeepUnchanged ==
    ASSUME UNCHANGED <<localData, card, buffer, saved, earlier>>
    PROVE  /\ OnCard' = OnCard /\ Flushed' = Flushed /\ Struct' = Struct
           /\ Behind(card.sectors)' = Behind(card.sectors)
           /\ Behind(Flushed.sectors)' = Behind(Flushed.sectors)
           /\ Synced' = Synced
           /\ pulled' = pulled => CardKeepsRecent' = CardKeepsRecent
<1>1. /\ OnCard' = OnCard /\ Flushed' = Flushed /\ Struct' = Struct
      /\ Behind(card.sectors)' = Behind(card.sectors)
      /\ Behind(Flushed.sectors)' = Behind(Flushed.sectors)
      /\ Synced' = Synced
  BY DEF OnCard, Flushed, Struct, Behind, Synced, localData
<1>2. card' = card /\ saved' = saved /\ earlier' = earlier
  OBVIOUS
<1>3. ASSUME pulled' = pulled PROVE CardKeepsRecent' = CardKeepsRecent
  BY <1>2, <1>3, Zenon DEF CardKeepsRecent, Recent
<1> QED
  BY <1>1, <1>3

LEMMA KeepStutter ==
    ASSUME KeepInv, UNCHANGED <<localData, driverVars, pc, job, connected, i, history>>, present => present'
    PROVE  KeepInv'
<1>1. UNCHANGED <<localData, card, buffer, saved, earlier, file, pulled, pc, job, connected, i>>
  BY DEF driverVars, history
<1>2. /\ OnCard' = OnCard /\ Flushed' = Flushed /\ Struct' = Struct
      /\ Behind(card.sectors)' = Behind(card.sectors)
      /\ Behind(Flushed.sectors)' = Behind(Flushed.sectors)
      /\ Synced' = Synced /\ CardKeepsRecent' = CardKeepsRecent
  BY <1>1, KeepUnchanged
<1>3. Loading' = Loading
  BY <1>1, <1>2, Zenon DEF Loading
<1>4. Saving' = Saving
  BY <1>1, <1>2, Zenon DEF Saving, Recent, localData
<1>5. Undisturbed => Undisturbed'
  <2> SUFFICES ASSUME Undisturbed PROVE Undisturbed'
    OBVIOUS
  <2>1. pc' = pc /\ connected' = connected
    BY <1>1
  <2>2. ASSUME pc \in {"mount", "load", "save"} PROVE present'
    BY <2>2 DEF Undisturbed
  <2>3. connected' = FALSE
    BY <2>1 DEF Undisturbed
  <2> QED
    BY <2>1, <2>2, <2>3 DEF Undisturbed
<1>6. LoadKeeps => LoadKeeps'
  BY <1>1, <1>2, <1>3 DEF LoadKeeps
<1>7. ShownIsOnCard => ShownIsOnCard'
  BY <1>1, <1>2 DEF ShownIsOnCard, localData
<1>8. SaveKeeps => SaveKeeps'
  BY <1>1, <1>2, <1>4 DEF SaveKeeps
<1>9. pc' = "off" => ~buffer'.modified
  BY <1>1 DEF KeepInv
<1> QED
  BY <1>1, <1>2, <1>5, <1>6, <1>7, <1>8, <1>9 DEF KeepInv

\* Once the card is pulled, no more is promised.
LEMMA KeepPulled ==
    ASSUME pulled', pc' = "off" => ~buffer'.modified PROVE KeepInv'
  BY DEF KeepInv, CardKeepsRecent

\* The steps of a call that leave card, buffer and data alone.
LEMMA KeepIdle ==
    ASSUME KeepInv, CheckPresent \/ MountFails \/ GiveUp \/ SaveError
    PROVE  KeepInv'
<1>1. /\ UNCHANGED <<localData, card, buffer, saved, earlier, pulled, present, job>>
      /\ pc' # "off"
  BY DEF CheckPresent, MountFails, GiveUp, SaveError, Return, history, driverVars
<1>2. CASE pulled
  BY <1>1, <1>2, KeepPulled
<1>3. CASE ~pulled /\ (MountFails \/ GiveUp \/ SaveError)
  <2>1. (pc \in {"mount", "save"} /\ ~present) \/ connected
    BY <1>3 DEF MountFails, GiveUp, SaveError
  <2> QED
    BY <1>3, <2>1 DEF KeepInv, Undisturbed
<1>4. CASE ~pulled /\ CheckPresent
  <2>1. pc = "check" /\ pc' = "mount" /\ present' /\ connected' = FALSE
    BY <1>1, <1>4 DEF CheckPresent, KeepInv, Undisturbed
  <2>2. Undisturbed' /\ ShownIsOnCard'
    BY <2>1 DEF Undisturbed, ShownIsOnCard
  <2>3. LoadKeeps' /\ SaveKeeps'
    BY <1>1, <1>4, <2>1, KeepUnchanged DEF KeepInv, LoadKeeps, SaveKeeps
  <2>4. CardKeepsRecent'
    BY <1>1, KeepUnchanged DEF KeepInv
  <2> QED
    BY <1>1, <2>2, <2>3, <2>4 DEF KeepInv
<1> QED
  BY <1>2, <1>3, <1>4

LEMMA KeepRemove == ASSUME KeepInv, Remove PROVE KeepInv'
<1>1. pulled' /\ pc' # "off"
  BY DEF Remove
<1> QED
  BY <1>1, KeepPulled

LEMMA KeepFailure == ASSUME CardInv, KeepInv, PowerFailure PROVE KeepInv'
<1>1. /\ pc' = "off" /\ buffer' = CleanBuffer /\ UNCHANGED <<card, saved, earlier, pulled>>
      /\ connected' = FALSE
  BY DEF PowerFailure, history
<1>2. CardKeepsRecent'
  BY <1>1 DEF KeepInv, CardKeepsRecent
<1> QED
  BY <1>1, <1>2, CleanType DEF KeepInv, Undisturbed, LoadKeeps, ShownIsOnCard, SaveKeeps

LEMMA KeepStart == ASSUME CardInv, KeepInv, Start PROVE KeepInv'
<1>1. /\ pc = "off" /\ pc' = "check" /\ job' = "load" /\ connected' = FALSE
      /\ UNCHANGED <<card, buffer>> /\ saved' = OnCard /\ earlier' = OnCard
  BY DEF Start, Call, driverVars, OnCard
<1>2. OnCard' = OnCard
  BY <1>1 DEF OnCard
<1>3. CardKeepsRecent'
  BY <1>1, <1>2 DEF CardKeepsRecent, OnCard
<1>4. ~buffer'.modified
  BY <1>1 DEF KeepInv
<1> QED
  BY <1>1, <1>2, <1>3, <1>4 DEF KeepInv, Undisturbed, LoadKeeps, ShownIsOnCard, SaveKeeps

\* A download makes the ring in memory one path newer than the one on the card.
LEMMA KeepDownload == ASSUME CardInv, KeepInv, Download PROVE KeepInv'
<1>1. /\ pc = "menu" /\ headTimeQueue \in Slots /\ pc' = "check" /\ job' = "save"
      /\ UNCHANGED <<card, buffer, saved, earlier, pulled>> /\ connected' = FALSE
  BY DEF Download, Call, driverVars, history
<1>2. PICK path \in Paths : StorePath(path)
  BY DEF Download
<1>3. CASE pulled
  BY <1>1, <1>3, KeepPulled
<1>4. CASE ~pulled
  <2>1. Synced
    BY <1>1, <1>4 DEF KeepInv, ShownIsOnCard
  <2>2. /\ headTimeQueue' = NewHead(headTimeQueue) /\ headTimeQueue' \in Slots
        /\ \A s \in Slots \ {headTimeQueue'} : dataSets'[s] = dataSets[s]
    BY <1>1, <1>2, SetsAssumption DEF StorePath, NewHead, Slots, CardInv, TypeOK
  <2>3. Flushed' = Flushed
    BY <1>1 DEF Flushed
  <2>4. Behind(Flushed.sectors)'
    BY <1>1, <2>1, <2>2, <2>3 DEF Synced, Behind
  <2>5. saved = RingOf(Flushed.sectors, Flushed.sectors[HeadSector])
    BY <1>1, <2>1, SameRing DEF Synced
  <2>6. SaveKeeps' /\ LoadKeeps' /\ ShownIsOnCard' /\ Undisturbed'
    BY <1>1, <2>3, <2>4, <2>5 DEF SaveKeeps, LoadKeeps, ShownIsOnCard, Undisturbed
  <2>7. CardKeepsRecent'
    BY <1>1 DEF KeepInv, CardKeepsRecent
  <2> QED
    BY <1>1, <2>6, <2>7 DEF KeepInv
<1> QED
  BY <1>3, <1>4

LEMMA KeepMount == ASSUME CardInv, KeepInv, Mount PROVE KeepInv'
<1>1. /\ pc = "mount" /\ pc' = job /\ job' = job /\ job \in {"load", "save"} /\ i' = 0 /\ present
      /\ UNCHANGED <<localData, present, connected, pulled>>
      /\ card' = [Flushed EXCEPT !.exists = TRUE] /\ buffer' = CleanBuffer
      /\ file' = [in_use |-> TRUE, modified |-> ~card.exists,
                  size |-> IF card.exists THEN card.size ELSE 0]
  BY DEF Mount, Open, CardInv, TypeOK
<1>2. CASE pulled
  BY <1>1, <1>2, KeepPulled
<1>3. CASE ~pulled
  <2>1. /\ card' \in CardRecords /\ card'.sectors = Flushed.sectors /\ card'.exists
        /\ card'.size = card.size /\ card.size \in {0, HeadSector + 1}
        /\ card.exists \in BOOLEAN
    BY <1>1, FlushedType DEF CardInv, CardRecords, TypeOK
  <2>2. Undisturbed' /\ ShownIsOnCard' /\ ~buffer'.modified /\ pc' # "off"
    BY <1>1, <1>3, CleanType DEF KeepInv, Undisturbed, ShownIsOnCard
  <2>3. CASE job = "load"
    <3>1. /\ Flushed = card /\ saved = OnCard /\ earlier = OnCard
          /\ saved' = saved /\ earlier' = earlier
      BY <1>1, <1>3, <2>3 DEF KeepInv, LoadKeeps, Flushed, Mount
    <3>2. OnCard' = OnCard
      BY <2>1, <3>1 DEF OnCard
    <3>3. Loading'
      <4>1. file'.in_use /\ \A s \in Sectors : ~(s < 0)
        BY <1>1, Sizes
      <4>2. file'.size = 0 \/ (~file'.modified /\ file'.size = HeadSector + 1 /\ card.size = HeadSector + 1)
        <5>1. CASE card.exists
          <6>1. file' = [in_use |-> TRUE, modified |-> FALSE, size |-> card.size]
            BY <1>1, <5>1
          <6> QED
            BY <2>1, <6>1
        <5>2. CASE ~card.exists
          <6>1. file' = [in_use |-> TRUE, modified |-> TRUE, size |-> 0]
            BY <1>1, <5>2
          <6> QED
            BY <6>1
        <5> QED
          BY <2>1, <5>1, <5>2
      <4> QED
        BY <1>1, <2>1, <4>1, <4>2 DEF Loading
    <3>4. LoadKeeps' /\ SaveKeeps'
      BY <1>1, <2>2, <2>3, <3>1, <3>2, <3>3 DEF LoadKeeps, SaveKeeps
    <3>5. CardKeepsRecent'
      BY <3>1, <3>2 DEF CardKeepsRecent, OnCard
    <3> QED
      BY <2>2, <3>4, <3>5 DEF KeepInv
  <2>4. CASE job = "save"
    <3>1. /\ Behind(Flushed.sectors)
          /\ saved = RingOf(Flushed.sectors, Flushed.sectors[HeadSector])
          /\ saved' = RingOf(dataSets, headTimeQueue) /\ earlier' = saved
      BY <1>1, <1>3, <2>4 DEF KeepInv, SaveKeeps, Mount
    <3>2. OnCard' = saved
      BY <2>1, <3>1 DEF OnCard
    <3>3. /\ file' = [in_use |-> TRUE, modified |-> FALSE, size |-> card.size]
          /\ card.size = HeadSector + 1
      BY <1>1, <3>1 DEF Behind
    <3>4. Behind(card.sectors)'
      BY <1>1, <2>1, <3>1 DEF Behind, localData
    <3>5. Saving'
      BY <1>1, <2>2, <3>1, <3>2, <3>3, <3>4 DEF Saving, localData
    <3>6. LoadKeeps' /\ SaveKeeps'
      BY <1>1, <2>4, <3>5 DEF LoadKeeps, SaveKeeps
    <3>7. CardKeepsRecent'
      BY <3>1, <3>2 DEF CardKeepsRecent, OnCard
    <3> QED
      BY <2>2, <3>6, <3>7 DEF KeepInv
  <2> QED
    BY <1>1, <2>3, <2>4
<1> QED
  BY <1>2, <1>3

LEMMA KeepLoad == ASSUME CardInv, KeepInv, LoadNext PROVE KeepInv'
<1>1. /\ pc = "load" /\ pc' = "load" /\ job = "load" /\ job' = "load" /\ i \in Sectors /\ i' = i + 1
      /\ UNCHANGED <<present, connected, saved, earlier, pulled>> /\ ReadSector
  BY DEF LoadNext, history, CardInv, GrowthInv
<1>2. CASE pulled
  BY <1>1, <1>2, KeepPulled
<1>3. CASE ~pulled
  <2>1. Loading /\ ~buffer.modified /\ saved = OnCard /\ earlier = OnCard /\ present
        /\ connected = FALSE
    BY <1>1, <1>3 DEF KeepInv, LoadKeeps, Undisturbed
  <2>2. Flushed = card /\ i \in 0 .. HeadSector /\ HeadSector \in Nat
    BY <1>1, <2>1, Sizes DEF Flushed
  <2>3. /\ card' = card /\ file' = file /\ ~buffer'.modified
        /\ Loaded(IF i < file.size THEN card.sectors[i] ELSE Lost)
    BY <1>1, <2>1, <2>2 DEF ReadSector, InFile, Loading
  <2>4. \A s \in Sectors : Struct'[s] = IF s = i THEN (IF i < file.size THEN card.sectors[i] ELSE Lost)
                                        ELSE Struct[s]
    BY <1>1, <2>3, LoadedBytes
  <2>5. \A s \in Sectors : s < i + 1 => Struct'[s] = IF s < file.size THEN card.sectors[s] ELSE Lost
    <3>1. \A s \in Sectors : s < i + 1 => s = i \/ s < i
      BY <2>2, Sizes
    <3> QED
      BY <2>1, <2>4, <3>1 DEF Loading
  <2>6. Loading'
    BY <1>1, <2>1, <2>3, <2>5 DEF Loading
  <2>7. OnCard' = OnCard
    BY <2>3 DEF OnCard
  <2>8. LoadKeeps' /\ SaveKeeps' /\ ShownIsOnCard' /\ Undisturbed'
    BY <1>1, <2>1, <2>3, <2>6, <2>7 DEF LoadKeeps, SaveKeeps, ShownIsOnCard, Undisturbed
  <2>9. CardKeepsRecent'
    BY <1>1, <2>1, <2>7 DEF CardKeepsRecent, OnCard
  <2> QED
    BY <1>1, <2>8, <2>9 DEF KeepInv
<1> QED
  BY <1>2, <1>3

\* The one set of the card that a save changes is the oldest of the ring that
\* the head on the card still heads.
LEMMA KeepSave == ASSUME CardInv, Written, KeepInv, SaveNext PROVE KeepInv'
<1>1. /\ pc = "save" /\ pc' = "save" /\ job = "save" /\ job' = "save" /\ i \in Sectors /\ i' = i + 1
      /\ UNCHANGED <<localData, present, connected, saved, earlier, pulled>>
      /\ card' = Flushed /\ file' = Grown
  BY DEF SaveNext, WriteSector, history, CardInv, GrowthInv
<1>2. CASE pulled
  BY <1>1, <1>2, KeepPulled
<1>3. CASE ~pulled
  <2>1. Saving /\ Undisturbed
    BY <1>1, <1>3 DEF KeepInv, SaveKeeps
  <2>2. i \in 0 .. HeadSector /\ HeadSector \in Nat
    BY <1>1, Sizes
  <2>3. /\ file.size = HeadSector + 1 /\ file' = file
    BY <1>1, <2>1, <2>2 DEF Grown, Saving
  <2>4. ASSUME NEW s \in Slots \ {headTimeQueue} PROVE Flushed.sectors[s] = dataSets[s]
    <3>1. s \in Sectors /\ card.sectors[s] = dataSets[s] /\ Struct[s] = dataSets[s]
      BY <2>1, Sizes DEF Saving, Behind, Struct
    <3>2. Flushed.sectors[s] = IF buffer.modified /\ buffer.sector = s THEN buffer.data
                               ELSE card.sectors[s]
      BY <3>1, FlushedType DEF CardInv
    <3>3. buffer.modified => buffer = [sector |-> i - 1, data |-> Struct[i - 1], modified |-> TRUE]
      BY <2>1, <2>2 DEF Written, Saving
    <3> QED
      BY <3>1, <3>2, <3>3
  <2>5. Flushed.sectors[HeadSector] = card.sectors[HeadSector]
    <3>1. Flushed.sectors[HeadSector] = IF buffer.modified /\ buffer.sector = HeadSector THEN buffer.data
                               ELSE card.sectors[HeadSector]
      BY Sizes, FlushedType DEF CardInv
    <3>2. buffer.modified => buffer = [sector |-> i - 1, data |-> Struct[i - 1], modified |-> TRUE]
      BY <2>1, <2>2 DEF Written, Saving
    <3>3. i - 1 # HeadSector
      BY <2>2
    <3> QED
      BY <3>1, <3>2, <3>3
  <2>6. Behind(card.sectors)'
    <3>1. card'.exists = card.exists /\ card'.size = card.size
      BY <1>1, FlushedType DEF CardInv
    <3>2. headTimeQueue' = headTimeQueue /\ dataSets' = dataSets
      BY <1>1 DEF localData
    <3> QED
      BY <1>1, <2>1, <2>4, <2>5, <3>1, <3>2 DEF Behind, Saving
  <2>7. Recent(OnCard') = Recent(OnCard)
    <3> DEFINE head == card.sectors[HeadSector]
    <3>1. head \in Slots /\ \A s \in Slots \ {NewHead(head)} : Flushed.sectors[s] = card.sectors[s]
      BY <2>1, <2>4 DEF Saving, Behind
    <3>2. OnCard = RingOf(card.sectors, head) /\ OnCard' = RingOf(Flushed.sectors, head)
      BY <1>1, <2>5 DEF OnCard
    <3> HIDE DEF head
    <3> QED
      BY <3>1, <3>2, SameRecent
  <2>8. Saving'
    BY <1>1, <2>1, <2>2, <2>3, <2>6, <2>7 DEF Saving, localData
  <2>9. LoadKeeps' /\ SaveKeeps' /\ ShownIsOnCard'
    BY <1>1, <2>8 DEF LoadKeeps, SaveKeeps, ShownIsOnCard
  <2>10. Undisturbed'
    BY <1>1, <2>1 DEF Undisturbed
  <2>11. CardKeepsRecent'
    BY <1>1, <2>1, <2>7 DEF CardKeepsRecent, OnCard, Saving
  <2> QED
    BY <1>1, <2>9, <2>10, <2>11 DEF KeepInv
<1> QED
  BY <1>2, <1>3

LEMMA KeepFinish == ASSUME CardInv, WrittenInv, KeepInv, Finish PROVE KeepInv'
<1>1. /\ pc \in {"load", "save"} /\ pc' = "menu" /\ job' = job /\ i \notin Sectors
      /\ UNCHANGED <<localData, present, connected, saved, earlier, pulled>> /\ Close
  BY DEF Finish, Return, history
<1>2. CASE pulled
  BY <1>1, <1>2, KeepPulled
<1>3. CASE ~pulled
  <2>1. i = HeadSector + 1 /\ HeadSector \in Nat /\ \A s \in Sectors : s < i
    BY <1>1, Sizes DEF CardInv, TypeOK
  <2>2. Undisturbed' /\ LoadKeeps' /\ SaveKeeps'
    BY <1>1, <1>3 DEF KeepInv, Undisturbed, LoadKeeps, SaveKeeps
  <2>3. CASE pc = "load"
    <3>1. Loading /\ ~buffer.modified /\ saved = OnCard /\ earlier = OnCard
      BY <1>3, <2>3 DEF KeepInv, LoadKeeps, CardInv, GrowthInv
    <3>2. Flushed = card
      BY <3>1 DEF Flushed
    <3>3. OnCard' = OnCard
      BY <1>1, <3>2 DEF Close, OnCard, CardInv, TypeOK
    <3>4. CardKeepsRecent'
      BY <1>1, <3>1, <3>3 DEF CardKeepsRecent, OnCard
    <3>5. ASSUME headTimeQueue' \in Slots PROVE Synced'
      <4>1. \A s \in Sectors : Struct[s] = IF s < file.size THEN card.sectors[s] ELSE Lost
        BY <2>1, <3>1 DEF Loading
      <4>2. Struct[HeadSector] = headTimeQueue /\ headTimeQueue \in Slots /\ Lost \notin Slots
        BY <1>1, <3>5, Sizes DEF Struct, localData, Lost
      <4>3. HeadSector < file.size
        BY <4>1, <4>2, Sizes
      <4>4. file.size = HeadSector + 1 /\ ~file.modified /\ card.exists /\ card.size = HeadSector + 1
        BY <2>1, <3>1, <4>3 DEF Loading
      <4>5. \A s \in Sectors : Struct[s] = card.sectors[s]
        BY <2>1, <4>1, <4>4
      <4>6. card' = card /\ buffer' = buffer
        BY <1>1, <4>4 DEF Close
      <4>7. /\ \A s \in Slots : card.sectors[s] = dataSets[s]
            /\ card.sectors[HeadSector] = headTimeQueue
        BY <4>2, <4>5, Sizes DEF Struct
      <4>8. saved = RingOf(dataSets, headTimeQueue)
        BY <3>1, <4>2, <4>7, SameRing DEF OnCard
      <4>9. Flushed' = card
        BY <3>2, <4>6 DEF Flushed
      <4> QED
        BY <1>1, <4>4, <4>6, <4>7, <4>8, <4>9 DEF Synced, localData
    <3>6. ShownIsOnCard'
      BY <3>5 DEF ShownIsOnCard
    <3> QED
      BY <1>1, <2>2, <3>4, <3>6 DEF KeepInv
  <2>4. CASE pc = "save"
    <3>1. Saving /\ Written
      BY <1>3, <2>4 DEF KeepInv, SaveKeeps, WrittenInv
    <3>2. card' = card /\ buffer' = buffer /\ Flushed' = Flushed /\ OnCard' = OnCard
      BY <1>1, <3>1 DEF Close, Saving, Flushed, OnCard
    <3>3. CardKeepsRecent'
      BY <1>1, <3>1, <3>2 DEF CardKeepsRecent, OnCard, Saving
    <3>4. /\ \A s \in Slots : card.sectors[s] = dataSets[s]
          /\ buffer = [sector |-> HeadSector, data |-> headTimeQueue, modified |-> TRUE]
      BY <2>1, <3>1, Sizes DEF Written, Struct
    <3>5. /\ \A s \in Slots : Flushed.sectors[s] = dataSets[s]
          /\ Flushed.sectors[HeadSector] = headTimeQueue
      BY <3>4, FlushedType, Sizes DEF CardInv
    <3>6. Synced'
      BY <1>1, <3>1, <3>2, <3>5 DEF Synced, Saving, Behind, localData
    <3>7. ShownIsOnCard'
      BY <3>6 DEF ShownIsOnCard
    <3> QED
      BY <1>1, <2>2, <3>3, <3>7 DEF KeepInv
  <2> QED
    BY <1>1, <2>3, <2>4
<1> QED
  BY <1>2, <1>3

LEMMA KeepStep == CardInv /\ WrittenInv /\ KeepInv /\ [Next]_vars => KeepInv'
<1> SUFFICES ASSUME CardInv, WrittenInv, KeepInv, [Next]_vars PROVE KeepInv'
  OBVIOUS
<1>1. CASE UNCHANGED vars \/ Insert
  <2>1. /\ UNCHANGED <<localData, driverVars, pc, job, connected, i, history>>
        /\ present => present'
    BY <1>1 DEF vars, Insert, driverVars, history
  <2> QED
    BY <2>1, KeepStutter
<1>2. CASE SaveNext
  BY <1>2, KeepSave DEF WrittenInv, SaveNext
<1> QED
  BY <1>1, <1>2, KeepIdle, KeepRemove, KeepFailure, KeepStart, KeepDownload, KeepMount, KeepLoad,
     KeepFinish DEF Next, Step

\* A power failure at any moment leaves the ring of the last save or of the one
\* before, but for its oldest path, for any number of sets, paths and failures.
THEOREM RecentCorrect == Spec => []CardKeepsRecent
<1>1. KeepInv => CardKeepsRecent
  BY DEF KeepInv
<1> QED
  BY CardInit, TypeStep, WrittenInit, WrittenStep, KeepInit, KeepStep, <1>1, PTL DEF Spec
===============================================================================

--------------------------------- MODULE SdCard ---------------------------------
(***************************************************************************)
(* The data sets and their copy on the SD card: sd_card.c, its callers,    *)
(* and the driver of the card as far as sd_card.c uses it.  The file is    *)
(* localDataSets as if each set filled one sector, and the word that says  *)
(* which of them is the latest the one after.  (In the program a set takes *)
(* sixteen sectors and a few bytes of the next, so sets share sectors, and *)
(* the last one holds 44 bytes of the last set before the head.)  Saves    *)
(* and loads go through them in order.  The driver keeps one sector in a buffer   *)
(* and writes it back when it needs the buffer for another.                *)
(***************************************************************************)
EXTENDS DataSets

CONSTANTS
    Paths,       \* what the phone may send, by identity
    Cards,       \* the cards the system may be started with
    Removable,   \* whether the user may pull the card
    MaxFailures  \* bound on power failures

Empty == 0       \* a set of size 0
Lost == -1       \* what reads as bytes 0xFF: a set of size -1, a head of -1

HeadSector == MAX_N_SETS
Sectors == 0 .. HeadSector
Meta == -1       \* any sector of the card outside the file

\* What a sector may hold: a set of the ring, or its head.
SetValues == Paths \cup {Empty, Lost}
HeadValues == Slots \cup {Lost}
Fits(s, value) == value \in IF s = HeadSector THEN HeadValues ELSE SetValues
Contents == {c \in [Sectors -> Int] : \A s \in Sectors : Fits(s, c[s])}

ASSUME CardAssumption ==
    /\ Paths \subseteq Nat \ {Empty}
    /\ Cards \subseteq [exists : BOOLEAN, size : {0, HeadSector + 1}, sectors : Contents]
    /\ Removable \in BOOLEAN /\ MaxFailures \in Nat

VARIABLES
    card,       \* the file on the card: whether it exists, its size on record, its sectors
    present,    \* alt_up_sd_card_is_Present
    buffer,     \* current_sector_index, its bytes, current_sector_modified
    file,       \* the record in active_files
    pc,
    job,        \* what runs: sd_card_load or sd_card_save
    connected,  \* its local variable
    i,          \* its loop index, in sectors
    result,     \* what it returned
    failures,
    saved,      \* history: the ring of the last save that opened the file,
    earlier,    \* and of the one before,
    pulled      \* and whether the card was pulled since the system started

vars == <<localData, card, present, buffer, file, pc, job, connected, i, result,
          failures, saved, earlier, pulled>>
driverVars == <<card, buffer, file>>
history == <<saved, earlier, pulled>>
-------------------------------------------------------------------------------
(* The driver.                                                              *)

\* The bytes of localData, as the file has them.
Struct == [s \in Sectors |-> IF s = HeadSector THEN headTimeQueue ELSE dataSets[s]]

\* Read_Sector_Data writes a modified buffer back before it reads another sector.
FlushForgotten == card
Flushed == IF buffer.modified THEN [card EXCEPT !.sectors[buffer.sector] = buffer.data]
           ELSE card

CleanBuffer == [sector |-> Meta, data |-> 0, modified |-> FALSE]
NoFile == [in_use |-> FALSE, modified |-> FALSE, size |-> 0]
Closed == [file EXCEPT !.in_use = FALSE, !.modified = FALSE]

\* alt_up_sd_card_is_FAT16 and alt_up_sd_card_fopen on a card that is there;
\* mounting forgets whatever was open.
Open == /\ card' = [Flushed EXCEPT !.exists = TRUE]
        /\ buffer' = CleanBuffer
        /\ file' = [in_use |-> TRUE, modified |-> ~card.exists,
                    size |-> IF card.exists THEN card.size ELSE 0]

\* alt_up_sd_card_read of a sector, into localData.
Loaded(value) ==
    IF i = HeadSector THEN headTimeQueue' = value /\ UNCHANGED dataSets
    ELSE dataSets' = [dataSets EXCEPT ![i] = value] /\ UNCHANGED headTimeQueue

InFileUnchecked == i < file.size
InFile == file.in_use /\ i < file.size

ReadSector ==
    \/ /\ InFile /\ present
       /\ Loaded(Flushed.sectors[i])
       /\ card' = Flushed
       /\ buffer' = [sector |-> i, data |-> Flushed.sectors[i], modified |-> FALSE]
       /\ UNCHANGED file
    \/ /\ InFile /\ ~present
       /\ Loaded(Lost) /\ file' = Closed /\ UNCHANGED <<card, buffer>>
    \/ /\ ~InFile
       /\ Loaded(Lost) /\ UNCHANGED <<card, buffer, file>>

\* alt_up_sd_card_write of a sector, which grows the file at its end.
GrownAlways == [file EXCEPT !.size = @ + 1, !.modified = TRUE]
Grown == IF i < file.size THEN file ELSE [file EXCEPT !.size = @ + 1, !.modified = TRUE]

WriteSector ==
    /\ present
    /\ card' = Flushed
    /\ buffer' = [sector |-> i, data |-> Struct[i], modified |-> TRUE]
    /\ file' = Grown

\* alt_up_sd_card_fclose: only a modified record is written, and the buffer with it.
Close ==
    /\ file' = Closed
    /\ IF present /\ file.in_use /\ file.modified
       THEN card' = [Flushed EXCEPT !.size = file.size] /\ buffer' = CleanBuffer
       ELSE UNCHANGED <<card, buffer>>
-------------------------------------------------------------------------------
(* sd_card_load and sd_card_save.                                           *)

RingOf(sets, head) == [k \in Slots |-> IF head \in Slots THEN Before(sets, head, k) ELSE Lost]

Call(f) == job' = f /\ pc' = "check" /\ connected' = FALSE

Return(value) == result' = value /\ pc' = "menu"

CheckPresent ==
    /\ pc = "check" /\ ~connected /\ present
    /\ pc' = "mount"
    /\ UNCHANGED <<localData, driverVars, present, job, connected, i, result, failures, history>>

Mount ==
    /\ pc = "mount" /\ present
    /\ Open /\ i' = 0 /\ pc' = job
    /\ IF job = "save"
       THEN saved' = RingOf(dataSets, headTimeQueue) /\ earlier' = saved
       ELSE UNCHANGED <<saved, earlier>>
    /\ UNCHANGED <<localData, present, job, connected, result, failures, pulled>>

TryAgain == connected' = FALSE
AskToDisconnect == connected' = TRUE

MountFails ==
    /\ pc = "mount" /\ ~present
    /\ AskToDisconnect /\ pc' = "check"
    /\ UNCHANGED <<localData, driverVars, present, job, i, result, failures, history>>

GiveUp ==
    /\ pc = "check" /\ connected /\ ~present
    /\ Return(-3)
    /\ UNCHANGED <<localData, driverVars, present, job, connected, i, failures, history>>

LoadNext ==
    /\ pc = "load" /\ i \in Sectors
    /\ ReadSector /\ i' = i + 1
    /\ UNCHANGED <<present, pc, job, connected, result, failures, history>>

SaveNext ==
    /\ pc = "save" /\ i \in Sectors
    /\ WriteSector /\ i' = i + 1
    /\ UNCHANGED <<localData, present, pc, job, connected, result, failures, history>>

SaveError ==
    /\ pc = "save" /\ i \in Sectors /\ ~present
    /\ file' = Closed /\ Return(-1)
    /\ UNCHANGED <<localData, card, buffer, present, job, connected, i, failures, history>>

Finish ==
    /\ pc \in {"load", "save"} /\ i \notin Sectors
    /\ Close /\ Return(0)
    /\ UNCHANGED <<localData, present, job, connected, i, failures, history>>
-------------------------------------------------------------------------------
(* The application, the user and the supply.                                *)

ResetData == dataSets' = [s \in Slots |-> Empty] /\ headTimeQueue' = 0

\* main: initialize_datasets, then the load.
Start ==
    /\ pc = "off"
    /\ ResetData /\ Call("load")
    /\ saved' = RingOf(card.sectors, card.sectors[HeadSector]) /\ earlier' = saved'
    /\ pulled' = FALSE
    /\ UNCHANGED <<driverVars, present, i, result, failures>>

\* processBT, up to its call of save_to_SD_from_dataSets.  With a head out of
\* range it writes outside the data sets: what follows is not modelled.
Download ==
    /\ pc = "menu" /\ headTimeQueue \in Slots
    /\ \E path \in Paths : StorePath(path)
    /\ Call("save")
    /\ UNCHANGED <<driverVars, present, i, result, failures, history>>

Remove ==
    /\ Removable /\ present /\ pc # "off"
    /\ present' = FALSE /\ pulled' = TRUE
    /\ UNCHANGED <<localData, driverVars, pc, job, connected, i, result, failures,
                   saved, earlier>>

Insert ==
    /\ ~present /\ present' = TRUE
    /\ UNCHANGED <<localData, driverVars, pc, job, connected, i, result, failures, history>>

\* The card keeps its sectors, and everything else is gone.
PowerFailure ==
    /\ failures < MaxFailures /\ failures' = failures + 1
    /\ pc # "off" /\ pc' = "off"
    /\ ResetData /\ buffer' = CleanBuffer /\ file' = NoFile
    /\ connected' = FALSE /\ i' = 0 /\ result' = 0 /\ job' = "load"
    /\ UNCHANGED <<card, present, history>>

Init ==
    /\ card \in Cards /\ present = TRUE
    /\ buffer = CleanBuffer /\ file = NoFile
    /\ dataSets = [s \in Slots |-> Empty] /\ headTimeQueue = 0
    /\ pc = "off" /\ job = "load" /\ connected = FALSE
    /\ i = 0 /\ result = 0 /\ failures = 0
    /\ saved = RingOf(card.sectors, card.sectors[HeadSector]) /\ earlier = saved
    /\ pulled = FALSE

\* What NIOS does when the card lets it.
Step == \/ Start \/ CheckPresent \/ Mount \/ MountFails \/ GiveUp
        \/ LoadNext \/ SaveNext \/ SaveError \/ Finish

Next == Step \/ Download \/ Remove \/ Insert \/ PowerFailure

Spec == Init /\ [][Next]_vars

\* NIOS polls again and again, so it does not miss the card for ever; and the
\* user does what the messages ask: insert a card, disconnect the card.
Asked(act) == pc = "check" /\ act
Fairness == /\ SF_vars(Step)
            /\ WF_vars(~connected /\ Asked(Insert))
            /\ WF_vars(connected /\ Asked(Remove))

FairSpec == Spec /\ Fairness
-------------------------------------------------------------------------------
(* Properties.                                                              *)

\* Every variable keeps its type; the file never grows beyond localDataSets.
TypeOK ==
    /\ dataSets \in [Slots -> SetValues] /\ headTimeQueue \in HeadValues
    /\ card \in [exists : BOOLEAN, size : {0, HeadSector + 1}, sectors : Contents]
    /\ present \in BOOLEAN /\ connected \in BOOLEAN /\ pulled \in BOOLEAN
    /\ buffer \in [sector : Sectors \cup {Meta}, data : Int, modified : BOOLEAN]
    /\ buffer.modified => buffer.sector \in Sectors /\ Fits(buffer.sector, buffer.data)
    /\ file \in [in_use : BOOLEAN, modified : BOOLEAN, size : 0 .. HeadSector + 1]
    /\ pc \in {"off", "check", "mount", "load", "save", "menu"}
    /\ job \in {"load", "save"} /\ i \in 0 .. HeadSector + 1
    /\ result \in {0, -1, -3} /\ failures \in 0 .. MaxFailures

\* All paths but the oldest, latest first.
Recent(ring) == [k \in 0 .. MAX_N_SETS - 2 |-> ring[k]]

\* As long as nobody pulls the card, a power failure at any moment leaves a file
\* whose paths, but for the oldest, are those of the last save or of the one
\* before: never a mixture, and never less (sd_card.c:49-55 overwrites the only
\* copy, and its last sector waits in the driver's buffer).
CardKeepsRecent ==
    ~pulled /\ card.size = HeadSector + 1 =>
        Recent(RingOf(card.sectors, card.sectors[HeadSector])) \in {Recent(saved), Recent(earlier)}

\* Whatever was pulled and put back, a save that returns 0 has brought every sector
\* but the last to the card, and the last there or to the buffer, where the next
\* open finds it.  (The last holds the head, and in the program the end of the last
\* set too: that set is then on the card but for its last 44 bytes.)
SavedUpToHead ==
    pc = "menu" /\ job = "save" /\ result = 0 =>
        /\ \A s \in Slots : card.sectors[s] = dataSets[s]
        /\ \/ card.sectors[HeadSector] = headTimeQueue
           \/ buffer = [sector |-> HeadSector, data |-> headTimeQueue, modified |-> TRUE]

\* Nor does a load mix: what it returns is the file as far as it was read, and
\* bytes 0xFF from there on (sd_card.c:118 goes on after an error).  It returns 0
\* all the same, from a card without the file too.
LoadIsPrefix ==
    pc = "menu" /\ job = "load" /\ result = 0 =>
        \E n \in 0 .. HeadSector + 1 : \A s \in Sectors :
            Struct[s] = IF s < n THEN card.sectors[s] ELSE Lost

\* A load or a save returns, if the user does what the messages ask for
\* (the loops of sd_card.c:22 and :92 have no timeout).
CardCallsReturn == pc \notin {"off", "menu"} ~> pc \in {"off", "menu"}

\* "Return 0 on success" (sd_card.h:10): what was saved is on the card.
SaveReportsTruth ==
    pc = "menu" /\ job = "save" /\ result = 0 => card.sectors = Struct
===============================================================================

-------------------------------- MODULE DataSets --------------------------------
(***************************************************************************)
(* localDataSets of datasets.h: MAX_N_SETS data sets in a ring, whose head *)
(* is the path downloaded last.  What a path is, the modules that use the  *)
(* ring say: its points for the menus, its identity for the card.          *)
(***************************************************************************)
EXTENDS Integers

CONSTANT MAX_N_SETS

ASSUME SetsAssumption == MAX_N_SETS \in Nat \ {0}

VARIABLES
    dataSets,       \* localData.dataSets
    headTimeQueue   \* localData.headTimeQueue

localData == <<dataSets, headTimeQueue>>

Slots == 0 .. MAX_N_SETS - 1

Latest == dataSets[headTimeQueue]

\* The slot a download goes to: the oldest path makes room for it.
HeadForward(head) == (head + 1) % MAX_N_SETS
NewHead(head) == IF head = 0 THEN MAX_N_SETS - 1 ELSE head - 1

\* What processBT stores of the path it has received.
StorePath(path) ==
    /\ headTimeQueue' = NewHead(headTimeQueue)
    /\ dataSets' = [dataSets EXCEPT ![headTimeQueue'] = path]

\* The k-th path before the latest.
Before(sets, head, k) == sets[IF head + k < MAX_N_SETS THEN head + k ELSE head + k - MAX_N_SETS]
===============================================================================

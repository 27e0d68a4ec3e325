-------------------------------- MODULE MCSdCard --------------------------------
(***************************************************************************)
(* Two or three paths.  A card is complete, its head on any slot, or has   *)
(* no file yet.                                                            *)
(***************************************************************************)
EXTENDS SdCard

OldPath == 1
MCPaths == {1, 2}
ThreePaths == {1, 2, 3}

Complete(head) ==
    [exists |-> TRUE, size |-> HeadSector + 1,
     sectors |-> [s \in Sectors |-> IF s = HeadSector THEN head
                                    ELSE IF s = head THEN OldPath ELSE Empty]]
Blank == [exists |-> FALSE, size |-> 0,
          sectors |-> [s \in Sectors |-> Lost]]

SeededCards == {Complete(head) : head \in Slots}
AllCards == SeededCards \cup {Blank}
===============================================================================

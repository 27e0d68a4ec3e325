------------------------------ MODULE MCBluetooth ------------------------------
(***************************************************************************)
(* Paths for a buffer of five characters: as long as the buffer allows,    *)
(* empty, and longer than the buffer.                                      *)
(***************************************************************************)
EXTENDS Bluetooth

MCLength == [id \in 0 .. 2 |-> CASE id = 0 -> 4 [] id = 1 -> 0 [] id = 2 -> 6]

\* Paths that fit, each alone.
MCFitting == [id \in 0 .. 1 |-> IF id = 0 THEN 4 ELSE 1]
===============================================================================

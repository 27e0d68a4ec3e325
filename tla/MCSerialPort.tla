------------------------------ MODULE MCSerialPort ------------------------------
(***************************************************************************)
(* Two values of a byte, so that an old byte can be told from a new one.   *)
(***************************************************************************)
EXTENDS SerialPort
===============================================================================

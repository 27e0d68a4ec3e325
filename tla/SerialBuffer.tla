------------------------------ MODULE SerialBuffer ------------------------------
(***************************************************************************)
(* What a serial port promises the program that polls it: one byte of      *)
(* buffer each way.  A byte that arrives before the last was taken         *)
(* replaces it; one that arrives while the last is being taken is either   *)
(* what the program gets instead, or gone (no step of this module); and a  *)
(* reset leaves a byte in the buffer that nobody sent.                     *)
(***************************************************************************)
CONSTANT Bytes, Phantom   \* the bytes; the one a reset leaves

VARIABLES
    rx,    \* the byte received and not yet taken, if any
    got,   \* the byte the program took last
    tx     \* the byte the program has written that is not yet sent, if any

received == <<rx, got>>

Receive(b) == rx' = {b} /\ UNCHANGED got
Take       == got' \in rx /\ rx' = {}
TakeNew(b) == rx # {} /\ got' = b /\ rx' = {}

Put(b) == tx = {} /\ tx' = {b}
Sent   == tx # {} /\ tx' = {}

Receiver    == Take \/ \E b \in Bytes : Receive(b) \/ TakeNew(b)
Transmitter == Sent \/ \E b \in Bytes : Put(b)

Reset == rx' = {Phantom} /\ tx' = {} /\ UNCHANGED got

Init == rx = {Phantom} /\ tx = {} /\ got \in Bytes

\* The two directions are independent.
Next == Reset \/ ((Receiver \/ UNCHANGED received) /\ (Transmitter \/ UNCHANGED tx))

Spec == Init /\ [][Next]_<<rx, got, tx>>
===============================================================================

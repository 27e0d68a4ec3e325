------------------------------- MODULE SerialPort -------------------------------
(***************************************************************************)
(* A serial port: ACIA_6850.vhd with its receiver ACIA_RX.vhd and its      *)
(* transmitter ACIA_TX.vhd, the bus bridge, and a program on NIOS that     *)
(* polls the port the way bluetooth.c, gps_points.c and touchScreen.c do.  *)
(*                                                                         *)
(* One step is one period of the 50 MHz clock: its falling edge, on which  *)
(* the port is clocked, then its rising edge, on which the bridge is.      *)
(* Bits are abstracted to bytes: of the eight data bits only the first,    *)
(* which raises the acknowledge flag, and the last are steps.  Baud edges  *)
(* come at any time: nothing here depends on how far apart they are.       *)
(***************************************************************************)
EXTENDS Integers

CONSTANT Bytes

ASSUME PortAssumption == 0 \in Bytes

VARIABLES
    \* NIOS and the bridge
    chipselect, acknowledge, bus_enable,
    access,      \* the access NIOS makes, or made last
    got,         \* the byte last read from the port
    mayRead,     \* NIOS has seen RxDR set and not read since
    mayWrite,    \* NIOS has seen TxBE set and not written since
    \* ACIA_6850
    CtrlReg, Reset, StatReg, TranReg, ReadRR, WriteTR,
    \* ACIA_RX; its outputs RxDout and RxOErr
    RxState, RxShiftReg, RxAck, RxReq, RxReady, RxDOut, RxOErr,
    \* ACIA_TX
    TxState, TxShiftReg, TxAck, TxReq, TxEmp

niosVars == <<chipselect, acknowledge, bus_enable, access, got, mayRead, mayWrite>>
busVars  == <<CtrlReg, Reset, StatReg, TranReg, ReadRR, WriteTR>>
rxVars   == <<RxState, RxShiftReg, RxAck, RxReq, RxReady, RxDOut, RxOErr>>
txVars   == <<TxState, TxShiftReg, TxAck, TxReq, TxEmp>>
vars     == <<niosVars, busVars, rxVars, txVars>>

MasterReset == 3   \* the values the program writes to the control register
DivideBy16  == 21

Controls == {0, MasterReset, DivideBy16}
AccessType ==
    [rw : {"read", "write"}, RS : {"data"}, val : Bytes]
    \cup [rw : {"read", "write"}, RS : {"control"}, val : Controls]

ReadStatus      == [rw |-> "read",  RS |-> "control", val |-> 0]
ReadData        == [rw |-> "read",  RS |-> "data",    val |-> 0]
WriteControl(c) == [rw |-> "write", RS |-> "control", val |-> c]
WriteData(b)    == [rw |-> "write", RS |-> "data",    val |-> b]
-------------------------------------------------------------------------------
(* ACIA_6850: the registers and the strobes, and the reset of the port.     *)

\* A reset lasts from the clock that sees the control word to the next one.
InReset == Reset \/ Reset'

Is(rw, RS)     == access.rw = rw /\ access.RS = RS
Strobe(rw, RS) == bus_enable /\ Is(rw, RS)

RegistersUndecoded ==
    /\ Reset' = (CtrlReg = MasterReset)
    /\ IF InReset
       THEN /\ CtrlReg' = 0 /\ TranReg' = 0 /\ ReadRR' = FALSE /\ WriteTR' = FALSE
            /\ StatReg' = [RxDR |-> FALSE, TxBE |-> FALSE]
       ELSE /\ CtrlReg' = IF Strobe("write", "control") THEN access.val ELSE CtrlReg
            /\ TranReg' = IF bus_enable /\ access.rw = "write" THEN access.val ELSE TranReg
            /\ ReadRR'  = Strobe("read", "data")
            /\ WriteTR' = Strobe("write", "data")
            /\ StatReg' = [RxDR |-> RxReady, TxBE |-> TxEmp]
Registers ==
    /\ Reset' = (CtrlReg = MasterReset)
    /\ IF InReset
       THEN /\ CtrlReg' = 0 /\ TranReg' = 0 /\ ReadRR' = FALSE /\ WriteTR' = FALSE
            /\ StatReg' = [RxDR |-> FALSE, TxBE |-> FALSE]
       ELSE /\ CtrlReg' = IF Strobe("write", "control") THEN access.val ELSE CtrlReg
            /\ TranReg' = IF Strobe("write", "data") THEN access.val ELSE TranReg
            /\ ReadRR'  = Strobe("read", "data")
            /\ WriteTR' = Strobe("write", "data")
            /\ StatReg' = [RxDR |-> RxReady, TxBE |-> TxEmp]
-------------------------------------------------------------------------------
(* ACIA_RX.                                                                 *)

\* The start bit, the first and the last of the data bits, the stop bit.
RxStart_state == /\ RxState = "start" /\ RxState' = "data"
                 /\ UNCHANGED <<RxShiftReg, RxAck, RxDOut, RxOErr>>
RxData_state  == /\ RxState = "data" /\ RxAck' = TRUE
                 /\ IF RxAck THEN RxState' = "stop" /\ RxShiftReg' \in Bytes
                             ELSE UNCHANGED <<RxState, RxShiftReg>>
                 /\ UNCHANGED <<RxDOut, RxOErr>>
RxStop_state_unflagged ==
                 /\ RxState = "stop" /\ RxState' = "start"
                 /\ RxAck' = FALSE /\ RxDOut' = RxShiftReg /\ UNCHANGED RxOErr
                 /\ UNCHANGED RxShiftReg
RxStop_state  == /\ RxState = "stop" /\ RxState' = "start"
                 /\ RxAck' = FALSE /\ RxDOut' = RxShiftReg /\ RxOErr' = RxReady
                 /\ UNCHANGED RxShiftReg

acia_rx_receive ==
    \/ UNCHANGED <<RxState, RxShiftReg, RxAck, RxDOut, RxOErr>>
    \/ RxStart_state \/ RxData_state \/ RxStop_state

acia_rx_read_kept ==
    /\ RxReady' = (RxReady \/ (~RxReq /\ ~RxAck))
    /\ RxReq' = IF ReadRR THEN TRUE ELSE RxReq /\ ~RxAck
acia_rx_read_requested ==
    /\ RxReady' = IF ReadRR THEN FALSE
                  ELSE RxReady \/ (~RxReq /\ ~RxAck)
    /\ RxReq' = (ReadRR \/ RxReq)
acia_rx_read ==
    /\ RxReady' = IF ReadRR THEN FALSE
                  ELSE RxReady \/ (~RxReq /\ ~RxAck)
    /\ RxReq' = IF ReadRR THEN TRUE ELSE RxReq /\ ~RxAck

ReceiverReset ==
    /\ RxState' = "start" /\ RxShiftReg' = 0 /\ RxDOut' = 0 /\ RxOErr' = FALSE
    /\ RxAck' = FALSE /\ RxReq' = FALSE /\ RxReady' = FALSE

Receiver == IF InReset THEN ReceiverReset ELSE acia_rx_receive /\ acia_rx_read
-------------------------------------------------------------------------------
(* ACIA_TX.                                                                 *)

Tx1Stop_State_kept ==
                 /\ TxState = "stop"
                 /\ TxState' = IF TxReq THEN "start" ELSE "stop"
                 /\ UNCHANGED <<TxShiftReg, TxAck>>
Tx1Stop_State == /\ TxState = "stop" /\ TxAck' = FALSE
                 /\ TxState' = IF TxReq THEN "start" ELSE "stop"
                 /\ UNCHANGED TxShiftReg
TxStart_State == /\ TxState = "start" /\ TxState' = "data"
                 /\ TxShiftReg' = TranReg /\ TxAck' = TRUE
TxData_State  == /\ TxState = "data" /\ TxState' = "stop"
                 /\ UNCHANGED <<TxShiftReg, TxAck>>

acia_tx_transmit ==
    \/ UNCHANGED <<TxState, TxShiftReg, TxAck>>
    \/ Tx1Stop_State \/ TxStart_State \/ TxData_State

acia_tx_write_early ==
    /\ TxReq' = IF WriteTR THEN TRUE ELSE TxReq /\ ~TxAck
    /\ TxEmp' = IF WriteTR THEN FALSE ELSE TxEmp \/ ~TxReq
acia_tx_write ==
    /\ TxReq' = IF WriteTR THEN TRUE ELSE TxReq /\ ~TxAck
    /\ TxEmp' = IF WriteTR THEN FALSE ELSE TxEmp \/ (~TxReq /\ ~TxAck)

TransmitterReset ==
    /\ TxState' = "stop" /\ TxShiftReg' = 0 /\ TxAck' = FALSE
    /\ TxReq' = FALSE /\ TxEmp' = TRUE

Transmitter == IF InReset THEN TransmitterReset ELSE acia_tx_transmit /\ acia_tx_write
-------------------------------------------------------------------------------
(* NIOS and the bridge.  The program reads a byte only after a status read  *)
(* that showed one, and writes one only after a status read that showed the *)
(* transmitter empty.                                                       *)

Compute == UNCHANGED <<chipselect, bus_enable, access, got, mayRead, mayWrite>>

NextAccess == {ReadStatus} \cup {WriteControl(c) : c \in {MasterReset, DivideBy16}}
              \cup {a \in {ReadData} : mayRead}
              \cup {WriteData(b) : b \in {x \in Bytes : mayWrite}}

StartAccess == /\ ~chipselect /\ ~bus_enable
               /\ chipselect' = TRUE /\ access' \in NextAccess
               /\ UNCHANGED <<bus_enable, got, mayRead, mayWrite>>

DriveBus == /\ chipselect /\ ~acknowledge /\ bus_enable' = TRUE
            /\ UNCHANGED <<chipselect, access, got, mayRead, mayWrite>>

\* What a read returns is what the port shows after its falling edge.
EndAccess ==
    /\ chipselect /\ acknowledge
    /\ chipselect' = FALSE /\ bus_enable' = FALSE
    /\ got' = IF Is("read", "data") THEN RxDOut' ELSE got
    /\ mayRead'  = IF Is("read", "control") THEN StatReg'.RxDR
                  ELSE mayRead /\ Is("write", "data")
    /\ mayWrite' = IF Is("read", "control") THEN StatReg'.TxBE
                  ELSE mayWrite /\ Is("read", "data")
    /\ UNCHANGED access

BusStep == /\ acknowledge' = bus_enable
           /\ (~chipselect /\ Compute) \/ StartAccess \/ DriveBus \/ EndAccess
-------------------------------------------------------------------------------
\* After the reset of the board.
Init ==
    /\ chipselect = FALSE /\ acknowledge = FALSE /\ bus_enable = FALSE
    /\ access = ReadStatus /\ got \in Bytes /\ mayRead = FALSE /\ mayWrite = FALSE
    /\ CtrlReg = 0 /\ Reset = FALSE /\ TranReg = 0 /\ ReadRR = FALSE /\ WriteTR = FALSE
    /\ StatReg = [RxDR |-> FALSE, TxBE |-> FALSE]
    /\ RxState = "start" /\ RxShiftReg = 0 /\ RxDOut = 0 /\ RxOErr = FALSE
    /\ RxAck = FALSE /\ RxReq = FALSE /\ RxReady = FALSE
    /\ TxState = "stop" /\ TxShiftReg = 0 /\ TxAck = FALSE
    /\ TxReq = FALSE /\ TxEmp = TRUE

Next == Registers /\ Receiver /\ Transmitter /\ BusStep

Spec == Init /\ [][Next]_vars

\* The clock does not stop, and a byte begun is completed.
Fairness == /\ WF_vars(Next)
            /\ WF_vars(Next /\ RxState # "start" /\ (RxState' # RxState \/ RxAck' # RxAck))
            /\ WF_vars(Next /\ (TxState' # TxState \/ TxAck' # TxAck))
FairSpec == Spec /\ Fairness
-------------------------------------------------------------------------------
(* Properties.                                                              *)

TypeOK ==
    /\ {chipselect, acknowledge, bus_enable, mayRead, mayWrite} \subseteq BOOLEAN
    /\ {Reset, ReadRR, WriteTR, RxAck, RxReq, RxReady, RxOErr, TxAck, TxReq, TxEmp}
          \subseteq BOOLEAN
    /\ access \in AccessType /\ CtrlReg \in Controls
    /\ StatReg \in [RxDR : BOOLEAN, TxBE : BOOLEAN]
    /\ {got, TranReg, RxShiftReg, RxDOut, TxShiftReg} \subseteq Bytes
    /\ RxState \in {"start", "data", "stop"} /\ TxState \in {"start", "data", "stop"}

\* The byte the port holds for the program, and the one it holds for the line.
Received == IF RxReady \/ (~RxReq /\ ~RxAck) THEN {RxDOut} ELSE {}
Sending  == IF TxReq THEN {TranReg} ELSE IF TxAck THEN {TxShiftReg} ELSE {}

\* Status is a clock behind the receiver and the transmitter, and still what
\* the program has seen holds when it acts on it: a byte seen is there to be
\* read, never read twice, and a transmitter seen empty takes the next byte.
PollsAreCurrent == /\ mayRead  => Received # {}
                   /\ mayWrite => Sending = {}

\* Why, as an inductive invariant: where an access is in its four clocks, and
\* what the request and acknowledge flags may be with each state.
AccessInv ==
    /\ bus_enable => chipselect
    /\ chipselect /\ acknowledge => bus_enable
    /\ ReadRR  <=> acknowledge /\ Is("read", "data")
    /\ WriteTR <=> acknowledge /\ Is("write", "data")
    /\ chipselect /\ Is("read", "data")  => mayRead
    /\ chipselect /\ Is("write", "data") => mayWrite
    /\ chipselect /\ acknowledge /\ Is("write", "control") => CtrlReg = access.val
    /\ CtrlReg = MasterReset => chipselect /\ acknowledge /\ Is("write", "control")
    /\ Reset => ~chipselect /\ Is("write", "control") /\ ~mayRead /\ ~mayWrite

ReceiverInv ==
    /\ mayRead => RxReady
    /\ RxReady => ~RxReq
    /\ RxState = "start" => ~RxAck
    /\ RxState = "stop"  => RxAck
    /\ ReadRR /\ ~chipselect => RxReq /\ ~RxReady /\ ~mayRead
    /\ Reset => ~RxReady /\ ~RxReq /\ ~RxAck /\ RxDOut = 0

TransmitterInv ==
    /\ mayWrite => TxEmp
    /\ TxEmp => ~TxReq /\ ~TxAck /\ TxState = "stop"
    /\ TxState = "start" => TxReq /\ ~TxAck
    /\ TxState = "data"  => TxAck
    /\ TxReq /\ TxAck => TxShiftReg = TranReg
    /\ TxReq /\ TxAck => TxState = "data"
    /\ WriteTR /\ ~chipselect => ~mayWrite /\ TxReq /\ ~TxAck
    /\ Reset => ~TxReq /\ ~TxAck

PortInv == TypeOK /\ AccessInv /\ ReceiverInv /\ TransmitterInv

\* The port is a one-byte buffer each way.
Buffer == INSTANCE SerialBuffer WITH
              Phantom <- 0, rx <- Received, got <- got, tx <- Sending
IsOneByteBuffer == Buffer!Spec

\* A byte that replaces one the program has not read raises the overrun flag,
\* and a byte is lost silently in the clocks of a read only.
LossFlagged ==
    [][RxState = "stop" /\ RxState' = "start" /\ ~InReset =>
          /\ Received # {} => RxOErr'
          /\ Received' = {RxDOut'} \/ ReadRR]_vars

\* The transmitter never wedges: what is written is sent.
WrittenIsSent == Sending # {} ~> Sending = {}

\* Nor does the receiver: a byte that begins when the program has taken all
\* others is shown to it, whatever was lost before.
ReceiverRecovers == RxState = "data" /\ Received = {} ~> RxReady
===============================================================================

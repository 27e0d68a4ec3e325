---------------------------- MODULE SerialPortProofs ----------------------------
(***************************************************************************)
(* For any set of bytes: the flags of a serial port keep step with the     *)
(* program that polls it, and the port is a one-byte buffer each way.      *)
(***************************************************************************)
EXTENDS SerialPort, TLAPS

\* The status a reset leaves.
LEMMA NoStatus == [RxDR |-> FALSE, TxBE |-> FALSE] \in [RxDR : BOOLEAN, TxBE : BOOLEAN]
  OBVIOUS

\* The states of the board after its reset.
LEMMA InitInv == Init => PortInv
<1>1. Init => TypeOK
  <2>1. ReadStatus \in AccessType /\ 0 \in Controls
    BY DEF AccessType, Controls, ReadStatus
  <2>2. QED BY <2>1, NoStatus, PortAssumption DEF Init, TypeOK
<1>2. Init => AccessInv
  BY DEF Init, AccessInv, ReadStatus, Is, MasterReset
<1>3. Init => ReceiverInv /\ TransmitterInv
  BY DEF Init, ReceiverInv, TransmitterInv
<1>4. QED BY <1>1, <1>2, <1>3 DEF PortInv
-------------------------------------------------------------------------------
(* Types.                                                                   *)

\* The registers of ACIA_6850 keep their types.
LEMMA RegistersType ==
  TypeOK /\ Registers => /\ {Reset', ReadRR', WriteTR'} \subseteq BOOLEAN
                         /\ CtrlReg' \in Controls /\ TranReg' \in Bytes
                         /\ StatReg' \in [RxDR : BOOLEAN, TxBE : BOOLEAN]
<1> SUFFICES ASSUME TypeOK, Registers
             PROVE  /\ Reset' \in BOOLEAN /\ ReadRR' \in BOOLEAN /\ WriteTR' \in BOOLEAN
                    /\ CtrlReg' \in Controls /\ TranReg' \in Bytes
                    /\ StatReg' \in [RxDR : BOOLEAN, TxBE : BOOLEAN]
  OBVIOUS
<1>1. Reset' \in BOOLEAN BY DEF Registers
<1>2. CASE InReset
  <2>1. /\ CtrlReg' = 0 /\ TranReg' = 0 /\ ReadRR' = FALSE /\ WriteTR' = FALSE
        /\ StatReg' = [RxDR |-> FALSE, TxBE |-> FALSE]
    BY <1>2 DEF Registers
  <2>2. CtrlReg' \in Controls /\ TranReg' \in Bytes
    BY <2>1, PortAssumption DEF Controls
  <2>3. QED BY <1>1, <2>1, <2>2, NoStatus
<1>3. CASE ~InReset
  <2>1. ReadRR' \in BOOLEAN /\ WriteTR' \in BOOLEAN
    BY <1>3 DEF TypeOK, Registers, Strobe, Is
  <2>2. Is("write", "control") => access.val \in Controls
    BY DEF TypeOK, AccessType, Is
  <2>3. Is("write", "data") => access.val \in Bytes
    BY DEF TypeOK, AccessType, Is
  <2>4. CtrlReg' \in Controls /\ TranReg' \in Bytes
    BY <1>3, <2>2, <2>3 DEF TypeOK, Registers, Strobe
  <2>5. StatReg' \in [RxDR : BOOLEAN, TxBE : BOOLEAN]
    BY <1>3 DEF TypeOK, Registers
  <2>6. QED BY <1>1, <2>1, <2>4, <2>5
<1>4. QED BY <1>2, <1>3

\* So do the receiver's.
LEMMA ReceiverType ==
  TypeOK /\ Receiver => /\ {RxAck', RxReq', RxReady', RxOErr'} \subseteq BOOLEAN
                        /\ {RxShiftReg', RxDOut'} \subseteq Bytes
                        /\ RxState' \in {"start", "data", "stop"}
  BY PortAssumption DEF TypeOK, Receiver, ReceiverReset, acia_rx_receive, acia_rx_read,
     RxStart_state, RxData_state, RxStop_state

\* So do the transmitter's.
LEMMA TransmitterType ==
  TypeOK /\ Transmitter => /\ {TxAck', TxReq', TxEmp'} \subseteq BOOLEAN
                           /\ TxShiftReg' \in Bytes
                           /\ TxState' \in {"start", "data", "stop"}
  BY PortAssumption DEF TypeOK, Transmitter, TransmitterReset, acia_tx_transmit,
     acia_tx_write, Tx1Stop_State, TxStart_State, TxData_State

\* And what NIOS keeps, given what it reads of the port.
LEMMA BusType ==
  ASSUME TypeOK, BusStep, RxDOut' \in Bytes, StatReg' \in [RxDR : BOOLEAN, TxBE : BOOLEAN]
  PROVE  /\ {chipselect', acknowledge', bus_enable', mayRead', mayWrite'} \subseteq BOOLEAN
         /\ access' \in AccessType /\ got' \in Bytes
<1>1. CASE (~chipselect /\ Compute) \/ DriveBus
  BY <1>1 DEF TypeOK, BusStep, Compute, DriveBus
<1>2. CASE StartAccess
  BY <1>2, PortAssumption DEF TypeOK, BusStep, StartAccess, NextAccess, AccessType, Controls,
     ReadStatus, ReadData, WriteControl, WriteData, MasterReset, DivideBy16
<1>3. CASE EndAccess
  BY <1>3 DEF TypeOK, BusStep, EndAccess
<1>4. QED BY <1>1, <1>2, <1>3 DEF BusStep

LEMMA TypeStep == TypeOK /\ Next => TypeOK'
  BY RegistersType, ReceiverType, TransmitterType, BusType DEF Next, TypeOK
-------------------------------------------------------------------------------
(* The handshakes.                                                          *)

\* A reset ends the access that asked for it.
LEMMA ResetEndsAccess ==
  ASSUME PortInv, Next
  PROVE  /\ Reset' <=> CtrlReg = MasterReset
         /\ Reset' => EndAccess /\ Is("write", "control")
         /\ Reset  => ~Reset' /\ ~EndAccess /\ ~DriveBus
  BY DEF PortInv, TypeOK, AccessInv, Next, BusStep, Compute, StartAccess, DriveBus, EndAccess,
     Registers, Is

\* Every clock of the bridge, with what it means for the access.
LEMMA AccessStep == PortInv /\ Next => AccessInv'
<1> SUFFICES ASSUME PortInv, Next PROVE AccessInv'
  OBVIOUS
<1> USE DEF PortInv, TypeOK, AccessInv, Is
<1>1. CASE InReset
  <2>1. /\ CtrlReg' = 0 /\ ReadRR' = FALSE /\ WriteTR' = FALSE
    BY <1>1 DEF Next, Registers
  <2>2. CASE Reset'
    <3>1. EndAccess /\ Is("write", "control") BY <2>2, ResetEndsAccess
    <3>2. /\ chipselect' = FALSE /\ bus_enable' = FALSE /\ access' = access
      BY <3>1 DEF EndAccess
    <3>3. ~mayRead' /\ ~mayWrite'
      BY <3>1 DEF EndAccess
    <3>4. QED BY <2>1, <3>1, <3>2, <3>3 DEF MasterReset
  <2>3. CASE Reset
    <3>1. ~Reset' /\ ((~chipselect /\ Compute) \/ StartAccess)
      BY <2>3, ResetEndsAccess DEF Next, BusStep
    <3>2. acknowledge' = FALSE /\ bus_enable' = FALSE /\ ~mayRead' /\ ~mayWrite'
      BY <2>3, <3>1 DEF Compute, StartAccess, Next, BusStep
    <3>3. ~chipselect' \/ Is("read", "control")' \/ Is("write", "control")'
      BY <2>3, <3>1 DEF Compute, StartAccess, NextAccess, ReadStatus, WriteControl
    <3>4. QED BY <2>1, <3>1, <3>2, <3>3 DEF MasterReset
  <2>4. QED BY <1>1, <2>2, <2>3 DEF InReset
<1>2. CASE ~InReset
  <2>1. /\ ~Reset'
        /\ CtrlReg' = IF Strobe("write", "control") THEN access.val ELSE CtrlReg
        /\ ReadRR' = Strobe("read", "data") /\ WriteTR' = Strobe("write", "data")
        /\ CtrlReg # MasterReset
    BY <1>2, ResetEndsAccess DEF InReset, Next, Registers
  <2>2. CASE ~chipselect /\ Compute
    BY <2>1, <2>2 DEF Compute, Next, BusStep, Strobe
  <2>3. CASE StartAccess
    BY <2>1, <2>3 DEF StartAccess, Next, BusStep, Strobe, NextAccess, ReadStatus,
           WriteControl, ReadData, WriteData
  <2>4. CASE DriveBus
    BY <2>1, <2>4 DEF DriveBus, Next, BusStep, Strobe
  <2>5. CASE EndAccess
    BY <2>1, <2>5 DEF EndAccess, Next, BusStep, Strobe
  <2>6. QED BY <2>2, <2>3, <2>4, <2>5 DEF Next, BusStep
<1>3. QED BY <1>1, <1>2

\* What an access does to the program's knowledge, by the clock it is in.
LEMMA MayStep ==
  ASSUME PortInv, Next
  PROVE  /\ mayRead'  => (mayRead \/ RxReady) /\ ~ReadRR /\ ~Reset'
         /\ mayWrite' => (mayWrite \/ TxEmp) /\ ~WriteTR /\ ~Reset'
         /\ ReadRR /\ ~chipselect => ~mayRead'
<1> USE DEF PortInv, TypeOK, AccessInv, Is
<1>1. CASE EndAccess
  <2>1. CASE Is("read", "control")
    <3>1. ~Reset' BY <2>1, ResetEndsAccess
    <3>2. ~ReadRR /\ ~WriteTR BY <2>1
    <3>3. CASE InReset
      BY <3>1, <3>3, <1>1 DEF InReset, EndAccess
    <3>4. CASE ~InReset
      BY <1>1, <2>1, <3>1, <3>2, <3>4 DEF EndAccess, Next, Registers
    <3>5. QED BY <3>3, <3>4
  <2>2. CASE ~Is("read", "control")
    BY <1>1, <2>2, ResetEndsAccess DEF EndAccess
  <2>3. QED BY <2>1, <2>2
<1>2. CASE ~EndAccess
  <2>1. ~Reset' /\ mayRead' = mayRead /\ mayWrite' = mayWrite
    BY <1>2, ResetEndsAccess DEF Next, BusStep, Compute, StartAccess, DriveBus
  <2>2. ReadRR \/ WriteTR => ~chipselect
    BY <1>2 DEF EndAccess, Next, BusStep, Compute, StartAccess, DriveBus
  <2>3. QED BY <2>1, <2>2 DEF ReceiverInv, TransmitterInv
<1>3. QED BY <1>1, <1>2

\* The strobe falls when the access ends.
LEMMA StrobeEnds == PortInv /\ Next /\ bus_enable /\ ~chipselect' => EndAccess
<1> SUFFICES ASSUME PortInv, Next, bus_enable, ~chipselect' PROVE EndAccess
  OBVIOUS
<1>1. chipselect BY DEF PortInv, AccessInv
<1>2. ~Compute /\ ~DriveBus BY <1>1 DEF Compute, DriveBus
<1>3. ~StartAccess BY <1>1 DEF StartAccess
<1>4. QED BY <1>1, <1>2, <1>3 DEF Next, BusStep

\* The receiver's flags.
LEMMA ReceiverStep == PortInv /\ Next => ReceiverInv'
<1> SUFFICES ASSUME PortInv, Next PROVE ReceiverInv'
  OBVIOUS
<1> USE DEF PortInv, TypeOK, ReceiverInv
<1>1. CASE InReset
  <2>1. ReceiverReset /\ ReadRR' = FALSE
    BY <1>1 DEF Next, Receiver, Registers
  <2>2. ~mayRead'
    <3>1. CASE Reset' BY <3>1, MayStep
    <3>2. CASE Reset /\ ~Reset'
      BY <3>2, ResetEndsAccess DEF AccessInv, Next, BusStep, Compute, StartAccess
    <3>3. QED BY <1>1, <3>1, <3>2 DEF InReset
  <2>3. QED BY <2>1, <2>2 DEF ReceiverReset
<1>2. CASE ~InReset
  <2>1. acia_rx_receive /\ acia_rx_read /\ ~Reset'
    BY <1>2 DEF Next, Receiver, InReset
  <2>2. /\ RxState' = "start" => ~RxAck'
        /\ RxState' = "stop"  => RxAck'
    BY <2>1 DEF acia_rx_receive, RxStart_state, RxData_state, RxStop_state
  <2>3. RxReady' => ~RxReq'
    BY <2>1 DEF acia_rx_read
  <2>4. mayRead' => RxReady'
    BY <2>1, MayStep DEF acia_rx_read
  <2>5. ReadRR' /\ ~chipselect' => RxReq' /\ ~RxReady' /\ ~mayRead'
    <3>1. ReadRR' /\ ~chipselect' => EndAccess /\ ReadRR
      <4> SUFFICES ASSUME ReadRR', ~chipselect' PROVE EndAccess /\ ReadRR
        OBVIOUS
      <4>1. Strobe("read", "data")
        BY <1>2 DEF Next, Registers
      <4>2. EndAccess
        BY <4>1, StrobeEnds DEF Strobe
      <4>3. QED BY <4>1, <4>2 DEF AccessInv, EndAccess, Strobe
    <3>2. EndAccess /\ ReadRR => ~mayRead'
      BY DEF AccessInv, EndAccess, Is
    <3>3. QED BY <2>1, <3>1, <3>2 DEF acia_rx_read
  <2>6. QED BY <2>1, <2>2, <2>3, <2>4, <2>5
<1>3. QED BY <1>1, <1>2

\* The transmitter's flags.
LEMMA TransmitterStep == PortInv /\ Next => TransmitterInv'
<1> SUFFICES ASSUME PortInv, Next PROVE TransmitterInv'
  OBVIOUS
<1> USE DEF PortInv, TypeOK, TransmitterInv
<1>1. CASE InReset
  <2>1. TransmitterReset /\ WriteTR' = FALSE
    BY <1>1 DEF Next, Transmitter, Registers
  <2>2. QED BY <2>1 DEF TransmitterReset
<1>2. CASE ~InReset
  <2>1. acia_tx_transmit /\ acia_tx_write /\ ~Reset'
    BY <1>2 DEF Next, Transmitter, InReset
  <2>2. Strobe("write", "data") => TxEmp
    BY DEF Strobe, AccessInv
  <2>3. WriteTR => ~TxAck
    BY DEF AccessInv
  <2>4. /\ TxState' = "start" => TxReq' /\ ~TxAck'
        /\ TxState' = "data"  => TxAck'
    BY <2>1, <2>3 DEF acia_tx_write, acia_tx_transmit, Tx1Stop_State, TxStart_State, TxData_State
  <2>5. TxEmp' => ~TxReq' /\ ~TxAck' /\ TxState' = "stop"
    BY <2>1 DEF acia_tx_write, acia_tx_transmit, Tx1Stop_State, TxStart_State, TxData_State
  <2>6. mayWrite' => TxEmp'
    BY <2>1, MayStep DEF acia_tx_write
  <2>7. TxReq' /\ TxAck' => TxState' = "data" /\ TxShiftReg' = TranReg'
    <3>1. TxEmp \/ TranReg' = TranReg
      BY <1>2, <2>2 DEF Next, Registers
    <3>2. TxEmp => ~TxAck'
      BY <2>1 DEF acia_tx_transmit, Tx1Stop_State, TxStart_State, TxData_State
    <3>3. TxReq' => (TxReq /\ ~TxAck) \/ WriteTR
      BY <2>1 DEF acia_tx_write
    <3>4. TxReq' /\ TxAck' => TxStart_State
      BY <2>1, <2>3, <3>3 DEF acia_tx_transmit, Tx1Stop_State, TxData_State
    <3>5. QED BY <3>1, <3>2, <3>4 DEF TxStart_State
  <2>8. WriteTR' /\ ~chipselect' => ~mayWrite' /\ TxReq' /\ ~TxAck'
    <3> SUFFICES ASSUME WriteTR', ~chipselect' PROVE ~mayWrite' /\ TxReq' /\ ~TxAck'
      OBVIOUS
    <3>1. Strobe("write", "data")
      BY <1>2 DEF Next, Registers
    <3>2. EndAccess
      BY <3>1, StrobeEnds DEF Strobe
    <3>3. ~mayWrite'
      BY <3>1, <3>2 DEF EndAccess, Strobe, Is
    <3>4. ~TxAck'
      BY <2>1, <2>2, <3>1 DEF acia_tx_transmit, Tx1Stop_State, TxStart_State, TxData_State
    <3>5. TxReq'
      BY <2>1, <3>1, <3>2 DEF acia_tx_write, AccessInv, EndAccess, Strobe
    <3>6. QED BY <3>3, <3>4, <3>5
  <2>9. QED BY <2>1, <2>4, <2>5, <2>6, <2>7, <2>8
<1>3. QED BY <1>1, <1>2
-------------------------------------------------------------------------------
(* What the invariant is for.                                               *)

LEMMA PortStep == PortInv /\ [Next]_vars => PortInv'
<1>1. PortInv /\ Next => PortInv'
  BY TypeStep, AccessStep, ReceiverStep, TransmitterStep DEF PortInv
<1>2. PortInv /\ UNCHANGED vars => PortInv'
  <2> SUFFICES ASSUME PortInv, UNCHANGED vars PROVE PortInv'
    OBVIOUS
  <2> USE DEF vars, niosVars, busVars, rxVars, txVars
  <2>1. TypeOK' BY DEF PortInv, TypeOK
  <2>2. AccessInv' BY DEF PortInv, AccessInv, Is
  <2>3. ReceiverInv' BY DEF PortInv, ReceiverInv
  <2>4. TransmitterInv' BY DEF PortInv, TransmitterInv
  <2>5. QED BY <2>1, <2>2, <2>3, <2>4 DEF PortInv
<1>3. QED BY <1>1, <1>2

\* In every state the flags agree with the access under way.
THEOREM PortInvariant == Spec => []PortInv
  BY InitInv, PortStep, PTL DEF Spec

\* Every register and flag of the port keeps its type.
THEOREM PortTypeCorrect == Spec => []TypeOK
<1>1. PortInv => TypeOK BY DEF PortInv
<1>2. QED BY <1>1, PortInvariant, PTL

\* What NIOS saw in the status register still holds when it acts on it,
\* although the register is a clock behind and the line never waits.
THEOREM PollsCorrect == Spec => []PollsAreCurrent
<1>1. PortInv => PollsAreCurrent
  BY DEF PortInv, ReceiverInv, TransmitterInv, PollsAreCurrent, Received, Sending
<1>2. QED BY <1>1, PortInvariant, PTL

\* A byte that replaces another raises the overrun flag of ACIA_RX, and only a
\* read can hide a byte.
THEOREM LossIsFlagged == Spec => LossFlagged
<1>1. ASSUME PortInv, Next, RxState = "stop", RxState' = "start", ~InReset
      PROVE  /\ Received # {} => RxOErr'
             /\ Received' = {RxDOut'} \/ ReadRR
  <2>1. RxStop_state /\ acia_rx_read
    BY <1>1 DEF Next, Receiver, acia_rx_receive, RxStart_state, RxData_state, RxStop_state
  <2>2. RxAck BY <1>1 DEF PortInv, ReceiverInv
  <2>3. Received # {} => RxOErr'
    BY <2>1, <2>2 DEF Received, RxStop_state
  <2>4. ReadRR \/ (~RxReq' /\ ~RxAck')
    BY <2>1, <2>2 DEF RxStop_state, acia_rx_read
  <2>5. QED BY <2>3, <2>4 DEF Received
<1>2. PortInv /\ [Next]_vars =>
        [RxState = "stop" /\ RxState' = "start" /\ ~InReset =>
            /\ Received # {} => RxOErr'
            /\ Received' = {RxDOut'} \/ ReadRR]_vars
  BY <1>1
<1>3. QED BY <1>2, PortInvariant, PTL DEF Spec, LossFlagged
-------------------------------------------------------------------------------
(* The port is a one-byte buffer each way.                                  *)

\* What a reset does to the buffer.
LEMMA ResetIsReset ==
  ASSUME PortInv, Next, InReset
  PROVE  Received' = {0} /\ Sending' = {} /\ got' = got
<1>1. ReceiverReset /\ TransmitterReset
  BY DEF Next, Receiver, Transmitter
<1>2. Received' = {0} /\ Sending' = {}
  BY <1>1 DEF ReceiverReset, TransmitterReset, Received, Sending
<1>3. got' = got
  <2>1. CASE Reset' BY <2>1, ResetEndsAccess DEF EndAccess, Is
  <2>2. CASE Reset
    BY <2>2, ResetEndsAccess DEF Next, BusStep, Compute, StartAccess
  <2>3. QED BY <2>1, <2>2 DEF InReset
<1>4. QED BY <1>2, <1>3

\* An access under way is ended by the clock after its acknowledgement.
LEMMA AcknowledgeEnds ==
  PortInv /\ Next /\ chipselect /\ acknowledge => EndAccess
  BY DEF Next, BusStep, Compute, StartAccess, DriveBus

\* Only the end of a read of the data register changes what NIOS has read.
LEMMA GotStep == PortInv /\ Next /\ ~(ReadRR /\ EndAccess) => got' = got
  BY DEF PortInv, AccessInv, Next, BusStep, Compute, StartAccess, DriveBus, EndAccess, Is

\* A step of the receiver is a step of the buffer's.
LEMMA ReceiverIsBuffer ==
  ASSUME PortInv, Next, ~InReset
  PROVE  \/ got' \in Received /\ Received' = {}
         \/ \E b \in Bytes : Received' = {b} /\ got' = got
         \/ \E b \in Bytes : Received # {} /\ got' = b /\ Received' = {}
         \/ Received' = Received /\ got' = got
<1>1. acia_rx_receive /\ acia_rx_read
  BY DEF Next, Receiver
<1>2. RxStop_state \/ RxDOut' = RxDOut
  BY <1>1 DEF acia_rx_receive, RxStart_state, RxData_state
<1>3. RxShiftReg \in Bytes
  BY DEF PortInv, TypeOK
<1>4. CASE ReadRR /\ EndAccess
  <2>1. got' = RxDOut' /\ Received = {RxDOut}
    BY <1>4 DEF EndAccess, PortInv, AccessInv, ReceiverInv, Received, Is
  <2>2. Received' = {}
    BY <1>1, <1>4 DEF acia_rx_read, Received
  <2>3. QED BY <1>2, <1>3, <2>1, <2>2 DEF RxStop_state
<1>5. CASE ReadRR /\ ~EndAccess
  <2>1. ~chipselect BY <1>5, AcknowledgeEnds DEF PortInv, AccessInv
  <2>2. Received = {} BY <1>5, <2>1 DEF PortInv, ReceiverInv, Received
  <2>3. Received' = {} BY <1>1, <1>5 DEF acia_rx_read, Received
  <2>4. QED BY <1>5, <2>2, <2>3, GotStep
<1>6. CASE ~ReadRR
  <2>1. got' = got BY <1>6, GotStep
  <2>2. CASE RxStop_state
    <3>1. RxAck BY <2>2 DEF RxStop_state, PortInv, ReceiverInv
    <3>2. Received' = {RxShiftReg}
      BY <1>1, <1>6, <2>2, <3>1 DEF RxStop_state, acia_rx_read, Received
    <3>3. QED BY <1>3, <2>1, <3>2
  <2>3. CASE ~RxStop_state
    <3>1. RxDOut' = RxDOut BY <1>2, <2>3
    <3>2. RxAck => RxAck'
      BY <1>1, <2>3 DEF acia_rx_receive, RxStart_state, RxData_state
    <3>3. /\ RxReady' = (RxReady \/ (~RxReq /\ ~RxAck))
          /\ RxReq' = (RxReq /\ ~RxAck)
      BY <1>1, <1>6 DEF acia_rx_read, PortInv, TypeOK
    <3>4. Received' = Received
      BY <3>1, <3>2, <3>3 DEF Received
    <3>5. QED BY <2>1, <3>4
  <2>4. QED BY <2>2, <2>3
<1>7. QED BY <1>4, <1>5, <1>6

\* So is a step of the transmitter.
LEMMA TransmitterIsBuffer ==
  ASSUME PortInv, Next, ~InReset
  PROVE  \/ Sending # {} /\ Sending' = {}
         \/ \E b \in Bytes : Sending = {} /\ Sending' = {b}
         \/ Sending' = Sending
<1>1. acia_tx_transmit /\ acia_tx_write
  BY DEF Next, Transmitter
<1>2. Strobe("write", "data") \/ TranReg' = TranReg
  BY DEF Next, Registers
<1>3. Strobe("write", "data") => TxEmp
  BY DEF Strobe, PortInv, AccessInv, TransmitterInv
<1>4. CASE WriteTR
  <2>1. TxReq' BY <1>1, <1>4 DEF acia_tx_write
  <2>2. Sending' = {TranReg'} BY <2>1 DEF Sending
  <2>3. CASE chipselect
    <3>1. TxEmp BY <1>4, <2>3 DEF PortInv, AccessInv, TransmitterInv
    <3>2. Sending = {} BY <3>1 DEF PortInv, TransmitterInv, Sending
    <3>3. TranReg' \in Bytes BY RegistersType DEF PortInv, Next
    <3>4. QED BY <2>2, <3>2, <3>3
  <2>4. CASE ~chipselect
    <3>1. TxReq /\ TranReg' = TranReg
      BY <1>2, <1>4, <2>4 DEF Strobe, PortInv, AccessInv, TransmitterInv
    <3>2. QED BY <2>2, <3>1 DEF Sending
  <2>5. QED BY <2>3, <2>4
<1>5. CASE ~WriteTR
  <2>1. TxReq' = (TxReq /\ ~TxAck)
    BY <1>1, <1>5 DEF acia_tx_write, PortInv, TypeOK
  <2>2. CASE TxEmp
    <3>1. ~TxReq /\ ~TxAck /\ TxState = "stop"
      BY <2>2 DEF PortInv, TransmitterInv
    <3>2. ~TxAck'
      BY <1>1, <3>1 DEF acia_tx_transmit, Tx1Stop_State, TxStart_State, TxData_State
    <3>3. ~TxReq' BY <2>1, <3>1
    <3>4. QED BY <3>1, <3>2, <3>3 DEF Sending
  <2>3. CASE ~TxEmp
    <3>1. TranReg' = TranReg BY <1>2, <1>3, <2>3
    <3>2. CASE Tx1Stop_State
      <4>1. TxReq => ~TxAck
        BY <3>2 DEF Tx1Stop_State, PortInv, TransmitterInv
      <4>2. QED BY <2>1, <3>1, <3>2, <4>1 DEF Tx1Stop_State, Sending
    <3>3. CASE TxStart_State
      <4>1. TxReq /\ ~TxAck
        BY <3>3 DEF TxStart_State, PortInv, TransmitterInv
      <4>2. QED BY <2>1, <3>1, <4>1 DEF Sending
    <3>4. CASE TxAck' = TxAck /\ TxShiftReg' = TxShiftReg
      <4>1. TxReq /\ TxAck => TxShiftReg = TranReg
        BY DEF PortInv, TransmitterInv
      <4>2. QED BY <2>1, <3>1, <3>4, <4>1 DEF Sending
    <3>5. QED BY <1>1, <3>2, <3>3, <3>4 DEF acia_tx_transmit, TxData_State
  <2>4. QED BY <2>2, <2>3
<1>6. QED BY <1>4, <1>5

\* A serial port implements the one-byte buffer of SerialBuffer, whatever the
\* line and the program do.
THEOREM BufferCorrect == Spec => IsOneByteBuffer
<1>1. Init => Buffer!Init
  BY DEF Init, Buffer!Init, Received, Sending
<1>2. ASSUME PortInv, Next, InReset
      PROVE  Buffer!Next
  BY <1>2, ResetIsReset DEF Buffer!Next, Buffer!Reset
<1>3. ASSUME PortInv, Next, ~InReset
      PROVE  Buffer!Next
  <2>1. Buffer!Receiver \/ UNCHANGED Buffer!received
    BY <1>3, ReceiverIsBuffer
       DEF Buffer!Receiver, Buffer!Take, Buffer!Receive, Buffer!TakeNew, Buffer!received
  <2>2. Buffer!Transmitter \/ UNCHANGED Sending
    BY <1>3, TransmitterIsBuffer DEF Buffer!Transmitter, Buffer!Sent, Buffer!Put
  <2>3. QED BY <2>1, <2>2 DEF Buffer!Next
<1>4. UNCHANGED vars => UNCHANGED <<Received, got, Sending>>
  BY DEF vars, niosVars, busVars, rxVars, txVars, Received, Sending
<1>5. PortInv /\ [Next]_vars => [Buffer!Next]_<<Received, got, Sending>>
  BY <1>2, <1>3, <1>4
<1>6. QED BY <1>1, <1>5, PortInvariant, PTL DEF Spec, IsOneByteBuffer, Buffer!Spec
===============================================================================

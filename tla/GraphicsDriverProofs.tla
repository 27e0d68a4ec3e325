------------------------- MODULE GraphicsDriverProofs -------------------------
(***************************************************************************)
(* Proofs about GraphicsDriver, for every screen, word size, palette and   *)
(* set of calls.                                                           *)
(***************************************************************************)
EXTENDS GraphicsDriver, TLAPS

-------------------------------------------------------------------------------
(* Words.                                                                   *)

\* The low bits of any sum are a register value.
LEMMA WrapType == \A n \in Int : Wrap(n) \in Words
<1>1. Half \in Int /\ Word = 2 * Half
  BY ChipAssumption DEF Half
<1> SUFFICES ASSUME NEW n \in Int PROVE Wrap(n) \in Words
  OBVIOUS
<1>2. (n + Half) % Word \in 0 .. Word - 1
  BY <1>1, ChipAssumption
<1> QED
  BY <1>1, <1>2 DEF Wrap, Words

LEMMA WordType == Words \subseteq Int /\ 0 \in Words /\ 1 \in Words /\ -1 \in Words
                  /\ Colours \subseteq Words
  BY ChipAssumption DEF Words, Half

\* The same of sums and differences, for the leaves that combine registers.
LEMMA SumType ==
    \A a, b \in Int : /\ Wrap(a + b) \in Words /\ Wrap(a - b) \in Words
                      /\ Wrap(a + b) \in Int /\ Wrap(a - b) \in Int
                      /\ Double(a) \in Words /\ Double(a) \in Int
<1> SUFFICES ASSUME NEW a \in Int, NEW b \in Int
             PROVE  /\ Wrap(a + b) \in Words /\ Wrap(a - b) \in Words
                    /\ Wrap(a + b) \in Int /\ Wrap(a - b) \in Int
                    /\ Double(a) \in Words /\ Double(a) \in Int
  OBVIOUS
<1>1. a + b \in Int /\ a - b \in Int /\ 2 * a \in Int
  OBVIOUS
<1> QED
  BY <1>1, WrapType, WordType, Zenon DEF Double

LEMMA SignType == \A n \in Int : Sign(n) \in Words /\ Abs(n) \in Words
  BY WrapType, WordType DEF Sign, Abs
-------------------------------------------------------------------------------
(* Type correctness.                                                        *)

\* What the processes common to all states leave well-typed.
LEMMA ClockedType ==
    ASSUME TypeOK, NEW incX \in Int, NEW incY \in Int, Clocked(incX, incY)
    PROVE  /\ CommandWritten_H' \in BOOLEAN /\ Idle_H' \in BOOLEAN
           /\ OKToDraw_L' \in BOOLEAN /\ GraphicsBusy_H' \in BOOLEAN
           /\ Command' \in Words /\ X1' \in Words /\ Y1' \in Words
           /\ X2' \in Words /\ Y2' \in Words /\ Colour' \in Colours
           /\ sram' \in [Pixels -> Colours]
<1>1. write_data \in Words /\ (Select("Colour") => write_data \in Colours)
  BY DEF TypeOK, AccessType, Select
<1>2. X1 + incX \in Int /\ Y1 + incY \in Int
  BY WordType DEF TypeOK, ChipTypeOK
<1>3. /\ Command' \in Words /\ X1' \in Words /\ Y1' \in Words
      /\ X2' \in Words /\ Y2' \in Words /\ Colour' \in Colours
  BY <1>1, <1>2, WrapType DEF Clocked, Registers, Loaded, TypeOK, ChipTypeOK
<1>4. sram' \in [Pixels -> Colours]
  BY DEF Clocked, SramWrite, SramAccesses, TypeOK, ChipTypeOK
<1>5. /\ CommandWritten_H' \in BOOLEAN /\ Idle_H' \in BOOLEAN
      /\ OKToDraw_L' \in BOOLEAN /\ GraphicsBusy_H' \in BOOLEAN
  BY DEF Clocked, CommandWritten, BusyIdle, Select, ClearBusy_H, SetBusy_H,
         TypeOK, ChipTypeOK
<1> QED
  BY <1>3, <1>4, <1>5

\* An address presented to the SRAM is one of its own.
LEMMA AccessTyped ==
    ASSUME TypeOK
    PROVE  \A w \in BOOLEAN, col, row \in Int, lanes \in SUBSET {0, 1} :
              Access(w, col, row, lanes) => Sram_Out' \in SramAccesses
<1> SUFFICES ASSUME NEW w \in BOOLEAN, NEW col \in Int, NEW row \in Int,
                    NEW lanes \in SUBSET {0, 1}, Access(w, col, row, lanes)
             PROVE  Sram_Out' \in SramAccesses
  BY Zenon
<1>1. row % Rows \in 0 .. Rows - 1
  BY ChipAssumption
<1>2. (col % Columns) \in 0 .. Columns - 1
  BY ChipAssumption
<1>3. (col % Columns) \div 2 \in 0 .. (Columns - 1) \div 2
  BY <1>2, ChipAssumption
<1> QED
  BY <1>1, <1>3 DEF Access, SramAccesses, TypeOK, ChipTypeOK

\* The states of the machine that a command can lead to.
LEMMA StateNames ==
    /\ \A c \in Words : FirstState(c) \in States
    /\ {"Idle", "ProcessCommand", "DrawPixel", "ReadPixel", "ReadPixel1",
        "ReadPixel2", "ReadPixel3", "DrawHline", "DrawVline", "DrawLine1",
        "DrawLine2", "DrawLine3", "DrawLine4", "DrawRectangle1",
        "DrawRectangle2", "DrawCircle1"} \subseteq States
    /\ \A k \in 1 .. 9 : Octants[k] \in States
<1>1. \A c \in Words : FirstState(c) \in States
  BY DEF FirstState, States
<1> QED
  BY <1>1 DEF States

\* The registers the machine works with, all but the ones of Clocked.
LineTypeOK ==
    /\ x \in Words /\ y \in Words /\ dx \in Words /\ dy \in Words
    /\ s1 \in Words /\ s2 \in Words /\ error \in Words /\ i \in Words
    /\ interchange \in BOOLEAN

\* Every state of the chip keeps its registers well-typed.
LEMMA ChipTypeStep ==
    ASSUME TypeOK, ChipStep
    PROVE  ChipTypeOK'
<1>1. PICK incX \in Int, incY \in Int : Clocked(incX, incY)
  <2> DEFINE Some == \E incX, incY \in Int : Clocked(incX, incY)
  <2>1. /\ Clocked(0, 0) => Some
        /\ Clocked(RunStep(X1), 0) => Some
        /\ Clocked(0, IF Y1 < Y2 THEN 1 ELSE 0) => Some
        /\ Clocked(0, 1) => Some
    <3>1. /\ RunStep(X1) \in Int /\ (IF Y1 < Y2 THEN 1 ELSE 0) \in Int
          /\ 0 \in Int /\ 1 \in Int
      BY DEF RunStep
    <3> QED
      BY <3>1, Zenon
  <2> HIDE DEF Some
  <2> SUFFICES Some
    BY DEF Some
  <2>2. CASE DrawHline
    BY <2>1, <2>2, Zenon DEF DrawHline
  <2>3. CASE DrawVline
    BY <2>1, <2>3, Zenon DEF DrawVline
  <2>4. CASE DrawRectangle2
    BY <2>1, <2>4, Zenon DEF DrawRectangle2
  <2> QED
    BY <2>1, <2>2, <2>3, <2>4
       DEF ChipStep, IdleState, ProcessCommand, PalletteReProgram, DrawPixel,
           ReadPixel, ReadPixel1, ReadPixel2, ReadPixel3, DrawRectangle,
           DrawRectangle1, DrawLine, DrawLine1, DrawLine2, DrawLine3,
           DrawLine4, DrawCircle, DrawCircle1, DrawCircleOctant, DrawCircle10
<1>2. LineTypeOK /\ X1 \in Int /\ Y1 \in Int /\ X2 \in Int /\ Y2 \in Int
      /\ Command \in Words /\ CurrentState \in States
  BY WordType DEF TypeOK, ChipTypeOK, LineTypeOK
<1>3. LineTypeOK => /\ x \in Int /\ y \in Int /\ dx \in Int /\ dy \in Int /\ i \in Int
                    /\ s1 \in Int /\ s2 \in Int /\ error \in Int
  BY WordType DEF LineTypeOK
<1>4. Sram_Out' \in SramAccesses
  <2>1. NoAccess => Sram_Out' \in SramAccesses
    <3>1. {} \in SUBSET {0, 1} /\ 0 \in Int /\ FALSE \in BOOLEAN
      OBVIOUS
    <3> QED
      BY <3>1, AccessTyped, Zenon DEF NoAccess
  <2>2. \A col, row \in Int : WritePixel(col, row) => Sram_Out' \in SramAccesses
    <3>1. \A col \in Int : {col % 2} \in SUBSET {0, 1}
      OBVIOUS
    <3>2. TRUE \in BOOLEAN
      OBVIOUS
    <3> QED
      BY <3>1, <3>2, AccessTyped, Zenon DEF WritePixel
  <2>3. \A col \in Int : RunLanes(col) \in SUBSET {0, 1}
    BY DEF RunLanes
  <2>4. ASSUME NEW k \in 1 .. 8
        PROVE  /\ Wrap(X1 + OctantOffset(k)[1]) \in Int
               /\ Wrap(Y1 + OctantOffset(k)[2]) \in Int
    <3>1. OctantOffset(k)[1] \in Int /\ OctantOffset(k)[2] \in Int
      BY <1>2, <1>3 DEF OctantOffset
    <3> QED
      BY <3>1, <1>2, SumType, Zenon
  <2>5. CASE \E k \in 1 .. 8 : DrawCircleOctant(k)
    BY <2>5, <2>1, <2>2, <2>4 DEF DrawCircleOctant, Stay
  <2>6. CASE DrawHline \/ DrawVline \/ DrawRectangle1 \/ ReadPixel1
    <3>1. {X1 % 2} \in SUBSET {0, 1} /\ {0, 1} \in SUBSET {0, 1}
      BY <1>2
    <3>2. /\ (X1 < X2) \in BOOLEAN /\ (Y1 < Y2) \in BOOLEAN
          /\ (x < X2) \in BOOLEAN /\ FALSE \in BOOLEAN
      BY <1>2, <1>3
    <3>3. CASE Stay
      BY <3>3, <2>1 DEF Stay
    <3>4. CASE Access(X1 < X2, X1, Y1, RunLanes(X1))
      BY <3>2, <3>4, <2>3, <1>2, AccessTyped, Zenon
    <3>5. CASE Access(Y1 < Y2, X1, Y1, {X1 % 2})
      BY <3>1, <3>2, <3>5, <1>2, AccessTyped, Zenon
    <3>6. CASE Access(x < X2, x, Y1, RunLanes(x))
      BY <3>2, <3>6, <2>3, <1>2, <1>3, AccessTyped, Zenon
    <3>7. CASE Access(FALSE, X1, Y1, {0, 1})
      BY <3>1, <3>2, <3>7, <1>2, AccessTyped, Zenon
    <3> QED
      BY <3>3, <3>4, <3>5, <3>6, <3>7, <2>6, Zenon
         DEF DrawHline, DrawVline, DrawRectangle1, ReadPixel1
  <2>7. CASE DrawPixel \/ DrawLine2
    BY <2>7, <2>1, <2>2, <1>2, <1>3 DEF DrawPixel, DrawLine2, Stay
  <2> QED
    BY <2>1, <2>5, <2>6, <2>7
       DEF ChipStep, IdleState, ProcessCommand, PalletteReProgram, Stay,
           ReadPixel, ReadPixel2, ReadPixel3, DrawRectangle, DrawRectangle2,
           DrawLine, DrawLine1, DrawLine3, DrawLine4, DrawCircle, DrawCircle1,
           DrawCircle10
<1>5. LineTypeOK'
  <2>1. ASSUME UNCHANGED lineRegs PROVE LineTypeOK'
    BY <2>1, <1>2 DEF lineRegs, LineTypeOK
  <2>3. CASE DrawRectangle \/ DrawRectangle1 \/ DrawRectangle2
    <3>1. RunStep(x) \in Int
      BY DEF RunStep
    <3>2. Wrap(x + RunStep(x)) \in Words
      BY <3>1, <1>2, <1>3, SumType, Zenon
    <3> QED
      BY <3>2, <2>1, <2>3, <1>2 DEF DrawRectangle,
         DrawRectangle1, DrawRectangle2, Stay, LineTypeOK, TypeOK, ChipTypeOK
  <2>4. CASE DrawLine
    <3>1. Wrap(X2 - X1) \in Int /\ Wrap(Y2 - Y1) \in Int
      BY <1>2, SumType, Zenon
    <3>2. /\ Abs(Wrap(X2 - X1)) \in Words /\ Abs(Wrap(Y2 - Y1)) \in Words
          /\ Sign(Wrap(X2 - X1)) \in Words /\ Sign(Wrap(Y2 - Y1)) \in Words
      BY <3>1, SignType, Zenon
    <3> QED
      BY <3>2, <2>4, <1>2, WordType
         DEF DrawLine, LineTypeOK, TypeOK, ChipTypeOK
  <2>5. CASE DrawLine1
    <3>1. /\ Wrap(Double(dx) - dy) \in Words
          /\ Wrap(Double(dy) - dx) \in Words
      BY <1>2, <1>3, SumType, Zenon
    <3> QED
      BY <3>1, <2>5, <1>2, WordType DEF DrawLine1, LineTypeOK
  <2>6. CASE DrawLine3 \/ DrawLine4
    <3>1. /\ Double(dx) \in Int /\ Double(dy) \in Int
          /\ Wrap(x + s1) \in Words /\ Wrap(y + s2) \in Words
          /\ Wrap(i + 1) \in Words
      <4>1. 1 \in Int
        OBVIOUS
      <4> QED
        BY <4>1, <1>2, <1>3, SumType, Zenon
    <3>2. Wrap(error - Double(dx)) \in Words /\ Wrap(error + Double(dy)) \in Words
      BY <3>1, <1>2, <1>3, SumType, Zenon
    <3> QED
      BY <3>1, <3>2, <2>6, <1>2 DEF DrawLine3, DrawLine4, LineTypeOK
  <2>7. CASE DrawCircle \/ DrawCircle10
    <3>1. /\ Wrap(1 - X2) \in Words /\ Wrap(y + 1) \in Words
          /\ Wrap(x - 1) \in Words
          /\ Double(y + 2) \in Int /\ Double(y - x + 2) \in Int
      <4>1. 1 \in Int /\ y + 2 \in Int /\ y - x + 2 \in Int
        BY <1>2, <1>3
      <4> QED
        BY <4>1, <1>2, <1>3, SumType, Zenon
    <3>2. /\ Wrap(s2 + Double(y + 2)) \in Words
          /\ Wrap(s2 + Double(y - x + 2) + 1) \in Words
      <4>1. s2 + Double(y - x + 2) \in Int /\ 1 \in Int
        BY <3>1, <1>2, <1>3
      <4> QED
        BY <4>1, <3>1, <1>2, <1>3, SumType, Zenon
    <3> QED
      BY <3>1, <3>2, <2>7, <1>2, WordType
         DEF DrawCircle, DrawCircle10, LineTypeOK, TypeOK, ChipTypeOK
  <2> QED
    BY <2>1, <2>3, <2>4, <2>5, <2>6, <2>7
       DEF ChipStep, IdleState, ProcessCommand, PalletteReProgram, DrawPixel,
           ReadPixel, ReadPixel1, ReadPixel2, ReadPixel3, DrawHline, DrawVline,
           DrawLine2, DrawCircle1, DrawCircleOctant, Stay
<1>6. CurrentState' \in States
  <2>1. ASSUME Stay PROVE CurrentState' \in States
    BY <2>1, <1>2 DEF Stay, Goto
  <2>2. CASE ProcessCommand
    BY <2>2, <1>2, StateNames DEF ProcessCommand, Goto
  <2>3. CASE \E k \in 1 .. 8 : DrawCircleOctant(k)
    BY <2>3, <2>1, StateNames DEF DrawCircleOctant, Goto
  <2>4. CASE DrawCircle1
    BY <2>4, StateNames DEF DrawCircle1, Goto
  <2>5. CASE IdleState \/ PalletteReProgram \/ DrawPixel \/ ReadPixel
             \/ ReadPixel1 \/ ReadPixel2 \/ ReadPixel3 \/ DrawHline \/ DrawVline
    BY <2>5, <2>1, StateNames
       DEF IdleState, PalletteReProgram, DrawPixel, ReadPixel, ReadPixel1,
           ReadPixel2, ReadPixel3, DrawHline, DrawVline, Goto
  <2>6. CASE DrawRectangle \/ DrawRectangle1 \/ DrawRectangle2 \/ DrawLine
             \/ DrawLine1 \/ DrawLine2 \/ DrawLine3 \/ DrawLine4
             \/ DrawCircle \/ DrawCircle10
    BY <2>6, <2>1, StateNames
       DEF DrawRectangle, DrawRectangle1, DrawRectangle2, DrawLine, DrawLine1,
           DrawLine2, DrawLine3, DrawLine4, DrawCircle, DrawCircle10, Goto
  <2> QED
    BY <2>2, <2>3, <2>4, <2>5, <2>6 DEF ChipStep
<1>7. Colour_Latch' \in Colours
  <2>1. CASE ReadPixel2
    <3>1. <<2 * Sram_Out.pair + (X1 % 2), Sram_Out.row>> \in Pixels
      <4>1. /\ Sram_Out.pair \in 0 .. (Columns - 1) \div 2
            /\ Sram_Out.row \in 0 .. Rows - 1
        BY DEF TypeOK, ChipTypeOK, SramAccesses
      <4>2. X1 % 2 \in {0, 1}
        BY <1>2
      <4> QED
        BY <4>1, <4>2, ChipAssumption DEF Pixels
    <3> QED
      BY <3>1, <2>1 DEF ReadPixel2, Sram_DataIn, TypeOK, ChipTypeOK
  <2> QED
    BY <2>1 DEF ChipStep, IdleState, ProcessCommand, PalletteReProgram,
       DrawPixel, ReadPixel, ReadPixel1, ReadPixel3, DrawHline, DrawVline,
       DrawRectangle, DrawRectangle1, DrawRectangle2, DrawLine, DrawLine1,
       DrawLine2, DrawLine3, DrawLine4, DrawCircle, DrawCircle1,
       DrawCircleOctant, DrawCircle10, NoLatch, TypeOK, ChipTypeOK
<1>8. palette' \in [Colours -> Words \X Words]
  <2>1. CASE PalletteReProgram
    BY <2>1 DEF PalletteReProgram, TypeOK, ChipTypeOK
  <2> QED
    BY <2>1 DEF ChipStep, IdleState, ProcessCommand, ReadPixel2,
       DrawPixel, ReadPixel, ReadPixel1, ReadPixel3, DrawHline, DrawVline,
       DrawRectangle, DrawRectangle1, DrawRectangle2, DrawLine, DrawLine1,
       DrawLine2, DrawLine3, DrawLine4, DrawCircle, DrawCircle1,
       DrawCircleOctant, DrawCircle10, NoLatch, TypeOK, ChipTypeOK
<1> QED
  BY <1>1, <1>4, <1>5, <1>6, <1>7, <1>8, ClockedType DEF ChipTypeOK, LineTypeOK
-------------------------------------------------------------------------------
(* Type correctness of the functions and the bridge.                        *)

\* The accesses a function is made of.
LEMMA AccessesMade ==
    /\ \A r \in RegisterNames : Read(r) \in AccessType
    /\ \A r \in RegisterNames, v \in Int :
          (r = "Colour" => v \in Colours) => Write(r, v) \in AccessType
<1>1. \A r \in RegisterNames : Read(r) \in AccessType
  BY WordType DEF Read, AccessType
<1>2. ASSUME NEW r \in RegisterNames, NEW v \in Int, r = "Colour" => v \in Colours
      PROVE  Write(r, v) \in AccessType
  <2>1. v \in Colours => Wrap(v) = v
    BY ChipAssumption DEF Wrap, Half
  <2>2. Wrap(v) \in Words
    BY WrapType
  <2> QED
    BY <1>2, <2>1, <2>2 DEF Write, AccessType
<1> QED
  BY <1>1, <1>2, Zenon

\* Every function is a sequence of well-typed accesses.
LEMMA AccessesTyped == \A c \in Calls : Accesses(c) \in Seq(AccessType)
<1> SUFFICES ASSUME NEW c \in Calls PROVE Accesses(c) \in Seq(AccessType)
  OBVIOUS
<1>1. /\ c.fn \in FunctionNames /\ c.x1 \in Int /\ c.y1 \in Int
      /\ c.x2 \in Int /\ c.y2 \in Int /\ c.colour \in Colours /\ c.colour \in Int
  BY CallsAssumption, WordType
<1>2. c.x1 + c.x2 \in Int /\ c.y1 + c.y2 \in Int
  BY <1>1
<1>3. /\ "Command" \in RegisterNames /\ "Colour" \in RegisterNames
      /\ "X1" \in RegisterNames /\ "Y1" \in RegisterNames
      /\ "X2" \in RegisterNames /\ "Y2" \in RegisterNames
      /\ "Command" # "Colour" /\ "X1" # "Colour" /\ "Y1" # "Colour"
      /\ "X2" # "Colour" /\ "Y2" # "Colour"
  BY DEF RegisterNames
<1>4. WAIT_FOR_GRAPHICS \in AccessType /\ Read("Colour") \in AccessType
  BY <1>3, AccessesMade, Zenon DEF WAIT_FOR_GRAPHICS
<1>5. /\ Write("X1", c.x1) \in AccessType /\ Write("Y1", c.y1) \in AccessType
      /\ Write("X2", c.x2) \in AccessType /\ Write("Y2", c.y2) \in AccessType
      /\ Write("X2", c.x1 + c.x2) \in AccessType
      /\ Write("Y2", c.y1 + c.y2) \in AccessType
      /\ Write("Colour", c.colour) \in AccessType
  BY <1>1, <1>2, <1>3, AccessesMade, Zenon
<1>6. \A n \in Int : Write("Command", n) \in AccessType
  BY <1>3, AccessesMade, Zenon
<1>7. /\ Write("Command", PutPixel) \in AccessType
      /\ Write("Command", GetPixel) \in AccessType
      /\ Write("Command", Hline) \in AccessType
      /\ Write("Command", Vline) \in AccessType
      /\ Write("Command", ALine) \in AccessType
      /\ Write("Command", ProgramPallette) \in AccessType
      /\ Write("Command", Rectangle) \in AccessType
      /\ Write("Command", Circle) \in AccessType
  BY <1>6 DEF PutPixel, GetPixel, Hline, Vline, ALine, ProgramPallette,
              Rectangle, Circle
<1>8. <<>> \in Seq(AccessType)
  OBVIOUS
<1>9. CASE c.fn \in {"WriteAPixel", "ReadAPixel"}
  BY <1>9, <1>4, <1>5, <1>7, <1>8 DEF Accesses, Checked, WriteAPixel, ReadAPixel
<1>10. CASE c.fn \in {"WriteHLine", "WriteVLine"}
  BY <1>10, <1>4, <1>5, <1>7, <1>8 DEF Accesses, Checked, WriteHLine, WriteVLine
<1>11. CASE c.fn \in {"WriteLine", "WriteFilledRectangle"}
  BY <1>11, <1>4, <1>5, <1>7, <1>8
     DEF Accesses, Checked, WriteLine, WriteFilledRectangle
<1>12. CASE c.fn \in {"ProgramPalette", "WriteCircle"}
  BY <1>12, <1>4, <1>5, <1>7 DEF Accesses, ProgramPalette, WriteCircle
<1> QED
  BY <1>1, <1>9, <1>10, <1>11, <1>12 DEF FunctionNames

\* The reset values are well-typed.
LEMMA TypeInit == Init => TypeOK
<1> SUFFICES ASSUME Init PROVE TypeOK
  OBVIOUS
<1>1. ChipTypeOK
  <2>1. Sram_Out \in SramAccesses
    BY ChipAssumption DEF Init, ChipInit, SramAccesses
  <2>2. sram \in [Pixels -> Colours]
    BY ChipAssumption DEF Init, ChipInit, Pixels
  <2> QED
    BY <2>1, <2>2, WordType, StateNames, ChipAssumption
       DEF Init, ChipInit, ChipTypeOK
<1>2. DisplayTypeOK
  BY ChipAssumption DEF Init, DisplayInit, DisplayTypeOK
<1>3. [rw |-> rw, reg |-> address, val |-> write_data] \in AccessType
  BY WordType DEF Init, AccessType, RegisterNames
<1>4. /\ bus_enable \in BOOLEAN /\ chipselect \in BOOLEAN
      /\ acknowledge \in BOOLEAN /\ call \in Calls
      /\ inFlight \subseteq Calls /\ returned \subseteq Colours
  BY DEF Init
<1>5. todo \in Seq(AccessType)
  BY DEF Init
<1> QED
  BY <1>1, <1>2, <1>3, <1>4, <1>5, Zenon DEF TypeOK

\* A clock keeps what the driver and the bridge hold well-typed.
LEMMA DriverTypeStep ==
    ASSUME TypeOK, BusInv, Next
    PROVE  /\ DisplayTypeOK'
           /\ bus_enable' \in BOOLEAN /\ chipselect' \in BOOLEAN
           /\ acknowledge' \in BOOLEAN
           /\ ([rw |-> rw, reg |-> address, val |-> write_data] \in AccessType)'
           /\ todo' \in Seq(AccessType)
           /\ call' \in Calls /\ inFlight' \subseteq Calls
           /\ returned' \subseteq Colours
<1>1. DisplayTypeOK'
  <2>1. BlankTicks \in Nat /\ BlankTicks > 0 /\ blank \in 0 .. BlankTicks
    BY ChipAssumption DEF TypeOK, DisplayTypeOK
  <2>2. VSync_L' \in BOOLEAN
    BY DEF Next, DisplayStep
  <2>3. blank' \in 0 .. BlankTicks
    <3>1. CASE blank = 0
      BY <3>1, <2>1 DEF Next, DisplayStep
    <3>2. CASE blank = 1
      BY <3>2, <2>1 DEF Next, DisplayStep
    <3>3. CASE blank # 0 /\ blank # 1
      BY <3>3, <2>1 DEF Next, DisplayStep
    <3> QED
      BY <3>1, <3>2, <3>3
  <2> QED
    BY <2>2, <2>3 DEF DisplayTypeOK
<1>2. acknowledge' \in BOOLEAN /\ inFlight' \subseteq Calls
  BY DEF Next, Track, TypeOK
<1>3. todo # <<>> => Head(todo) \in AccessType /\ Tail(todo) \in Seq(AccessType)
  BY DEF TypeOK
<1>4. chipselect => todo # <<>>
  BY DEF BusInv
<1>5. BusStep
  BY DEF Next
<1>6. CASE CallFunction
  BY <1>1, <1>2, <1>6, AccessesTyped DEF CallFunction, busVars, TypeOK
<1>7. CASE ~chipselect /\ Compute
  BY <1>1, <1>2, <1>7 DEF Compute, busVars, TypeOK
<1>8. CASE StartAccess
  BY <1>1, <1>2, <1>8 DEF StartAccess, busVars, TypeOK
<1>9. CASE DriveBus
  <2>1. Head(todo) = [rw |-> rw', reg |-> address', val |-> write_data']
    BY <1>3, <1>4, <1>9 DEF DriveBus, AccessType
  <2> QED
    BY <2>1, <1>1, <1>2, <1>3, <1>4, <1>9 DEF DriveBus, TypeOK
<1>10. CASE EndAccess
  BY <1>1, <1>2, <1>3, <1>4, <1>10 DEF EndAccess, TypeOK, ChipTypeOK
<1> QED
  BY <1>5, <1>6, <1>7, <1>8, <1>9, <1>10 DEF BusStep
-------------------------------------------------------------------------------
(* The handshake between the driver and the chip.                           *)

\* What every state of the chip does to the bits of the handshake: a command
\* is taken up by the Idle state only, when the bus is quiet.
LEMMA ChipHandshake ==
    ASSUME ChipStep
    PROVE  /\ CommandWritten /\ BusyIdle
           /\ CurrentState = "Idle" =>
                 CurrentState' = IF CommandWritten_H /\ ~bus_enable
                                 THEN "ProcessCommand" ELSE "Idle"
           /\ CurrentState # "Idle" => CurrentState' # "ProcessCommand"
<1>1. \A a, b : Clocked(a, b) => CommandWritten /\ BusyIdle
  BY DEF Clocked
<1>2. \A c : FirstState(c) # "ProcessCommand"
  BY DEF FirstState
<1>3. CASE \E k \in 1 .. 8 : DrawCircleOctant(k)
  BY <1>1, <1>3 DEF DrawCircleOctant, Octants, Stay, Goto
<1>4. CASE IdleState \/ ProcessCommand
  BY <1>1, <1>2, <1>4 DEF IdleState, ProcessCommand, Goto
<1>5. CASE PalletteReProgram \/ DrawPixel \/ ReadPixel \/ ReadPixel1
           \/ ReadPixel2 \/ ReadPixel3 \/ DrawHline \/ DrawVline
  BY <1>1, <1>5 DEF PalletteReProgram, DrawPixel, ReadPixel, ReadPixel1,
                    ReadPixel2, ReadPixel3, DrawHline, DrawVline, Stay, Goto
<1>6. CASE DrawRectangle \/ DrawRectangle1 \/ DrawRectangle2
           \/ DrawLine \/ DrawLine1 \/ DrawLine2 \/ DrawLine3 \/ DrawLine4
  BY <1>1, <1>6 DEF DrawRectangle, DrawRectangle1, DrawRectangle2, DrawLine,
                    DrawLine1, DrawLine2, DrawLine3, DrawLine4, Stay, Goto
<1>7. CASE DrawCircle \/ DrawCircle1 \/ DrawCircle10
  BY <1>1, <1>7 DEF DrawCircle, DrawCircle1, DrawCircle10, Octants, Goto
<1> QED
  BY <1>3, <1>4, <1>5, <1>6, <1>7 DEF ChipStep

\* Every function begins with its wait, and keeps to the order of accesses
\* the chip asks for.
LEMMA AccessesFollowWait ==
    ASSUME TypeOK, CallFunction
    PROVE  todo' # <<>> => Head(todo') = WAIT_FOR_GRAPHICS /\ WritesFollowWait'
<1>1. PICK c \in Calls : todo' = Accesses(c)
  BY DEF CallFunction
<1>2. c.fn \in FunctionNames
  BY CallsAssumption
<1>3. /\ WAIT_FOR_GRAPHICS.rw = "read" /\ Read("Colour").rw = "read"
      /\ \A r, v : Write(r, v).rw = "write" /\ Write(r, v).reg = r
  BY DEF WAIT_FOR_GRAPHICS, Read, Write
\* Writes of other registers may stand between the wait and the command.
<1> DEFINE Plain(a) == a.rw = "write" /\ a.reg # "Command"
           Follows(s) == \A k \in 1 .. Len(s) - 1 :
                            s[k + 1].rw = "write" =>
                               s[k] = WAIT_FOR_GRAPHICS \/ Plain(s[k])
<1>4. \A r \in RegisterNames \ {"Command"} : \A v : Plain(Write(r, v))
  BY <1>3
<1> HIDE DEF Plain
<1>5. \A a1, a2, a3, a4 : Plain(a1) /\ Plain(a2) /\ Plain(a3) =>
        Follows(<<WAIT_FOR_GRAPHICS, a1, a2, a3, a4>>)
  OBVIOUS
<1>6. \A a1, a2, a3, a4, a5 : Plain(a1) /\ Plain(a2) /\ Plain(a3) /\ Plain(a4) =>
        Follows(<<WAIT_FOR_GRAPHICS, a1, a2, a3, a4, a5>>)
  OBVIOUS
<1>7. \A a1, a2, a3, a4, a5, a6 :
        Plain(a1) /\ Plain(a2) /\ Plain(a3) /\ Plain(a4) /\ Plain(a5) =>
           Follows(<<WAIT_FOR_GRAPHICS, a1, a2, a3, a4, a5, a6>>)
  OBVIOUS
<1>8. \A a1, a2, a3, a4 : Plain(a1) /\ Plain(a2) /\ a4.rw = "read" =>
        Follows(<<WAIT_FOR_GRAPHICS, a1, a2, a3, WAIT_FOR_GRAPHICS, a4>>)
  BY <1>3
<1>9. Accesses(c) # <<>> => Follows(Accesses(c))
  <2> HIDE DEF Follows
  <2>1. CASE c.fn \in {"WriteAPixel", "WriteHLine", "WriteVLine"}
    BY <2>1, <1>4, <1>5, <1>6
       DEF Accesses, Checked, WriteAPixel, WriteHLine, WriteVLine, RegisterNames
  <2>2. CASE c.fn = "ReadAPixel"
    BY <2>2, <1>3, <1>4, <1>8 DEF Accesses, Checked, ReadAPixel, RegisterNames
  <2>3. CASE c.fn \in {"WriteLine", "WriteFilledRectangle"}
    BY <2>3, <1>4, <1>7
       DEF Accesses, Checked, WriteLine, WriteFilledRectangle, RegisterNames
  <2>4. CASE c.fn \in {"ProgramPalette", "WriteCircle"}
    BY <2>4, <1>4, <1>5, <1>6
       DEF Accesses, ProgramPalette, WriteCircle, RegisterNames
  <2> QED
    BY <1>2, <2>1, <2>2, <2>3, <2>4 DEF FunctionNames
<1>10. Accesses(c) # <<>> => Head(Accesses(c)) = WAIT_FOR_GRAPHICS
  BY <1>2 DEF Accesses, Checked, FunctionNames, WriteAPixel, ReadAPixel, WriteHLine,
              WriteVLine, WriteLine, WriteFilledRectangle, ProgramPalette, WriteCircle
<1> QED
  BY <1>1, <1>9, <1>10 DEF WritesFollowWait, Plain

\* The bus carries the access at the head of the list, and nothing else.
LEMMA BusStepInv ==
    ASSUME TypeOK, BusInv, Next
    PROVE  BusInv'
<1>1. BusStep /\ acknowledge' = bus_enable
  BY DEF Next
<1>2. CASE CallFunction
  BY <1>1, <1>2 DEF CallFunction, BusInv, busVars, TypeOK
<1>3. CASE ~chipselect /\ Compute
  BY <1>1, <1>3 DEF Compute, BusInv, busVars
<1>4. CASE StartAccess
  BY <1>1, <1>4 DEF StartAccess, BusInv, busVars
<1>5. CASE DriveBus
  BY <1>1, <1>5 DEF DriveBus, BusInv
<1>6. CASE EndAccess
  BY <1>1, <1>6 DEF EndAccess, BusInv
<1> QED
  BY <1>1, <1>2, <1>3, <1>4, <1>5, <1>6 DEF BusStep

\* The tail of a list that keeps to the order keeps to it too.
LEMMA WaitStep ==
    ASSUME TypeOK, BusInv, WritesFollowWait, Next
    PROVE  WritesFollowWait'
<1>1. BusStep
  BY DEF Next
<1>2. CASE CallFunction
  <2>1. todo' = <<>> => WritesFollowWait'
    BY DEF WritesFollowWait
  <2> QED
    BY <2>1, <1>2, AccessesFollowWait
<1>3. ASSUME todo' = todo PROVE WritesFollowWait'
  BY <1>3 DEF WritesFollowWait
<1>4. ASSUME todo # <<>>, todo' = Tail(todo) PROVE WritesFollowWait'
  <2>1. todo \in Seq(AccessType)
    BY DEF TypeOK
  <2>2. Len(todo') = Len(todo) - 1 /\ \A k \in 1 .. Len(todo') : todo'[k] = todo[k + 1]
    BY <2>1, <1>4
  <2> SUFFICES ASSUME NEW k \in 1 .. Len(todo') - 1, todo'[k + 1].rw = "write"
               PROVE  \/ todo'[k] = WAIT_FOR_GRAPHICS
                      \/ todo'[k].rw = "write" /\ todo'[k].reg # "Command"
    BY DEF WritesFollowWait
  <2>3. todo'[k] = todo[k + 1] /\ todo'[k + 1] = todo[k + 1 + 1]
        /\ k + 1 \in 1 .. Len(todo) - 1
    BY <2>1, <2>2
  <2> QED
    BY <2>3 DEF WritesFollowWait
<1> QED
  BY <1>1, <1>2, <1>3, <1>4
     DEF BusStep, Compute, StartAccess, DriveBus, EndAccess, BusInv

\* The handshake holds at reset.
LEMMA HandshakeInit == Init => HandshakeInv
BY DEF Init, ChipInit, HandshakeInv, BusInv, WritesFollowWait, HeadWrites

\* Every clock keeps the handshake.
LEMMA HandshakeStep ==
    ASSUME TypeOK, HandshakeInv, Next
    PROVE  HandshakeInv'
<1>1. BusInv /\ BusInv' /\ WritesFollowWait /\ WritesFollowWait'
  BY BusStepInv, WaitStep DEF HandshakeInv
<1>2. /\ BusStep /\ acknowledge' = bus_enable
      /\ CommandWritten /\ BusyIdle
      /\ CurrentState = "Idle" =>
            CurrentState' = IF CommandWritten_H /\ ~bus_enable
                            THEN "ProcessCommand" ELSE "Idle"
      /\ CurrentState # "Idle" => CurrentState' # "ProcessCommand"
  BY ChipHandshake DEF Next
<1>3. todo \in Seq(AccessType) /\ CommandWritten_H \in BOOLEAN /\ Idle_H \in BOOLEAN
  BY DEF TypeOK, ChipTypeOK
\* A write of the Command register is on the bus only at the head of the list.
<1>4. Select("Command") => /\ chipselect /\ HeadWrites
                           /\ Head(todo).reg = "Command"
  BY <1>1 DEF Select, BusInv, HeadWrites
<1>5. /\ CommandWritten_H' => Idle_H' /\ CurrentState' \in {"Idle", "ProcessCommand"}
      /\ Idle_H' => CurrentState' \in {"Idle", "ProcessCommand"}
  BY <1>2, <1>4 DEF HandshakeInv, CommandWritten, BusyIdle, SetBusy_H, ClearBusy_H
<1>6. CurrentState' = "ProcessCommand" => ~bus_enable'
  BY <1>1, <1>2 DEF HandshakeInv, BusInv, BusStep, CallFunction, Compute,
                    StartAccess, DriveBus, EndAccess, busVars
<1>7. CommandWritten_H' /\ CurrentState' = "Idle" => HeadWrites' \/ ~chipselect'
  BY <1>1, <1>2, <1>4
     DEF HandshakeInv, BusInv, CommandWritten, BusStep, CallFunction, Compute,
         StartAccess, DriveBus, EndAccess, HeadWrites, busVars
\* The heart of it: NIOS turns to a register write only in a quiet chip.
<1>8. HeadWrites' => /\ CurrentState' = "Idle" /\ Idle_H'
                     /\ CommandWritten_H' => /\ chipselect' /\ acknowledge'
                                             /\ Head(todo').reg = "Command"
  <2> SUFFICES ASSUME HeadWrites'
               PROVE  /\ CurrentState' = "Idle" /\ Idle_H'
                      /\ CommandWritten_H' => /\ chipselect' /\ acknowledge'
                                              /\ Head(todo').reg = "Command"
    OBVIOUS
  <2>1. CASE CallFunction
    <3>1. WAIT_FOR_GRAPHICS.rw = "read"
      BY DEF WAIT_FOR_GRAPHICS, Read
    <3> QED
      BY <3>1, <2>1, AccessesFollowWait DEF HeadWrites
  <2>2. CASE ~chipselect /\ (Compute \/ StartAccess)
    <3>1. HeadWrites /\ ~bus_enable /\ ~CommandWritten_H
      BY <2>2, <1>1 DEF HandshakeInv, BusInv, Compute, StartAccess, HeadWrites
    <3> QED
      BY <3>1, <2>2, <1>2 DEF HandshakeInv, CommandWritten, BusyIdle, Select,
                              SetBusy_H, ClearBusy_H
  <2>3. CASE DriveBus
    <3>1. HeadWrites /\ ~CommandWritten_H
      BY <2>3, <1>1 DEF HandshakeInv, DriveBus, HeadWrites
    <3> QED
      BY <3>1, <2>3, <1>1, <1>2, <1>4
         DEF HandshakeInv, CommandWritten, BusyIdle, Select, SetBusy_H,
             ClearBusy_H, DriveBus, HeadWrites
  <2>4. CASE EndAccess
    <3>1. bus_enable /\ chipselect /\ todo # <<>> /\ rw = Head(todo).rw
          /\ address = Head(todo).reg
      BY <2>4, <1>1 DEF EndAccess, BusInv
    <3>2. CASE Busy(Head(todo))
      <4>1. WAIT_FOR_GRAPHICS.rw = "read"
        BY DEF WAIT_FOR_GRAPHICS, Read
      <4> QED
        BY <4>1, <3>2, <2>4 DEF EndAccess, Busy, HeadWrites
    <3>3. CASE ~Busy(Head(todo))
      <4>1. todo' = Tail(todo)
        BY <3>3, <2>4 DEF EndAccess
      <4>2. 1 \in 1 .. Len(todo) - 1 /\ todo[1 + 1].rw = "write"
            /\ todo[1] = Head(todo)
        BY <4>1, <1>3, <3>1 DEF HeadWrites
      <4>3. \/ Head(todo) = WAIT_FOR_GRAPHICS
            \/ Head(todo).rw = "write" /\ Head(todo).reg # "Command"
        BY <4>2, <1>1 DEF WritesFollowWait
      <4>4. CASE Head(todo) = WAIT_FOR_GRAPHICS
        <5>1. Idle_H /\ Head(todo).rw = "read"
          BY <4>4, <3>3 DEF Busy, WAIT_FOR_GRAPHICS, Read
        <5>2. CurrentState = "Idle" /\ ~CommandWritten_H
          BY <5>1, <3>1 DEF HandshakeInv, HeadWrites
        <5> QED
          BY <5>1, <5>2, <3>1, <1>2
             DEF CommandWritten, BusyIdle, Select, SetBusy_H, ClearBusy_H
      <4>5. CASE Head(todo).rw = "write" /\ Head(todo).reg # "Command"
        <5>1. CurrentState = "Idle" /\ Idle_H /\ ~CommandWritten_H
          BY <4>5, <3>1 DEF HandshakeInv, HeadWrites
        <5> QED
          BY <5>1, <4>5, <3>1, <1>2
             DEF CommandWritten, BusyIdle, Select, SetBusy_H, ClearBusy_H
      <4> QED
        BY <4>3, <4>4, <4>5
    <3> QED
      BY <3>2, <3>3
  <2> QED
    BY <1>2, <2>1, <2>2, <2>3, <2>4 DEF BusStep, StartAccess
<1> QED
  BY <1>1, <1>5, <1>6, <1>7, <1>8 DEF HandshakeInv
-------------------------------------------------------------------------------
(* The theorems.                                                            *)

\* Neither invariant mentions the history variables of the properties.
LEMMA InvStep == TypeOK /\ HandshakeInv /\ [Next]_vars => TypeOK' /\ HandshakeInv'
<1> SUFFICES ASSUME TypeOK, HandshakeInv, [Next]_vars
             PROVE  TypeOK' /\ HandshakeInv'
  OBVIOUS
<1>1. CASE Next
  <2>1. BusInv /\ ChipStep
    BY <1>1 DEF HandshakeInv, Next
  <2> QED
    BY <2>1, <1>1, ChipTypeStep, DriverTypeStep, HandshakeStep DEF TypeOK
<1>2. CASE UNCHANGED vars
  BY <1>2 DEF vars, busVars, displayVars, chipVars, lineRegs, driverVars,
              TypeOK, ChipTypeOK, DisplayTypeOK, HandshakeInv, BusInv,
              WritesFollowWait, HeadWrites
<1> QED
  BY <1>1, <1>2

\* Every register, address and pixel keeps its range: additions wrap, and no
\* address leaves the video memory.
THEOREM TypeCorrect == Spec => []TypeOK
<1>1. Init => TypeOK /\ HandshakeInv
  BY TypeInit, HandshakeInit
<1> QED
  BY <1>1, InvStep, PTL DEF Spec

\* The inductive invariant of the handshake.
THEOREM HandshakeCorrect == Spec => []HandshakeInv
<1>1. Init => TypeOK /\ HandshakeInv
  BY TypeInit, HandshakeInit
<1> QED
  BY <1>1, InvStep, PTL DEF Spec

\* The application never writes a register of a chip that still has a command
\* to take up or to complete: WAIT_FOR_GRAPHICS is enough, for every screen,
\* every set of calls and every schedule of NIOS and of the display.
THEOREM NoWriteToBusyChip == Spec => []RegistersWrittenWhenIdle
<1>1. HandshakeInv => RegistersWrittenWhenIdle
  BY DEF HandshakeInv, BusInv, HeadWrites, RegistersWrittenWhenIdle
<1> QED
  BY <1>1, HandshakeCorrect, PTL
===============================================================================

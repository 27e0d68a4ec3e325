-------------------------- MODULE GraphicsController --------------------------
(***************************************************************************)
(* The drawing chip of GraphicsController.vhd, one step per rising edge of *)
(* its 50 MHz clock.  Every state of the VHDL machine is an action; the    *)
(* processes that load the registers, and the SRAM behind VideoRamMux,     *)
(* are conjuncts of every action (Clocked).                                *)
(*                                                                         *)
(* Registers are 16-bit two's complement words; here they have Word values *)
(* and every addition wraps.  A pixel address is the low bits of a row and *)
(* of a column.                                                            *)
(***************************************************************************)
EXTENDS Integers, Sequences

CONSTANTS
    Word,        \* number of values of a register (2^16)
    Columns,     \* columns one row of the video memory holds (2^10)
    Rows,        \* rows of the video memory (2^9)
    Colours,     \* palette numbers
    ResetColour, \* the palette number a reset puts in the Colour register
    PowerUpMemory, \* what the video memory may hold at power-up
    BlankTicks   \* the fewest clocks a blanking period of the display lasts

ASSUME ChipAssumption ==
    /\ Word \in Nat /\ Word > 36 /\ Word % 2 = 0
    /\ Columns \in Nat \ {0} /\ Columns % 2 = 0
    /\ Rows \in Nat \ {0}
    /\ Colours \subseteq 0 .. (Word \div 2) - 1
    /\ ResetColour \in Colours
    /\ PowerUpMemory \subseteq
          [(0 .. Columns - 1) \X (0 .. Rows - 1) -> Colours]
    /\ BlankTicks \in Nat \ {0}

VARIABLES
    bus_enable, rw, address, write_data,  \* the CPU bus, as the chip samples it
    blank,               \* clocks of blanking sure to come; 0: a line is shown
    VSync_L,             \* vertical sync of the display, active low
    CurrentState, CommandWritten_H, Idle_H, OKToDraw_L,
    Command, X1, Y1, X2, Y2, Colour,      \* registers the CPU writes
    x, y, dx, dy, s1, s2, interchange, error, i,  \* Bresenham registers
    Colour_Latch,        \* the pixel last read
    Sram_Out,            \* registered address, data, byte lanes and R/W
    GraphicsBusy_H,      \* the chip, not the display, drives the SRAM
    sram,                \* the video memory: colour of every pixel
    palette              \* what each palette number was last programmed to

busVars  == <<bus_enable, rw, address, write_data>>
lineRegs == <<x, y, dx, dy, s1, s2, interchange, error, i>>
chipVars == <<CurrentState, CommandWritten_H, Idle_H, OKToDraw_L, Command,
              X1, Y1, X2, Y2, Colour, lineRegs, Colour_Latch, Sram_Out,
              GraphicsBusy_H, sram, palette>>
displayVars == <<blank, VSync_L>>
-------------------------------------------------------------------------------
(* Words and pixels.                                                        *)

Half    == Word \div 2
Words   == -Half .. Half - 1
Wrap(n) == ((n + Half) % Word) - Half   \* the signed value of the low bits
Double(n) == Wrap(2 * n)                \* n(14 downto 0) & '0'
Abs(n)  == Wrap(IF n < 0 THEN -n ELSE n)
Sign(n) == IF n < 0 THEN -1 ELSE IF n = 0 THEN 0 ELSE 1

Pixels  == (0 .. Columns - 1) \X (0 .. Rows - 1)

\* The codes of the commands.
Hline == 1
Vline == 2
ALine == 3
PutPixel == 10
GetPixel == 11
ProgramPallette == 16
Rectangle == 17
Circle == 18

RegisterNames == {"Command", "X1", "Y1", "X2", "Y2", "Colour"}

Octants == <<"DrawCircle2", "DrawCircle3", "DrawCircle4", "DrawCircle5",
             "DrawCircle6", "DrawCircle7", "DrawCircle8", "DrawCircle9",
             "DrawCircle10">>
States == {"Idle", "ProcessCommand", "PalletteReProgram", "DrawPixel",
           "ReadPixel", "ReadPixel1", "ReadPixel2", "ReadPixel3",
           "DrawHline", "DrawVline", "DrawLine", "DrawLine1", "DrawLine2",
           "DrawLine3", "DrawLine4", "DrawRectangle", "DrawRectangle1",
           "DrawRectangle2", "DrawCircle", "DrawCircle1"}
          \cup {Octants[k] : k \in 1 .. 9}
-------------------------------------------------------------------------------
(* The clocked processes, the same in every state.                          *)

\* The register select decoder: the CPU is writing register r on this edge.
Select(r) == bus_enable /\ rw = "write" /\ address = r
Loaded(r, old) == IF Select(r) THEN write_data ELSE old

SetBusy_H   == CurrentState = "ProcessCommand"
ClearBusyEarly == CurrentState \in {"Idle", "PalletteReProgram"}
ClearBusyNever == FALSE
ClearBusy_H == CurrentState = "Idle"

CommandWritten ==
    CommandWritten_H' = \/ Select("Command")
                        \/ CommandWritten_H /\ CurrentState # "ProcessCommand"

BusyIdle == Idle_H' = ((ClearBusy_H \/ Idle_H) /\ ~SetBusy_H)

\* X1 and Y1 can be incremented by the machine; a CPU write has priority.
Registers(incX, incY) ==
    /\ X1' = Loaded("X1", Wrap(X1 + incX))
    /\ Y1' = Loaded("Y1", Wrap(Y1 + incY))
    /\ X2' = Loaded("X2", X2)
    /\ Y2' = Loaded("Y2", Y2)
    /\ Colour' = Loaded("Colour", Colour)
    /\ Command' = Loaded("Command", Command)

\* The SRAM takes a write while the mux gives it to the chip.
Hit(p) == /\ GraphicsBusy_H
          /\ Sram_Out.write
          /\ p[2] = Sram_Out.row
          /\ p[1] \div 2 = Sram_Out.pair
          /\ p[1] % 2 \in Sram_Out.lanes
SramWrite ==
    sram' = [p \in Pixels |-> IF Hit(p) THEN Sram_Out.data ELSE sram[p]]

Clocked(incX, incY) ==
    /\ CommandWritten
    /\ BusyIdle
    /\ Registers(incX, incY)
    /\ SramWrite
    /\ OKToDraw_L' = (blank = 0)
    /\ GraphicsBusy_H' = (CurrentState # "Idle" /\ ~OKToDraw_L)

\* What a state presents to the SRAM; a column holds two pixels per address,
\* the even one on the upper lane (0) and the odd one on the lower (1).
Access(write, col, row, lanes) ==
    Sram_Out' = [write |-> write, row |-> row % Rows,
                 pair |-> (col % Columns) \div 2, lanes |-> lanes,
                 data |-> Colour]
WritePixel(col, row) == Access(TRUE, col, row, {col % 2})
NoAccess == Access(FALSE, 0, 0, {})

Goto(s) == CurrentState' = s
Stay    == Goto(CurrentState) /\ NoAccess /\ UNCHANGED lineRegs
-------------------------------------------------------------------------------
(* Waiting for a command, and deciding which one it is.                     *)

NoLatch == UNCHANGED <<Colour_Latch, palette>>

\* AS_L is the inverse of bus_enable: a command is taken up only once the bus
\* cycle that wrote it has ended.
IdleState ==
    /\ CurrentState = "Idle"
    /\ Clocked(0, 0)
    /\ Goto(IF CommandWritten_H /\ ~bus_enable THEN "ProcessCommand" ELSE "Idle")
    /\ NoAccess /\ NoLatch /\ UNCHANGED lineRegs

FirstState(c) ==
    CASE c = PutPixel        -> "DrawPixel"
      [] c = GetPixel        -> "ReadPixel"
      [] c = ProgramPallette -> "PalletteReProgram"
      [] c = Hline           -> "DrawHline"
      [] c = Vline           -> "DrawVline"
      [] c = ALine           -> "DrawLine"
      [] c = Rectangle       -> "DrawRectangle"
      [] c = Circle          -> "DrawCircle"
      [] OTHER                 -> "Idle"

ProcessCommand ==
    /\ CurrentState = "ProcessCommand"
    /\ Clocked(0, 0)
    /\ Goto(FirstState(Command))
    /\ NoAccess /\ NoLatch /\ UNCHANGED lineRegs

\* The palette number is in Colour, its 00RRGGBB value in X1 and Y1.
PalletteReProgram ==
    /\ CurrentState = "PalletteReProgram"
    /\ Clocked(0, 0)
    /\ \/ /\ ~VSync_L
          /\ palette' = [palette EXCEPT ![Colour] = <<X1, Y1>>]
          /\ Goto("Idle") /\ NoAccess /\ UNCHANGED lineRegs
       \/ VSync_L /\ Stay /\ UNCHANGED palette
    /\ UNCHANGED Colour_Latch
-------------------------------------------------------------------------------
(* Pixels.                                                                  *)

DrawPixel ==
    /\ CurrentState = "DrawPixel"
    /\ Clocked(0, 0)
    /\ \/ /\ ~OKToDraw_L
          /\ WritePixel(X1, Y1)
          /\ Goto("Idle") /\ UNCHANGED lineRegs
       \/ OKToDraw_L /\ Stay
    /\ NoLatch

ReadPixel ==
    /\ CurrentState = "ReadPixel"
    /\ Clocked(0, 0)
    /\ Goto(IF OKToDraw_L THEN "ReadPixel" ELSE "ReadPixel1")
    /\ NoAccess /\ NoLatch /\ UNCHANGED lineRegs

\* The address reaches the SRAM one clock later.
ReadPixel1Unchecked ==
    /\ CurrentState = "ReadPixel1"
    /\ Clocked(0, 0)
    /\ Access(FALSE, X1, Y1, {0, 1})
    /\ Goto("ReadPixel2")
    /\ NoLatch /\ UNCHANGED lineRegs
ReadPixel1 ==
    /\ CurrentState = "ReadPixel1"
    /\ Clocked(0, 0)
    /\ Access(FALSE, X1, Y1, {0, 1})
    /\ Goto(IF OKToDraw_L THEN "ReadPixel" ELSE "ReadPixel2")
    /\ NoLatch /\ UNCHANGED lineRegs

\* What the SRAM shows of the addressed pair: the pixel the chip asked for,
\* or one at the display's own address while the display has the SRAM.
Sram_DataIn ==
    IF GraphicsBusy_H THEN {sram[<<2 * Sram_Out.pair + (X1 % 2), Sram_Out.row>>]}
                      ELSE {sram[p] : p \in Pixels}

ReadPixel2 ==
    /\ CurrentState = "ReadPixel2"
    /\ Clocked(0, 0)
    /\ Colour_Latch' \in Sram_DataIn
    /\ Goto(IF OKToDraw_L THEN "ReadPixel" ELSE "ReadPixel3")
    /\ NoAccess /\ UNCHANGED <<palette, lineRegs>>

ReadPixel3 ==
    /\ CurrentState = "ReadPixel3"
    /\ Clocked(0, 0)
    /\ Goto("Idle")
    /\ NoAccess /\ NoLatch /\ UNCHANGED lineRegs
-------------------------------------------------------------------------------
(* Horizontal runs, two pixels per clock from an even column, up to but not *)
(* including X2.                                                            *)

RunLanesBoth(col) == IF col % 2 = 1 THEN {1} ELSE {0, 1}
RunLanes(col) == IF col % 2 = 1 THEN {1}
                 ELSE IF Wrap(col + 1) # X2 THEN {0, 1} ELSE {0}
RunStep(col)  == IF col % 2 = 1 THEN 1 ELSE 2

DrawHline ==
    /\ CurrentState = "DrawHline"
    /\ \/ /\ ~OKToDraw_L
          /\ Clocked(RunStep(X1), 0)
          /\ Access(X1 < X2, X1, Y1, RunLanes(X1))
          /\ Goto(IF X1 < X2 THEN "DrawHline" ELSE "Idle")
          /\ UNCHANGED lineRegs
       \/ OKToDraw_L /\ Clocked(0, 0) /\ Stay
    /\ NoLatch

DrawVline ==
    /\ CurrentState = "DrawVline"
    /\ \/ /\ ~OKToDraw_L
          /\ Clocked(0, IF Y1 < Y2 THEN 1 ELSE 0)
          /\ Access(Y1 < Y2, X1, Y1, {X1 % 2})
          /\ Goto(IF Y1 < Y2 THEN "DrawVline" ELSE "Idle")
          /\ UNCHANGED lineRegs
       \/ OKToDraw_L /\ Clocked(0, 0) /\ Stay
    /\ NoLatch

DrawRectangle ==
    /\ CurrentState = "DrawRectangle"
    /\ Clocked(0, 0)
    /\ \/ X2 >= X1 /\ Y2 >= Y1 /\ x' = X1 /\ Goto("DrawRectangle1")
       \/ ~(X2 >= X1 /\ Y2 >= Y1) /\ x' = x /\ Goto("Idle")
    /\ NoAccess /\ NoLatch
    /\ UNCHANGED <<y, dx, dy, s1, s2, interchange, error, i>>

DrawRectangle1 ==
    /\ CurrentState = "DrawRectangle1"
    /\ Clocked(0, 0)
    /\ \/ /\ ~OKToDraw_L
          /\ Access(x < X2, x, Y1, RunLanes(x))
          /\ x' = Wrap(x + RunStep(x))
          /\ Goto(IF x < X2 THEN "DrawRectangle1" ELSE "DrawRectangle2")
          /\ UNCHANGED <<y, dx, dy, s1, s2, interchange, error, i>>
       \/ OKToDraw_L /\ Stay
    /\ NoLatch

DrawRectangle2SameRow ==
    /\ CurrentState = "DrawRectangle2"
    /\ Clocked(0, 0)
    /\ x' = X1
    /\ Goto(IF Y1 >= Y2 THEN "Idle" ELSE "DrawRectangle1")
    /\ NoAccess /\ NoLatch
    /\ UNCHANGED <<y, dx, dy, s1, s2, interchange, error, i>>
DrawRectangle2 ==
    /\ CurrentState = "DrawRectangle2"
    /\ Clocked(0, 1)
    /\ x' = X1
    /\ Goto(IF Y1 >= Y2 THEN "Idle" ELSE "DrawRectangle1")
    /\ NoAccess /\ NoLatch
    /\ UNCHANGED <<y, dx, dy, s1, s2, interchange, error, i>>
-------------------------------------------------------------------------------
(* Bresenham lines: the end point itself is not drawn.                      *)

DrawLine ==
    /\ CurrentState = "DrawLine"
    /\ Clocked(0, 0)
    /\ x' = X1 /\ y' = Y1
    /\ dx' = Abs(Wrap(X2 - X1)) /\ s1' = Sign(Wrap(X2 - X1))
    /\ dy' = Abs(Wrap(Y2 - Y1)) /\ s2' = Sign(Wrap(Y2 - Y1))
    /\ interchange' = FALSE
    /\ Goto(IF X1 = X2 /\ Y1 = Y2 THEN "Idle" ELSE "DrawLine1")
    /\ NoAccess /\ NoLatch /\ UNCHANGED <<error, i>>

DrawLine1 ==
    /\ CurrentState = "DrawLine1"
    /\ Clocked(0, 0)
    /\ \/ /\ dy > dx
          /\ dx' = dy /\ dy' = dx
          /\ interchange' = TRUE
          /\ error' = Wrap(Double(dx) - dy)
       \/ /\ dy <= dx
          /\ error' = Wrap(Double(dy) - dx)
          /\ UNCHANGED <<dx, dy, interchange>>
    /\ i' = 1
    /\ Goto("DrawLine2")
    /\ NoAccess /\ NoLatch /\ UNCHANGED <<x, y, s1, s2>>

DrawLine2 ==
    /\ CurrentState = "DrawLine2"
    /\ Clocked(0, 0)
    /\ \/ /\ i <= dx /\ ~OKToDraw_L
          /\ WritePixel(x, y) /\ Goto("DrawLine3") /\ UNCHANGED lineRegs
       \/ i <= dx /\ OKToDraw_L /\ Stay
       \/ i > dx /\ Goto("Idle") /\ NoAccess /\ UNCHANGED lineRegs
    /\ NoLatch

\* while (error >= 0): one turn per clock.
DrawLine3 ==
    /\ CurrentState = "DrawLine3"
    /\ Clocked(0, 0)
    /\ \/ /\ error >= 0
          /\ IF interchange THEN x' = Wrap(x + s1) /\ y' = y
                            ELSE y' = Wrap(y + s2) /\ x' = x
          /\ error' = Wrap(error - Double(dx))
          /\ Goto("DrawLine3")
       \/ error < 0 /\ Goto("DrawLine4") /\ UNCHANGED <<x, y, error>>
    /\ NoAccess /\ NoLatch /\ UNCHANGED <<dx, dy, s1, s2, interchange, i>>

DrawLine4 ==
    /\ CurrentState = "DrawLine4"
    /\ Clocked(0, 0)
    /\ IF interchange THEN y' = Wrap(y + s2) /\ x' = x
                      ELSE x' = Wrap(x + s1) /\ y' = y
    /\ error' = Wrap(error + Double(dy))
    /\ i' = Wrap(i + 1)
    /\ Goto("DrawLine2")
    /\ NoAccess /\ NoLatch /\ UNCHANGED <<dx, dy, s1, s2, interchange>>
-------------------------------------------------------------------------------
(* Circles: the radius is in X2, s2 holds half the decision criterion.      *)

DrawCircle ==
    /\ CurrentState = "DrawCircle"
    /\ Clocked(0, 0)
    /\ x' = X2 /\ y' = 0 /\ s2' = Wrap(1 - X2)
    /\ Goto("DrawCircle1")
    /\ NoAccess /\ NoLatch /\ UNCHANGED <<dx, dy, s1, interchange, error, i>>

DrawCircle1 ==
    /\ CurrentState = "DrawCircle1"
    /\ Clocked(0, 0)
    /\ Goto(IF y <= x THEN Octants[1] ELSE "Idle")
    /\ NoAccess /\ NoLatch /\ UNCHANGED lineRegs

\* The offsets from the centre of the pixels the eight octant states draw.
OctantOffset(k) == << <<x, y>>,   <<y, x>>,   <<-x, y>>,  <<-y, x>>,
                      <<-x, -y>>, <<-y, -x>>, <<x, -y>>,  <<y, -x>> >>[k]

DrawCircleOctant(k) ==
    /\ CurrentState = Octants[k]
    /\ Clocked(0, 0)
    /\ \/ /\ ~OKToDraw_L
          /\ WritePixel(Wrap(X1 + OctantOffset(k)[1]), Wrap(Y1 + OctantOffset(k)[2]))
          /\ Goto(Octants[k + 1]) /\ UNCHANGED lineRegs
       \/ OKToDraw_L /\ Stay
    /\ NoLatch

DrawCircle10 ==
    /\ CurrentState = Octants[9]
    /\ Clocked(0, 0)
    /\ y' = Wrap(y + 1)
    /\ \/ s2 <= 0 /\ x' = x           /\ s2' = Wrap(s2 + Double(y + 2))
       \/ s2 > 0  /\ x' = Wrap(x - 1) /\ s2' = Wrap(s2 + Double(y - x + 2) + 1)
    /\ Goto("DrawCircle1")
    /\ NoAccess /\ NoLatch /\ UNCHANGED <<dx, dy, s1, interchange, error, i>>
-------------------------------------------------------------------------------
(* One clock of the chip, and of the display it shares the SRAM with.      *)

ChipStep ==
    \/ IdleState \/ ProcessCommand \/ PalletteReProgram \/ DrawPixel
    \/ ReadPixel \/ ReadPixel1 \/ ReadPixel2 \/ ReadPixel3
    \/ DrawHline \/ DrawVline
    \/ DrawRectangle \/ DrawRectangle1 \/ DrawRectangle2
    \/ DrawLine \/ DrawLine1 \/ DrawLine2 \/ DrawLine3 \/ DrawLine4
    \/ DrawCircle \/ DrawCircle1 \/ DrawCircle10
    \/ \E k \in 1 .. 8 : DrawCircleOctant(k)

\* A blanking period lasts BlankTicks clocks or more; the vertical sync pulse
\* lies within one.
DisplayStep ==
    /\ blank' \in IF blank = 0 THEN {0, BlankTicks}
                 ELSE IF blank = 1 THEN {0, 1} ELSE {blank - 1}
    /\ VSync_L' \in IF blank' = 0 THEN {TRUE} ELSE BOOLEAN

\* Reset sets CommandWritten_H, so the chip first processes command 0.
ChipInit ==
    /\ CurrentState = "Idle" /\ CommandWritten_H = TRUE /\ Idle_H = TRUE
    /\ OKToDraw_L = TRUE
    /\ Command = 0 /\ X1 = 0 /\ Y1 = 0 /\ X2 = 0 /\ Y2 = 0
    /\ Colour = ResetColour
    /\ x = 0 /\ y = 0 /\ dx = 0 /\ dy = 0 /\ s1 = 0 /\ s2 = 0
    /\ interchange = FALSE /\ error = 0 /\ i = 0
    /\ Colour_Latch \in Colours
    /\ Sram_Out = [write |-> FALSE, row |-> 0, pair |-> 0, lanes |-> {},
                   data |-> ResetColour]
    /\ GraphicsBusy_H = FALSE
    /\ sram \in PowerUpMemory
    /\ palette = [c \in Colours |-> <<0, 0>>]

DisplayInit == blank = 0 /\ VSync_L = TRUE

SramAccesses == [write : BOOLEAN, row : 0 .. Rows - 1,
                 pair : 0 .. (Columns - 1) \div 2,
                 lanes : SUBSET {0, 1}, data : Colours]

ChipTypeOK ==
    /\ CurrentState \in States
    /\ CommandWritten_H \in BOOLEAN /\ Idle_H \in BOOLEAN
    /\ OKToDraw_L \in BOOLEAN /\ GraphicsBusy_H \in BOOLEAN
    /\ Command \in Words
    /\ X1 \in Words /\ Y1 \in Words /\ X2 \in Words /\ Y2 \in Words
    /\ Colour \in Colours /\ Colour_Latch \in Colours
    /\ x \in Words /\ y \in Words /\ dx \in Words /\ dy \in Words
    /\ s1 \in Words /\ s2 \in Words /\ error \in Words /\ i \in Words
    /\ interchange \in BOOLEAN
    /\ Sram_Out \in SramAccesses
    /\ sram \in [Pixels -> Colours]
    /\ palette \in [Colours -> Words \X Words]

DisplayTypeOK == blank \in 0 .. BlankTicks /\ VSync_L \in BOOLEAN
===============================================================================

-------------------------- MODULE GraphicsCallProofs --------------------------
(***************************************************************************)
(* Proofs about GraphicsDriver that follow one call from the function NIOS *)
(* runs, through the registers it writes, to what the chip has done when   *)
(* the command is complete: a palette entry programmed, a pixel read.      *)
(***************************************************************************)
EXTENDS GraphicsDriverProofs, SequenceTheorems

-------------------------------------------------------------------------------
(* The inductive invariant.                                                 *)

\* Accesses of the call NIOS has made.
Done == Len(Accesses(call)) - Len(todo)

\* What is left to do is the rest of the call's accesses.
RestOfCall ==
    /\ Len(todo) <= Len(Accesses(call))
    /\ \A k \in 1 .. Len(todo) : todo[k] = Accesses(call)[Done + k]

\* A register holds what an access wrote to it.
Holds(a) ==
    /\ a.reg = "X1" => X1 = a.val
    /\ a.reg = "Y1" => Y1 = a.val
    /\ a.reg = "X2" => X2 = a.val
    /\ a.reg = "Y2" => Y2 = a.val
    /\ a.reg = "Colour" => Colour = a.val
    /\ a.reg = "Command" => Command = a.val

\* The first n writes of a call are in the registers.
Written(c, n) ==
    \A k \in 1 .. n : Accesses(c)[k].rw = "write" => Holds(Accesses(c)[k])
AllWritten(c) == Accesses(c) # <<>> /\ Written(c, Len(Accesses(c)))

\* While NIOS writes registers, those it has written keep their values.
WritingInv == HeadWrites => Written(call, Done)

\* A command the chip is about to decode is the one in flight, and all its
\* parameters are in the registers; or it is the one that a reset leaves.
IssuedInv ==
    \/ CurrentState = "ProcessCommand"
    \/ CommandWritten_H /\ CurrentState = "Idle" /\ ~HeadWrites
    => \/ inFlight = {} /\ Command = 0
       \/ \E c \in Calls : inFlight = {c} /\ AllWritten(c)

ReadStates == {"ReadPixel", "ReadPixel1", "ReadPixel2", "ReadPixel3"}

\* The states of the machine belong to the call in flight.
RunInv ==
    CurrentState \notin {"Idle", "ProcessCommand"} =>
        \E c \in Calls :
            /\ inFlight = {c}
            /\ c.fn = "ProgramPalette" <=> CurrentState = "PalletteReProgram"
            /\ c.fn = "ReadAPixel" <=> CurrentState \in ReadStates
            /\ c.fn \in {"ProgramPalette", "ReadAPixel"} => AllWritten(c)

\* The pixel read is the one the call names.
Latched(c) == Colour_Latch = sram[<<c.x1, c.y1>>]

\* The chip has the SRAM and its pair is the one of the pixel, although the
\* display may take it back on the next clock.
ReadInv ==
    /\ CurrentState = "ReadPixel2" =>
          /\ GraphicsBusy_H
          /\ Sram_Out.row = Y1 % Rows /\ Sram_Out.pair = (X1 % Columns) \div 2
    /\ CurrentState = "ReadPixel3" => \A c \in inFlight : Latched(c)

\* No write to the SRAM is outstanding while the chip reads or rests.
QuietInv ==
    \/ Idle_H \/ CurrentState = "ProcessCommand" \/ CurrentState \in ReadStates
    \/ CurrentState = "Idle" /\ \E c \in inFlight : c.fn = "ReadAPixel"
    => ~Sram_Out.write

\* What a command has done when the chip is about to clear its busy flag.
DoneInv ==
    CommandDone => \A c \in inFlight :
        /\ c.fn = "ProgramPalette" => palette[c.colour] = Programmed(c)
        /\ c.fn = "ReadAPixel" => Latched(c)

\* A chip that says idle with a command in flight has not taken it up.
FlightInv == Idle_H /\ inFlight # {} => CommandWritten_H

\* After the second wait of ReadAPixel the chip rests on the pixel it read.
Answered ==
    /\ CurrentState = "Idle" /\ Idle_H /\ ~CommandWritten_H /\ inFlight = {}
    /\ Latched(call)
AnswerInv ==
    call.fn = "ReadAPixel" => /\ Len(todo) = 2 => inFlight = {call} \/ Answered
                              /\ Len(todo) = 1 => Answered

CallInv == /\ RestOfCall /\ WritingInv /\ IssuedInv /\ RunInv /\ ReadInv
           /\ QuietInv /\ DoneInv /\ FlightInv /\ AnswerInv
-------------------------------------------------------------------------------
(* What the functions are made of.                                          *)

\* A wait, writes of registers, of each at most once, the write of the
\* Command register at place m last, and nothing but reads after it.
WellFormed(s, m) ==
    /\ m \in 2 .. Len(s)
    /\ s[1] = WAIT_FOR_GRAPHICS
    /\ s[m].rw = "write" /\ s[m].reg = "Command"
    /\ \A k \in 2 .. m - 1 : s[k].rw = "write" /\ s[k].reg # "Command"
    /\ \A k \in m + 1 .. Len(s) : s[k].rw = "read"
    /\ \A j, k \in 2 .. m : s[j].reg = s[k].reg => j = k

\* Every function that passes its checks is of this form.
LEMMA CallsWellFormed ==
    \A c \in Calls : Accesses(c) # <<>> =>
        WellFormed(Accesses(c), IF c.fn = "ReadAPixel" THEN Len(Accesses(c)) - 2
                                ELSE Len(Accesses(c)))
<1> SUFFICES ASSUME NEW c \in Calls, Accesses(c) # <<>>
             PROVE  WellFormed(Accesses(c),
                               IF c.fn = "ReadAPixel" THEN Len(Accesses(c)) - 2
                               ELSE Len(Accesses(c)))
  OBVIOUS
<1>1. c.fn \in FunctionNames
  BY CallsAssumption
<1> DEFINE Wr(a, r) == a.rw = "write" /\ a.reg = r
<1>2. \A r, v : Wr(Write(r, v), r)
  BY DEF Write
<1>3. \A r : Read(r).rw = "read"
  BY DEF Read
<1> HIDE DEF Wr
<1>4. ASSUME NEW a1, NEW a2, NEW a3, NEW a4,
             \/ Wr(a1, "X1") /\ Wr(a2, "Y1") /\ Wr(a3, "Colour")
             \/ Wr(a1, "Colour") /\ Wr(a2, "X1") /\ Wr(a3, "Y1"),
             Wr(a4, "Command")
      PROVE  WellFormed(<<WAIT_FOR_GRAPHICS, a1, a2, a3, a4>>, 5)
  BY <1>4 DEF WellFormed, Wr
<1>5. ASSUME NEW a1, NEW a2, NEW a3, NEW a4, NEW a5,
             Wr(a1, "X1"), Wr(a2, "Y1"), Wr(a3, "X2") \/ Wr(a3, "Y2"),
             Wr(a4, "Colour"), Wr(a5, "Command")
      PROVE  WellFormed(<<WAIT_FOR_GRAPHICS, a1, a2, a3, a4, a5>>, 6)
  BY <1>5 DEF WellFormed, Wr
<1>6. ASSUME NEW a1, NEW a2, NEW a3, NEW a4, NEW a5, NEW a6,
             Wr(a1, "X1"), Wr(a2, "Y1"), Wr(a3, "X2"), Wr(a4, "Y2"),
             Wr(a5, "Colour"), Wr(a6, "Command")
      PROVE  WellFormed(<<WAIT_FOR_GRAPHICS, a1, a2, a3, a4, a5, a6>>, 7)
  BY <1>6 DEF WellFormed, Wr
<1>7. ASSUME NEW a1, NEW a2, NEW a3, NEW a4, NEW a5,
             Wr(a1, "X1"), Wr(a2, "Y1"), Wr(a3, "Command"),
             a4.rw = "read", a5.rw = "read"
      PROVE  WellFormed(<<WAIT_FOR_GRAPHICS, a1, a2, a3, a4, a5>>, 4)
  BY <1>7 DEF WellFormed, Wr
<1>8. CASE c.fn = "WriteAPixel"
  BY <1>8, <1>2, <1>4 DEF Accesses, Checked, WriteAPixel
<1>9. CASE c.fn = "ReadAPixel"
  BY <1>9, <1>2, <1>3, <1>7 DEF Accesses, Checked, ReadAPixel, WAIT_FOR_GRAPHICS
<1>10. CASE c.fn \in {"WriteHLine", "WriteVLine"}
  BY <1>10, <1>2, <1>5 DEF Accesses, Checked, WriteHLine, WriteVLine
<1>11. CASE c.fn \in {"WriteLine", "WriteFilledRectangle"}
  BY <1>11, <1>2, <1>6 DEF Accesses, Checked, WriteLine, WriteFilledRectangle
<1>12. CASE c.fn = "ProgramPalette"
  BY <1>12, <1>2, <1>4 DEF Accesses, ProgramPalette
<1>13. CASE c.fn = "WriteCircle"
  BY <1>13, <1>2, <1>5 DEF Accesses, WriteCircle
<1> QED
  BY <1>1, <1>8, <1>9, <1>10, <1>11, <1>12, <1>13 DEF FunctionNames

\* The chip decodes the command of the function, and the functions whose
\* result is not a picture have their parameters in the registers.
LEMMA RegistersOfCall ==
    ASSUME NEW c \in Calls, AllWritten(c)
    PROVE  /\ c.fn = "ProgramPalette" <=> Command = ProgramPallette
           /\ c.fn = "ReadAPixel" <=> Command = GetPixel
           /\ c.fn = "ProgramPalette" =>
                 Colour = c.colour /\ <<X1, Y1>> = Programmed(c)
           /\ c.fn = "ReadAPixel" =>
                 X1 = c.x1 /\ Y1 = c.y1 /\ OnScreen(c.x1, c.y1)
<1> DEFINE A == Accesses(c)
<1>1. c.fn \in FunctionNames /\ c.colour \in Colours
  BY CallsAssumption
<1>2. A # <<>> /\ \A k \in 1 .. Len(A) : A[k].rw = "write" => Holds(A[k])
  BY DEF AllWritten, Written
<1>3. \A r, v : /\ Write(r, v).rw = "write" /\ Write(r, v).reg = r
                /\ Write(r, v).val = Wrap(v)
  BY DEF Write
<1>4. ASSUME NEW k \in 1 .. Len(A), NEW v, A[k] = Write("Command", v)
      PROVE  Command = Wrap(v)
  BY <1>4, <1>2, <1>3 DEF Holds
<1>5. \A v \in {1, 2, 3, 10, 11, 16, 17, 18} : Wrap(v) = v
  BY ChipAssumption DEF Wrap, Half
<1>6. CASE c.fn \notin {"ProgramPalette", "ReadAPixel"}
  <2>1. \E k \in 1 .. Len(A) : \E v \in {1, 2, 3, 10, 17, 18} :
           A[k] = Write("Command", v)
    <3>1. CASE c.fn = "WriteAPixel"
      BY <3>1, <1>2 DEF Accesses, Checked, WriteAPixel, PutPixel
    <3>2. CASE c.fn = "WriteHLine"
      BY <3>2, <1>2 DEF Accesses, Checked, WriteHLine, Hline
    <3>3. CASE c.fn = "WriteVLine"
      BY <3>3, <1>2 DEF Accesses, Checked, WriteVLine, Vline
    <3>4. CASE c.fn = "WriteLine"
      BY <3>4, <1>2 DEF Accesses, Checked, WriteLine, ALine
    <3>5. CASE c.fn = "WriteFilledRectangle"
      BY <3>5, <1>2 DEF Accesses, Checked, WriteFilledRectangle, Rectangle
    <3>6. CASE c.fn = "WriteCircle"
      BY <3>6, <1>2 DEF Accesses, WriteCircle, Circle
    <3> QED
      BY <1>1, <1>6, <3>1, <3>2, <3>3, <3>4, <3>5, <3>6 DEF FunctionNames
  <2>2. Command \in {1, 2, 3, 10, 17, 18}
    BY <2>1, <1>4, <1>5
  <2> QED
    BY <2>2, <1>6 DEF ProgramPallette, GetPixel
<1>7. CASE c.fn = "ProgramPalette"
  <2>1. /\ A = << WAIT_FOR_GRAPHICS, Write("Colour", c.colour), Write("X1", c.x1),
                  Write("Y1", c.y1), Write("Command", ProgramPallette) >>
    BY <1>7 DEF Accesses, ProgramPalette
  <2>2. /\ Holds(Write("Colour", c.colour)) /\ Holds(Write("X1", c.x1))
        /\ Holds(Write("Y1", c.y1)) /\ Holds(Write("Command", ProgramPallette))
    <3>1. /\ Len(A) = 5 /\ A[2] = Write("Colour", c.colour) /\ A[3] = Write("X1", c.x1)
          /\ A[4] = Write("Y1", c.y1) /\ A[5] = Write("Command", ProgramPallette)
      BY <2>1
    <3>2. 2 \in 1 .. 5 /\ 3 \in 1 .. 5 /\ 4 \in 1 .. 5 /\ 5 \in 1 .. 5
      OBVIOUS
    <3> HIDE DEF A
    <3> QED
      BY <3>1, <3>2, <1>2, <1>3
  <2>3. Wrap(c.colour) = c.colour
    <3>1. \A v \in Colours : v \in Int /\ Wrap(v) = v
      BY WordType, ChipAssumption DEF Wrap, Half
    <3> QED
      BY <3>1, <1>1
  <2> QED
    BY <2>2, <2>3, <1>3, <1>5, <1>7
       DEF Holds, Programmed, ProgramPallette, GetPixel
<1>8. CASE c.fn = "ReadAPixel"
  <2>1. /\ A = << WAIT_FOR_GRAPHICS, Write("X1", c.x1), Write("Y1", c.y1),
                  Write("Command", GetPixel), WAIT_FOR_GRAPHICS, Read("Colour") >>
        /\ OnScreen(c.x1, c.y1)
    BY <1>2, <1>8 DEF Accesses, Checked, ReadAPixel
  <2>2. /\ Holds(Write("X1", c.x1)) /\ Holds(Write("Y1", c.y1))
        /\ Holds(Write("Command", GetPixel))
    <3>1. /\ Len(A) = 6 /\ A[2] = Write("X1", c.x1) /\ A[3] = Write("Y1", c.y1)
          /\ A[4] = Write("Command", GetPixel)
      BY <2>1
    <3>2. 2 \in 1 .. 6 /\ 3 \in 1 .. 6 /\ 4 \in 1 .. 6
      OBVIOUS
    <3> HIDE DEF A
    <3> QED
      BY <3>1, <3>2, <1>2, <1>3
  <2>3. Wrap(c.x1) = c.x1 /\ Wrap(c.y1) = c.y1
    BY <2>1, ChipAssumption, ScreenAssumption, MemoryAssumption
       DEF OnScreen, check_if_point_is_on_screen, Wrap, Half
  <2> QED
    BY <2>1, <2>2, <2>3, <1>3, <1>5, <1>8 DEF Holds, ProgramPallette, GetPixel
<1> QED
  BY <1>6, <1>7, <1>8
-------------------------------------------------------------------------------
(* What a clock of the chip does, as far as calls can tell.                 *)

\* The states in which the chip leaves its registers to NIOS.
RestStates == {"Idle", "ProcessCommand", "PalletteReProgram"} \cup ReadStates

LEMMA WordKept == \A n \in Words : Wrap(n + 0) = n
  BY ChipAssumption DEF Words, Wrap, Half

\* In those states a register changes only by the write on the bus.
LEMMA RegistersRest ==
    ASSUME TypeOK, ChipStep, CurrentState \in RestStates
    PROVE  /\ X1' = Loaded("X1", X1) /\ Y1' = Loaded("Y1", Y1)
           /\ X2' = Loaded("X2", X2) /\ Y2' = Loaded("Y2", Y2)
           /\ Colour' = Loaded("Colour", Colour)
           /\ Command' = Loaded("Command", Command)
<1>1. Clocked(0, 0)
  <2>1. ~\E k \in 1 .. 8 : DrawCircleOctant(k)
    BY DEF DrawCircleOctant, Octants, RestStates, ReadStates
  <2> QED
    BY <2>1 DEF ChipStep, IdleState, ProcessCommand, PalletteReProgram, DrawPixel,
           ReadPixel, ReadPixel1, ReadPixel2, ReadPixel3, DrawHline, DrawVline,
           DrawRectangle, DrawRectangle1, DrawRectangle2, DrawLine, DrawLine1,
           DrawLine2, DrawLine3, DrawLine4, DrawCircle, DrawCircle1,
           DrawCircle10, RestStates, ReadStates
<1>2. Wrap(X1 + 0) = X1 /\ Wrap(Y1 + 0) = Y1
  BY WordKept DEF TypeOK, ChipTypeOK
<1> QED
  BY <1>1, <1>2 DEF Clocked, Registers

\* The processes every state shares.
LEMMA SharedStep ==
    ASSUME ChipStep
    PROVE  SramWrite /\ GraphicsBusy_H' = (CurrentState # "Idle" /\ ~OKToDraw_L)
<1>1. \A a, b : Clocked(a, b) =>
         SramWrite /\ GraphicsBusy_H' = (CurrentState # "Idle" /\ ~OKToDraw_L)
  BY Zenon DEF Clocked
<1> HIDE DEF SramWrite
<1>2. CASE \E k \in 1 .. 8 : DrawCircleOctant(k)
  BY <1>1, <1>2, Zenon DEF DrawCircleOctant
<1>3. CASE ~\E k \in 1 .. 8 : DrawCircleOctant(k)
  BY <1>1, <1>3, Zenon
     DEF ChipStep, IdleState, ProcessCommand, PalletteReProgram, DrawPixel,
         ReadPixel, ReadPixel1, ReadPixel2, ReadPixel3, DrawHline, DrawVline,
         DrawRectangle, DrawRectangle1, DrawRectangle2, DrawLine, DrawLine1,
         DrawLine2, DrawLine3, DrawLine4, DrawCircle, DrawCircle1, DrawCircle10
<1> QED
  BY <1>2, <1>3

\* With no write outstanding the video memory keeps its pixels.
LEMMA SramKept ==
    ASSUME TypeOK, ChipStep, ~Sram_Out.write
    PROVE  sram' = sram
  BY SharedStep DEF SramWrite, Hit, TypeOK, ChipTypeOK

\* Nothing is accessed for the drawing of pixels outside the drawing states.
LEMMA AccessRest ==
    ASSUME ChipStep, CurrentState \in RestStates
    PROVE  ~Sram_Out'.write
<1>1. ~\E k \in 1 .. 8 : DrawCircleOctant(k)
  BY DEF DrawCircleOctant, Octants, RestStates, ReadStates
<1> QED
  BY <1>1 DEF ChipStep, IdleState, ProcessCommand, PalletteReProgram, DrawPixel,
         ReadPixel, ReadPixel1, ReadPixel2, ReadPixel3, DrawHline, DrawVline,
         DrawRectangle, DrawRectangle1, DrawRectangle2, DrawLine, DrawLine1,
         DrawLine2, DrawLine3, DrawLine4, DrawCircle, DrawCircle1,
         DrawCircle10, Stay, NoAccess, Access, RestStates, ReadStates

\* The turns of the machine.
LEMMA StateStep ==
    ASSUME ChipStep
    PROVE  /\ CurrentState = "ProcessCommand" => CurrentState' = FirstState(Command)
           /\ CurrentState = "PalletteReProgram" =>
                 CurrentState' \in {"Idle", "PalletteReProgram"}
           /\ CurrentState \in ReadStates => CurrentState' \in ReadStates \cup {"Idle"}
           /\ CurrentState \notin RestStates =>
                 CurrentState' = "Idle" \/ CurrentState' \notin RestStates
<1> USE DEF ReadStates, RestStates
<1>1. CASE \E k \in 1 .. 8 : DrawCircleOctant(k)
  BY <1>1 DEF DrawCircleOctant, Octants, Stay, Goto
<1>2. CASE IdleState \/ ProcessCommand
  BY <1>2 DEF IdleState, ProcessCommand, Goto
<1>3. CASE PalletteReProgram \/ DrawPixel \/ ReadPixel \/ ReadPixel1
           \/ ReadPixel2 \/ ReadPixel3 \/ DrawHline \/ DrawVline
  BY <1>3 DEF PalletteReProgram, DrawPixel, ReadPixel, ReadPixel1,
              ReadPixel2, ReadPixel3, DrawHline, DrawVline, Stay, Goto
<1>4. CASE DrawRectangle \/ DrawRectangle1 \/ DrawRectangle2
           \/ DrawLine \/ DrawLine1 \/ DrawLine2 \/ DrawLine3 \/ DrawLine4
  BY <1>4 DEF DrawRectangle, DrawRectangle1, DrawRectangle2, DrawLine,
              DrawLine1, DrawLine2, DrawLine3, DrawLine4, Stay, Goto
<1>5. CASE DrawCircle \/ DrawCircle1 \/ DrawCircle10
  BY <1>5 DEF DrawCircle, DrawCircle1, DrawCircle10, Octants, Goto
<1> QED
  BY <1>1, <1>2, <1>3, <1>4, <1>5 DEF ChipStep

\* The palette and the latch of the pixel read change in one state each.
LEMMA ResultStep ==
    ASSUME ChipStep
    PROVE  /\ palette' # palette => CurrentState = "PalletteReProgram"
           /\ CurrentState = "PalletteReProgram" =>
                 \/ palette' = [palette EXCEPT ![Colour] = <<X1, Y1>>]
                 \/ palette' = palette /\ CurrentState' = "PalletteReProgram"
           /\ Colour_Latch' # Colour_Latch => CurrentState = "ReadPixel2"
           /\ CurrentState = "ReadPixel2" => Colour_Latch' \in Sram_DataIn
<1>1. CASE PalletteReProgram
  BY <1>1 DEF PalletteReProgram, Stay, Goto
<1>2. CASE ReadPixel2
  BY <1>2 DEF ReadPixel2
<1>3. CASE \E k \in 1 .. 8 : DrawCircleOctant(k)
  BY <1>3 DEF DrawCircleOctant, NoLatch, Octants
<1>4. CASE IdleState \/ ProcessCommand \/ DrawPixel \/ ReadPixel \/ ReadPixel1
           \/ ReadPixel3 \/ DrawHline \/ DrawVline
  BY <1>4 DEF IdleState, ProcessCommand, DrawPixel, ReadPixel, ReadPixel1,
              ReadPixel3, DrawHline, DrawVline, NoLatch
<1>5. ASSUME \/ DrawRectangle \/ DrawRectangle1 \/ DrawRectangle2
             \/ DrawLine \/ DrawLine1 \/ DrawLine2 \/ DrawLine3 \/ DrawLine4
             \/ DrawCircle \/ DrawCircle1 \/ DrawCircle10
      PROVE  NoLatch /\ CurrentState \notin {"PalletteReProgram", "ReadPixel2"}
  <2> HIDE DEF NoLatch
  <2> QED
    BY <1>5 DEF DrawRectangle, DrawRectangle1, DrawRectangle2, DrawLine,
                DrawLine1, DrawLine2, DrawLine3, DrawLine4, DrawCircle,
                DrawCircle1, DrawCircle10, Octants
<1> QED
  BY <1>1, <1>2, <1>3, <1>4, <1>5 DEF ChipStep, NoLatch

\* The chip reaches ReadPixel2 only when it asked for its pixel on a clock on
\* which the display did not want the SRAM, and ReadPixel3 only from there.
LEMMA ReadStep ==
    ASSUME ChipStep
    PROVE  /\ CurrentState \in ReadStates /\ CurrentState' = "ReadPixel2" =>
                 /\ CurrentState = "ReadPixel1" /\ ~OKToDraw_L
                 /\ Sram_Out'.row = Y1 % Rows
                 /\ Sram_Out'.pair = (X1 % Columns) \div 2
           /\ CurrentState \in ReadStates /\ CurrentState' = "ReadPixel3" =>
                 CurrentState = "ReadPixel2"
           /\ CurrentState \in ReadStates /\ CurrentState' = "Idle" =>
                 CurrentState = "ReadPixel3"
<1>1. ~\E k \in 1 .. 8 : DrawCircleOctant(k) /\ CurrentState \in ReadStates
  BY DEF DrawCircleOctant, Octants, ReadStates
<1> QED
  BY <1>1 DEF ChipStep, IdleState, ProcessCommand, PalletteReProgram, DrawPixel,
         ReadPixel, ReadPixel1, ReadPixel2, ReadPixel3, DrawHline, DrawVline,
         DrawRectangle, DrawRectangle1, DrawRectangle2, DrawLine, DrawLine1,
         DrawLine2, DrawLine3, DrawLine4, DrawCircle, DrawCircle1,
         DrawCircle10, Access, Goto, ReadStates
-------------------------------------------------------------------------------
(* Where NIOS stands in its call.                                           *)

LEMMA Position ==
    ASSUME TypeOK, RestOfCall
    PROVE  /\ call \in Calls /\ Len(todo) \in Nat
           /\ Len(Accesses(call)) \in Nat /\ Done \in Nat
           /\ Len(Accesses(call)) = Done + Len(todo)
           /\ todo # <<>> =>
                 /\ Accesses(call) # <<>> /\ Len(todo) >= 1
                 /\ Head(todo) = Accesses(call)[Done + 1]
                 /\ Tail(todo) # <<>> => /\ Len(todo) >= 2
                                         /\ Head(Tail(todo)) = Accesses(call)[Done + 2]
<1>1. call \in Calls /\ todo \in Seq(AccessType)
  BY DEF TypeOK
<1>2. Accesses(call) \in Seq(AccessType)
  BY <1>1, AccessesTyped
<1>3. /\ Len(todo) \in Nat /\ Len(Accesses(call)) \in Nat
      /\ Done \in Nat /\ Len(Accesses(call)) = Done + Len(todo)
  BY <1>1, <1>2, LenProperties DEF RestOfCall, Done
<1>4. ASSUME todo # <<>>
      PROVE  /\ Accesses(call) # <<>> /\ Len(todo) >= 1
             /\ Head(todo) = Accesses(call)[Done + 1]
             /\ Tail(todo) # <<>> => /\ Len(todo) >= 2
                                     /\ Head(Tail(todo)) = Accesses(call)[Done + 2]
  <2>1. Len(todo) >= 1 /\ Head(todo) = todo[1]
    BY <1>1, <1>4
  <2>2. Tail(todo) # <<>> => Len(todo) >= 2 /\ Head(Tail(todo)) = todo[2]
    BY <1>1, <1>4
  <2>3. Accesses(call) # <<>>
    BY <2>1, <1>3
  <2> QED
    BY <1>3, <2>1, <2>2, <2>3 DEF RestOfCall
<1> QED
  BY <1>1, <1>3, <1>4

\* The place of the command's write in the accesses of a call.
Last(c) == IF c.fn = "ReadAPixel" THEN Len(Accesses(c)) - 2 ELSE Len(Accesses(c))

\* The access at the head writes a register once everything before it, but
\* for the wait, has; it writes the Command register last.
LEMMA HeadPosition ==
    ASSUME TypeOK, RestOfCall, HeadWrites
    PROVE  /\ Done + 1 \in 2 .. Last(call) /\ Last(call) <= Len(Accesses(call))
           /\ Head(todo).reg = "Command" <=> Done + 1 = Last(call)
           /\ \A k \in 1 .. Done : Accesses(call)[k].rw = "write" =>
                 Accesses(call)[k].reg # Head(todo).reg
           /\ \A k \in Last(call) + 1 .. Len(Accesses(call)) :
                 Accesses(call)[k].rw = "read"
           /\ Accesses(call)[1].rw = "read"
<1> DEFINE A == Accesses(call)
           m == Last(call)
           d == Done
<1>1. /\ Len(A) \in Nat /\ d \in Nat /\ d + 1 \in 1 .. Len(A)
      /\ Head(todo) = A[d + 1] /\ A # <<>> /\ call \in Calls
  BY Position DEF HeadWrites
<1>2. WellFormed(A, m)
  BY <1>1, CallsWellFormed DEF Last
<1>3. A[1].rw = "read" /\ A[d + 1].rw = "write" /\ m \in 2 .. Len(A)
  BY <1>1, <1>2 DEF WellFormed, WAIT_FOR_GRAPHICS, Read, HeadWrites
<1> HIDE DEF A, m, d
<1>4. d + 1 \in 2 .. m
  BY <1>1, <1>2, <1>3 DEF WellFormed
<1>5. A[d + 1].reg = "Command" <=> d + 1 = m
  BY <1>1, <1>2, <1>3, <1>4 DEF WellFormed
<1>6. ASSUME NEW k \in 1 .. d, A[k].rw = "write" PROVE A[k].reg # A[d + 1].reg
  <2>1. k # 1
    BY <1>3, <1>6
  <2>2. k \in 2 .. m /\ k # d + 1
    BY <2>1, <1>1, <1>3, <1>4
  <2> QED
    BY <2>2, <1>2, <1>4 DEF WellFormed
<1>7. \A k \in m + 1 .. Len(A) : A[k].rw = "read"
  BY <1>2 DEF WellFormed
<1> QED
  BY <1>1, <1>3, <1>4, <1>5, <1>6, <1>7 DEF A, m, d

\* What is left stays the rest of the call.
LEMMA RestStep ==
    ASSUME TypeOK, BusInv, RestOfCall, Next
    PROVE  RestOfCall'
<1>1. BusStep
  BY DEF Next
<1>2. CASE CallFunction
  <2>1. todo' = Accesses(call') /\ Accesses(call') \in Seq(AccessType)
    BY <1>2, AccessesTyped DEF CallFunction
  <2>2. Len(todo') \in Nat
    BY <2>1, LenProperties
  <2> QED
    BY <2>1, <2>2 DEF RestOfCall, Done
<1>3. ASSUME todo' = todo, call' = call PROVE RestOfCall'
  BY <1>3 DEF RestOfCall, Done
<1>4. ASSUME todo # <<>>, todo' = Tail(todo), call' = call PROVE RestOfCall'
  <2>1. todo \in Seq(AccessType)
    BY DEF TypeOK
  <2>2. /\ Len(todo') = Len(todo) - 1
        /\ \A k \in 1 .. Len(todo') : todo'[k] = todo[k + 1]
    BY <2>1, <1>4
  <2>3. /\ Len(todo) \in Nat /\ Len(Accesses(call)) \in Nat
        /\ Len(Accesses(call)) = Done + Len(todo) /\ Done \in Nat
    BY Position
  <2>4. Done' = Done + 1
    BY <1>4, <2>2, <2>3 DEF Done
  <2>5. ASSUME NEW k \in 1 .. Len(todo') PROVE todo'[k] = Accesses(call')[Done' + k]
    <3>1. k + 1 \in 1 .. Len(todo) /\ Done' + k = Done + (k + 1)
      BY <2>2, <2>3, <2>4
    <3> QED
      BY <3>1, <1>4, <2>2 DEF RestOfCall
  <2> QED
    BY <1>4, <2>2, <2>3, <2>5 DEF RestOfCall
<1> QED
  BY <1>1, <1>2, <1>3, <1>4
     DEF BusStep, Compute, StartAccess, DriveBus, EndAccess, BusInv

\* A register written is one the access at the head names, of a chip at rest.
LEMMA OnBus ==
    ASSUME HandshakeInv, NEW r, Select(r)
    PROVE  /\ chipselect /\ HeadWrites /\ CurrentState = "Idle" /\ Idle_H
           /\ Head(todo).reg = r /\ write_data = Head(todo).val
  BY DEF Select, HandshakeInv, BusInv, HeadWrites

\* With no write at the head, or none on the bus, a chip at rest keeps them.
LEMMA RegistersKept ==
    ASSUME TypeOK, HandshakeInv, Next, CurrentState \in RestStates,
           CurrentState # "Idle" \/ ~HeadWrites \/ ~bus_enable
    PROVE  UNCHANGED <<X1, Y1, X2, Y2, Colour, Command>>
<1>1. \A r : ~Select(r)
  BY OnBus DEF Select
<1> QED
  BY <1>1, RegistersRest DEF Loaded, Next

LEMMA WrittenKept ==
    ASSUME UNCHANGED <<X1, Y1, X2, Y2, Colour, Command>>,
           NEW CONSTANT c, AllWritten(c)
    PROVE  AllWritten(c)'
  BY DEF AllWritten, Written, Holds

\* A register write leaves those before it in their registers, and puts its
\* own value in its register.
LEMMA WritesLand ==
    ASSUME TypeOK, HandshakeInv, RestOfCall, WritingInv, Next, HeadWrites,
           NEW CONSTANT c \in Calls, c = call, NEW CONSTANT d, d = Done
    PROVE  /\ \A k \in 1 .. d : Accesses(c)[k].rw = "write" => Holds(Accesses(c)[k])'
           /\ bus_enable => Holds(Accesses(c)[d + 1])'
<1> DEFINE A == Accesses(c)
           a == Accesses(c)[d + 1]
<1>1. /\ X1' = Loaded("X1", X1) /\ Y1' = Loaded("Y1", Y1)
      /\ X2' = Loaded("X2", X2) /\ Y2' = Loaded("Y2", Y2)
      /\ Colour' = Loaded("Colour", Colour)
      /\ Command' = Loaded("Command", Command)
  BY RegistersRest DEF HandshakeInv, RestStates, Next
<1>5. ASSUME NEW CONSTANT b, Holds(b), ~Select(b.reg) PROVE Holds(b)'
  BY <1>1, <1>5 DEF Holds, Loaded
<1>6. ASSUME NEW CONSTANT b, Select(b.reg), write_data = b.val PROVE Holds(b)'
  BY <1>1, <1>6 DEF Holds, Loaded
<1>2. \A r : Select(r) => r = a.reg /\ write_data = a.val
  BY OnBus, Position DEF HeadWrites
<1>3. ASSUME NEW k \in 1 .. d, A[k].rw = "write" PROVE Holds(A[k])'
  <2>1. Holds(A[k])
    BY <1>3 DEF WritingInv, Written
  <2>2. A[k].reg # a.reg
    BY <1>3, HeadPosition, Position DEF HeadWrites
  <2>3. ~Select(A[k].reg)
    BY <1>2, <2>2
  <2> QED
    BY <2>1, <2>3, <1>5
<1>4. ASSUME bus_enable PROVE Holds(a)'
  <2>1. Select(a.reg) /\ write_data = a.val
    BY <1>4, Position DEF HandshakeInv, BusInv, HeadWrites, Select
  <2> QED
    BY <2>1, <1>6
<1> QED
  BY <1>3, <1>4
-------------------------------------------------------------------------------
(* Every clock keeps the invariant, one part at a time.                     *)

\* A clock begins a call, makes an access of it or leaves it where it was.
LEMMA CallStep ==
    ASSUME TypeOK, HandshakeInv, Next
    PROVE  \/ CallFunction /\ ~chipselect
           \/ todo' = todo /\ call' = call /\ ~CommandIssued
           \/ /\ EndAccess /\ chipselect /\ bus_enable /\ todo # <<>>
              /\ todo' = Tail(todo) /\ call' = call
              /\ ~Busy(Head(todo))
<1>1. BusStep /\ BusInv
  BY DEF Next, HandshakeInv
<1>2. CASE CallFunction
  BY <1>1, <1>2 DEF CallFunction, BusInv
<1>3. CASE (~chipselect /\ Compute) \/ StartAccess \/ DriveBus
  BY <1>3 DEF Compute, StartAccess, DriveBus, CommandIssued
<1>4. CASE EndAccess
  <2>1. CASE Busy(Head(todo))
    <3>1. WAIT_FOR_GRAPHICS.rw # "write"
      BY DEF WAIT_FOR_GRAPHICS, Read
    <3> QED
      BY <1>4, <2>1, <3>1 DEF EndAccess, CommandIssued, Busy
  <2>2. CASE ~Busy(Head(todo))
    BY <1>1, <1>4, <2>2 DEF EndAccess, BusInv
  <2> QED
    BY <2>1, <2>2
<1> QED
  BY <1>1, <1>2, <1>3, <1>4 DEF BusStep

\* A command is issued to a chip at rest, by the write the bus carries.
LEMMA IssueStep ==
    ASSUME HandshakeInv, CommandIssued
    PROVE  /\ HeadWrites /\ bus_enable /\ Head(todo).reg = "Command"
           /\ CurrentState = "Idle" /\ Idle_H /\ Select("Command")
  BY DEF CommandIssued, HandshakeInv, BusInv, HeadWrites, Select

\* A chip at work keeps its command in flight.
LEMMA InFlightKept ==
    ASSUME HandshakeInv, Next, CurrentState # "Idle"
    PROVE  inFlight' = inFlight
  BY IssueStep DEF Next, Track, CommandDone

LEMMA WritingStep ==
    ASSUME TypeOK, HandshakeInv, RestOfCall, WritingInv, Next
    PROVE  WritingInv'
<1> SUFFICES ASSUME HeadWrites' PROVE Written(call, Done)'
  BY DEF WritingInv
<1>0. call \in Calls /\ Done \in Nat /\ Len(todo) \in Nat
  BY Position
<1> PICK c \in Calls : c = call
  BY <1>0
<1> PICK d \in Nat : d = Done
  BY <1>0
<1>1. CASE CallFunction
  <2>1. WAIT_FOR_GRAPHICS.rw = "read"
    BY DEF WAIT_FOR_GRAPHICS, Read
  <2> QED
    BY <1>1, <2>1, AccessesFollowWait DEF HeadWrites
<1>2. CASE todo' = todo /\ call' = call
  <2>1. HeadWrites
    BY <1>2 DEF HeadWrites
  <2>2. \A k \in 1 .. d : Accesses(c)[k].rw = "write" => Holds(Accesses(c)[k])'
    BY <2>1, WritesLand
  <2>3. Done' = d /\ call' = c
    BY <1>2 DEF Done
  <2> QED
    BY <2>2, <2>3 DEF Written
<1>3. CASE EndAccess /\ bus_enable /\ todo # <<>> /\ todo' = Tail(todo) /\ call' = call
  <2>1. Tail(todo) # <<>> /\ Head(Tail(todo)).rw = "write"
    BY <1>3 DEF HeadWrites
  <2>2. /\ Len(todo') = Len(todo) - 1
    BY <1>3 DEF TypeOK
  <2>3. Done' = d + 1 /\ call' = c
    <3>1. Len(Accesses(call)) \in Nat
      BY Position
    <3> QED
      BY <3>1, <1>0, <1>3, <2>2 DEF Done
  <2>4. Accesses(c) # <<>> /\ d + 2 \in 1 .. Len(Accesses(c))
        /\ Accesses(c)[d + 2].rw = "write" /\ Head(todo) = Accesses(c)[d + 1]
    BY <1>0, <1>3, <2>1, Position
  <2>5. WellFormed(Accesses(c), Last(c))
    BY <2>4, CallsWellFormed DEF Last
  <2>6. d + 2 \in 2 .. Last(c) /\ Last(c) \in 2 .. Len(Accesses(c))
    BY <2>4, <2>5 DEF WellFormed
  <2>7. CASE d = 0
    <3>1. Accesses(c)[1].rw = "read"
      BY <2>5 DEF WellFormed, WAIT_FOR_GRAPHICS, Read
    <3> QED
      BY <2>3, <2>7, <3>1 DEF Written
  <2>8. CASE d # 0
    <3>1. d + 1 \in 2 .. Last(c) - 1
      BY <2>6, <2>8
    <3>2. HeadWrites
      BY <1>3, <2>4, <2>5, <3>1 DEF WellFormed, HeadWrites
    <3>3. /\ \A k \in 1 .. d : Accesses(c)[k].rw = "write" => Holds(Accesses(c)[k])'
          /\ Holds(Accesses(c)[d + 1])'
      BY <1>3, <3>2, WritesLand
    <3>4. \A k \in 1 .. d + 1 : k \in 1 .. d \/ k = d + 1
      OBVIOUS
    <3> QED
      BY <2>3, <3>3, <3>4 DEF Written
  <2> QED
    BY <2>7, <2>8
<1> QED
  BY <1>1, <1>2, <1>3, CallStep

\* The chip decodes the command NIOS issued, with all of its parameters.
LEMMA IssuedStep ==
    ASSUME TypeOK, HandshakeInv, RestOfCall, WritingInv, IssuedInv, Next
    PROVE  IssuedInv'
<1>1. /\ ChipStep /\ CommandWritten /\ Track
      /\ CurrentState = "Idle" =>
            CurrentState' = IF CommandWritten_H /\ ~bus_enable
                            THEN "ProcessCommand" ELSE "Idle"
      /\ CurrentState # "Idle" => CurrentState' # "ProcessCommand"
  BY ChipHandshake DEF Next
<1>2. CASE CurrentState' = "ProcessCommand"
  <2>1. CurrentState = "Idle" /\ CommandWritten_H /\ ~bus_enable
    BY <1>1, <1>2
  <2>2. ~HeadWrites /\ Idle_H
    BY <2>1 DEF HandshakeInv, BusInv
  <2>3. inFlight' = inFlight
    BY <1>1, <2>1, <2>2, IssueStep DEF Track, CommandDone
  <2>4. UNCHANGED <<X1, Y1, X2, Y2, Colour, Command>>
    BY <2>1, RegistersKept DEF RestStates
  <2>5. CASE inFlight = {} /\ Command = 0
    BY <2>3, <2>4, <2>5 DEF IssuedInv
  <2>6. CASE \E c \in Calls : inFlight = {c} /\ AllWritten(c)
    <3> PICK c \in Calls : inFlight = {c} /\ AllWritten(c)
      BY <2>6
    <3>1. AllWritten(c)'
      BY <2>4, WrittenKept
    <3> QED
      BY <2>3, <3>1 DEF IssuedInv
  <2> QED
    BY <2>1, <2>2, <2>5, <2>6 DEF IssuedInv
<1>3. CASE CommandWritten_H' /\ CurrentState' = "Idle" /\ ~HeadWrites'
  <2>1. Select("Command") \/ (CommandWritten_H /\ CurrentState # "ProcessCommand")
    BY <1>1, <1>3 DEF CommandWritten, Select
  <2>2. CurrentState = "Idle" /\ bus_enable /\ HeadWrites
        /\ Head(todo).reg = "Command" /\ chipselect
    <3>1. CASE Select("Command")
      BY <3>1, OnBus DEF Select
    <3>2. CASE CommandWritten_H /\ CurrentState # "ProcessCommand"
      BY <1>1, <1>3, <3>2 DEF HandshakeInv, BusInv
    <3> QED
      BY <2>1, <3>1, <3>2
  <2>3. EndAccess /\ call' = call
    BY <1>3, <2>2, CallStep DEF HeadWrites, CallFunction
  <2>4. inFlight' = {call}
    BY <1>1, <2>2, <2>3 DEF Track, CommandIssued, EndAccess, HeadWrites
  <2>5. call \in Calls /\ Done \in Nat /\ Accesses(call) # <<>>
    BY <2>2, Position DEF HeadWrites
  <2> PICK c \in Calls : c = call
    BY <2>5
  <2> PICK d \in Nat : d = Done
    BY <2>5
  <2>6. /\ d + 1 = Last(c)
        /\ \A k \in Last(c) + 1 .. Len(Accesses(c)) : Accesses(c)[k].rw = "read"
    BY <2>2, HeadPosition
  <2>7. /\ \A k \in 1 .. d : Accesses(c)[k].rw = "write" => Holds(Accesses(c)[k])'
        /\ Holds(Accesses(c)[d + 1])'
    BY <2>2, WritesLand
  <2>8. Len(Accesses(c)) \in Nat
    BY Position
  <2>9. \A k \in 1 .. Len(Accesses(c)) :
          k \in 1 .. d \/ k = d + 1 \/ k \in Last(c) + 1 .. Len(Accesses(c))
    BY <2>6, <2>8
  <2>10. AllWritten(c)'
    BY <2>5, <2>6, <2>7, <2>9 DEF AllWritten, Written
  <2> QED
    BY <2>4, <2>10 DEF IssuedInv
<1>4. CASE /\ CurrentState' # "ProcessCommand"
           /\ ~(CommandWritten_H' /\ CurrentState' = "Idle" /\ ~HeadWrites')
  BY <1>4 DEF IssuedInv
<1> QED
  BY <1>2, <1>3, <1>4

\* The state a command leads to tells the palette and the read calls apart.
LEMMA FirstStates ==
    ASSUME NEW n
    PROVE  /\ FirstState(n) = "PalletteReProgram" <=> n = ProgramPallette
           /\ FirstState(n) \in ReadStates <=> n = GetPixel
           /\ FirstState(n) \notin {"ReadPixel2", "ReadPixel3"}
  BY DEF FirstState, ReadStates, ProgramPallette, GetPixel, PutPixel, Hline,
         Vline, ALine, Rectangle, Circle

\* A chip that has just left ProcessCommand runs the command in flight.
LEMMA Decoded ==
    ASSUME TypeOK, HandshakeInv, IssuedInv, Next, CurrentState = "ProcessCommand"
    PROVE  /\ inFlight' = inFlight
           /\ CurrentState' # "Idle" => inFlight # {}
           /\ \A c \in inFlight : AllWritten(c) /\ AllWritten(c)' /\ c \in Calls
           /\ \A c, e \in inFlight : c = e
           /\ \A c \in inFlight :
                 /\ c.fn = "ProgramPalette" <=> CurrentState' = "PalletteReProgram"
                 /\ c.fn = "ReadAPixel" <=> CurrentState' \in ReadStates
           /\ CurrentState' \notin {"ReadPixel2", "ReadPixel3"}
<1>1. inFlight' = inFlight
  BY InFlightKept
<1>2. CurrentState' = FirstState(Command)
  BY StateStep DEF Next
<1>3. UNCHANGED <<X1, Y1, X2, Y2, Colour, Command>>
  BY RegistersKept DEF RestStates
<1>4. CASE inFlight = {} /\ Command = 0
  <2>1. FirstState(0) = "Idle"
    BY DEF FirstState, ProgramPallette, GetPixel, PutPixel, Hline, Vline, ALine,
           Rectangle, Circle
  <2> QED
    BY <1>1, <1>2, <1>4, <2>1
<1>5. CASE \E c \in Calls : inFlight = {c} /\ AllWritten(c)
  <2> PICK c \in Calls : inFlight = {c} /\ AllWritten(c)
    BY <1>5
  <2>1. AllWritten(c)'
    BY <1>3, WrittenKept
  <2>2. /\ c.fn = "ProgramPalette" <=> Command = ProgramPallette
        /\ c.fn = "ReadAPixel" <=> Command = GetPixel
    BY RegistersOfCall
  <2>3. /\ c.fn = "ProgramPalette" <=> CurrentState' = "PalletteReProgram"
        /\ c.fn = "ReadAPixel" <=> CurrentState' \in ReadStates
        /\ CurrentState' \notin {"ReadPixel2", "ReadPixel3"}
    <3>1. /\ FirstState(Command) = "PalletteReProgram" <=> Command = ProgramPallette
          /\ FirstState(Command) \in ReadStates <=> Command = GetPixel
          /\ FirstState(Command) \notin {"ReadPixel2", "ReadPixel3"}
      BY FirstStates
    <3> HIDE DEF FirstState, ReadStates, ProgramPallette, GetPixel
    <3> QED
      BY <1>2, <2>2, <3>1
  <2> QED
    BY <1>1, <1>2, <1>5, <2>1, <2>3
<1> QED
  BY <1>4, <1>5 DEF IssuedInv

LEMMA RunInvStep ==
    ASSUME TypeOK, HandshakeInv, IssuedInv, RunInv, Next
    PROVE  RunInv'
<1> SUFFICES ASSUME CurrentState' \notin {"Idle", "ProcessCommand"}
             PROVE  \E c \in Calls :
                       /\ inFlight' = {c}
                       /\ c.fn = "ProgramPalette" <=> CurrentState' = "PalletteReProgram"
                       /\ c.fn = "ReadAPixel" <=> CurrentState' \in ReadStates
                       /\ c.fn \in {"ProgramPalette", "ReadAPixel"} => AllWritten(c)'
  BY DEF RunInv
<1>1. CurrentState # "Idle"
  BY ChipHandshake DEF Next
<1>2. CASE CurrentState = "ProcessCommand"
  <2>1. PICK c \in inFlight : TRUE
    BY <1>2, Decoded
  <2>2. inFlight' = {c} /\ c \in Calls
    BY <1>2, <2>1, Decoded
  <2> QED
    BY <1>2, <2>1, <2>2, Decoded
<1>3. CASE CurrentState # "ProcessCommand"
  <2> PICK c \in Calls :
         /\ inFlight = {c}
         /\ c.fn = "ProgramPalette" <=> CurrentState = "PalletteReProgram"
         /\ c.fn = "ReadAPixel" <=> CurrentState \in ReadStates
         /\ c.fn \in {"ProgramPalette", "ReadAPixel"} => AllWritten(c)
    BY <1>1, <1>3 DEF RunInv
  <2>1. inFlight' = {c}
    BY <1>1, InFlightKept
  <2>2. /\ CurrentState = "PalletteReProgram" <=> CurrentState' = "PalletteReProgram"
        /\ CurrentState \in ReadStates <=> CurrentState' \in ReadStates
    BY <1>1, <1>3, StateStep DEF Next, RestStates, ReadStates
  <2>3. ASSUME c.fn \in {"ProgramPalette", "ReadAPixel"} PROVE AllWritten(c)'
    BY <1>1, <2>3, RegistersKept, WrittenKept DEF RestStates
  <2> QED
    BY <2>1, <2>2, <2>3
<1> QED
  BY <1>2, <1>3

\* The pixel the chip is reading, as the call in flight names it.
LEMMA ReadCall ==
    ASSUME TypeOK, RunInv, CurrentState \in ReadStates
    PROVE  \E c \in Calls : /\ inFlight = {c} /\ c.fn = "ReadAPixel"
                            /\ X1 = c.x1 /\ Y1 = c.y1 /\ OnScreen(c.x1, c.y1)
<1>1. PICK c \in Calls :
         /\ inFlight = {c}
         /\ c.fn = "ReadAPixel" <=> CurrentState \in ReadStates
         /\ c.fn \in {"ProgramPalette", "ReadAPixel"} => AllWritten(c)
  BY DEF RunInv, ReadStates
<1> QED
  BY <1>1, RegistersOfCall

LEMMA ReadInvStep ==
    ASSUME TypeOK, HandshakeInv, IssuedInv, RunInv, ReadInv, QuietInv, Next
    PROVE  ReadInv'
<1>1. ASSUME CurrentState' \in {"ReadPixel2", "ReadPixel3"}
      PROVE  CurrentState \in ReadStates
  <2>1. CurrentState \notin {"Idle", "ProcessCommand"}
    BY <1>1, ChipHandshake, Decoded DEF Next
  <2> QED
    BY <1>1, <2>1, StateStep DEF Next, RestStates, ReadStates
<1>2. CASE CurrentState' = "ReadPixel2"
  <2>1. CurrentState = "ReadPixel1" /\ ~OKToDraw_L
        /\ Sram_Out'.row = Y1 % Rows /\ Sram_Out'.pair = (X1 % Columns) \div 2
    BY <1>1, <1>2, ReadStep DEF Next
  <2>2. X1' = X1 /\ Y1' = Y1
    BY <2>1, RegistersKept DEF RestStates, ReadStates
  <2>3. GraphicsBusy_H' = TRUE
    BY <2>1, SharedStep DEF Next
  <2> QED
    BY <1>2, <2>1, <2>2, <2>3 DEF ReadInv
<1>3. CASE CurrentState' = "ReadPixel3"
  <2>1. CurrentState = "ReadPixel2"
    BY <1>1, <1>3, ReadStep DEF Next
  <2>2. PICK c \in Calls : /\ inFlight = {c} /\ c.fn = "ReadAPixel"
                           /\ X1 = c.x1 /\ Y1 = c.y1 /\ OnScreen(c.x1, c.y1)
    BY <2>1, ReadCall DEF ReadStates
  <2>3. inFlight' = {c}
    BY <2>1, <2>2, InFlightKept
  <2>4. sram' = sram
    BY <2>1, SramKept DEF QuietInv, ReadStates, Next
  <2>5. 2 * Sram_Out.pair + (X1 % 2) = c.x1 /\ Sram_Out.row = c.y1
    <3>1. /\ X1 \in 0 .. Columns - 1 /\ Y1 \in 0 .. Rows - 1
          /\ Columns \in Nat \ {0} /\ Rows \in Nat \ {0}
      BY <2>2, ScreenAssumption, ChipAssumption, MemoryAssumption
         DEF OnScreen, check_if_point_is_on_screen
    <3>2. Sram_Out.pair = (X1 % Columns) \div 2 /\ Sram_Out.row = Y1 % Rows
      BY <2>1 DEF ReadInv
    <3>3. X1 % Columns = X1 /\ Y1 % Rows = Y1
      BY <3>1
    <3>4. 2 * (X1 \div 2) + (X1 % 2) = X1
      BY <3>1
    <3> QED
      BY <2>2, <3>2, <3>3, <3>4
  <2>6. Colour_Latch' = sram[<<c.x1, c.y1>>]
    BY <2>1, <2>5, ResultStep DEF Sram_DataIn, ReadInv, Next
  <2> QED
    BY <1>3, <2>3, <2>4, <2>6 DEF ReadInv, Latched
<1>4. CASE CurrentState' \notin {"ReadPixel2", "ReadPixel3"}
  BY <1>4 DEF ReadInv
<1> QED
  BY <1>2, <1>3, <1>4

\* The status bit says idle again one clock after the chip is.
LEMMA IdleStep ==
    ASSUME HandshakeInv, Next
    PROVE  /\ Idle_H' => CurrentState = "Idle"
           /\ CurrentState = "Idle" => Idle_H'
  BY ChipHandshake
     DEF Next, HandshakeInv, BusyIdle, SetBusy_H, ClearBusy_H

LEMMA QuietStep ==
    ASSUME TypeOK, HandshakeInv, IssuedInv, RunInv, QuietInv, Next
    PROVE  QuietInv'
<1>1. ASSUME CurrentState \in RestStates PROVE ~Sram_Out'.write
  BY <1>1, AccessRest DEF Next
<1>2. Idle_H' => CurrentState \in RestStates
  BY IdleStep DEF RestStates
<1>3. CurrentState' = "ProcessCommand" => CurrentState \in RestStates
  BY ChipHandshake DEF Next, RestStates
<1>4. CurrentState' \in ReadStates => CurrentState \in RestStates
  BY StateStep DEF Next, RestStates, ReadStates
<1>5. ASSUME CurrentState' = "Idle", NEW c \in inFlight', c.fn = "ReadAPixel",
             CurrentState \notin RestStates
      PROVE  FALSE
  <2>1. inFlight' = inFlight
    BY <1>5, InFlightKept DEF RestStates
  <2> QED
    BY <1>5, <2>1 DEF RunInv, RestStates
<1> QED
  BY <1>1, <1>2, <1>3, <1>4, <1>5 DEF QuietInv

LEMMA DoneStep ==
    ASSUME TypeOK, HandshakeInv, IssuedInv, RunInv, ReadInv, QuietInv, Next
    PROVE  DoneInv'
<1> SUFFICES ASSUME CurrentState' = "Idle", ~Idle_H', NEW c \in inFlight'
             PROVE  /\ c.fn = "ProgramPalette" => palette'[c.colour] = Programmed(c)
                    /\ c.fn = "ReadAPixel" => Latched(c)'
  BY DEF DoneInv, CommandDone
<1>1. CurrentState # "Idle" /\ inFlight' = inFlight
  BY IdleStep, InFlightKept
<1>2. CASE CurrentState = "ProcessCommand"
  BY <1>1, <1>2, Decoded DEF ReadStates
<1>3. CASE CurrentState # "ProcessCommand"
  <2>1. /\ c \in Calls /\ inFlight = {c}
        /\ c.fn = "ProgramPalette" <=> CurrentState = "PalletteReProgram"
        /\ c.fn = "ReadAPixel" <=> CurrentState \in ReadStates
        /\ c.fn \in {"ProgramPalette", "ReadAPixel"} => AllWritten(c)
    BY <1>1, <1>3 DEF RunInv
  <2>2. ASSUME c.fn = "ProgramPalette" PROVE palette'[c.colour] = Programmed(c)
    <3>1. Colour = c.colour /\ <<X1, Y1>> = Programmed(c)
      BY <2>1, <2>2, RegistersOfCall
    <3>2. palette' = [palette EXCEPT ![Colour] = <<X1, Y1>>]
      BY <2>1, <2>2, ResultStep DEF Next
    <3>3. Colour \in Colours /\ palette \in [Colours -> Words \X Words]
      BY DEF TypeOK, ChipTypeOK
    <3> QED
      BY <3>1, <3>2, <3>3
  <2>3. ASSUME c.fn = "ReadAPixel" PROVE Latched(c)'
    <3>1. CurrentState = "ReadPixel3"
      BY <2>1, <2>3, ReadStep DEF Next
    <3>2. Latched(c)
      BY <2>1, <3>1 DEF ReadInv
    <3>3. sram' = sram /\ Colour_Latch' = Colour_Latch
      BY <3>1, SramKept, ResultStep DEF QuietInv, ReadStates, Next
    <3> QED
      BY <3>2, <3>3 DEF Latched
  <2> QED
    BY <2>2, <2>3
<1> QED
  BY <1>2, <1>3

LEMMA FlightStep ==
    ASSUME TypeOK, HandshakeInv, FlightInv, Next
    PROVE  FlightInv'
<1> SUFFICES ASSUME Idle_H', inFlight' # {} PROVE CommandWritten_H'
  BY DEF FlightInv
<1>1. CurrentState = "Idle"
  BY IdleStep
<1>2. CASE CommandIssued
  BY <1>2, IssueStep, ChipHandshake DEF CommandWritten, Select, Next
<1>3. CASE ~CommandIssued
  <2>1. Idle_H /\ inFlight # {}
    BY <1>1, <1>3 DEF Next, Track, CommandDone
  <2> QED
    BY <1>1, <2>1, ChipHandshake DEF FlightInv, CommandWritten, Select, Next
<1> QED
  BY <1>2, <1>3

\* The chip rests on the pixel it read until NIOS has taken it.
LEMMA AnswerKept ==
    ASSUME TypeOK, HandshakeInv, QuietInv, DoneInv, FlightInv, Next, ~HeadWrites,
           call' = call, call.fn = "ReadAPixel", inFlight = {call} \/ Answered
    PROVE  inFlight' = {call} \/ Answered'
<1>1. ~CommandIssued /\ ~Select("Command")
  BY IssueStep, OnBus
<1>2. inFlight' = IF CommandDone THEN {} ELSE inFlight
  BY <1>1 DEF Next, Track
<1>3. CASE inFlight = {call} /\ ~CommandDone
  BY <1>2, <1>3
<1>4. CASE Answered \/ (inFlight = {call} /\ CommandDone)
  <2>1. CurrentState = "Idle" /\ Latched(call) /\ ~CommandWritten_H /\ inFlight' = {}
    BY <1>2, <1>4 DEF Answered, CommandDone, DoneInv, HandshakeInv
  <2>2. ~Sram_Out.write
    BY <1>4 DEF Answered, CommandDone, QuietInv
  <2>3. sram' = sram /\ Colour_Latch' = Colour_Latch
    BY <2>1, <2>2, SramKept, ResultStep DEF Next
  <2>4. Latched(call)'
    BY <2>1, <2>3 DEF Latched
  <2>5. CurrentState' = "Idle" /\ Idle_H' /\ ~CommandWritten_H'
    BY <1>1, <2>1, ChipHandshake, IdleStep DEF CommandWritten, Next
  <2> QED
    BY <2>1, <2>4, <2>5 DEF Answered
<1> QED
  BY <1>3, <1>4

\* The accesses of a read that passes its checks.
LEMMA ReadAccesses ==
    \A c \in Calls : c.fn = "ReadAPixel" /\ Accesses(c) # <<>> =>
        /\ Len(Accesses(c)) = 6
        /\ Accesses(c)[4] = Write("Command", GetPixel)
        /\ Accesses(c)[5] = WAIT_FOR_GRAPHICS /\ Accesses(c)[6] = Read("Colour")
<1> SUFFICES ASSUME NEW c \in Calls, c.fn = "ReadAPixel", Accesses(c) # <<>>
             PROVE  /\ Len(Accesses(c)) = 6
                    /\ Accesses(c)[4] = Write("Command", GetPixel)
                    /\ Accesses(c)[5] = WAIT_FOR_GRAPHICS
                    /\ Accesses(c)[6] = Read("Colour")
  OBVIOUS
<1>1. Accesses(c) = << WAIT_FOR_GRAPHICS, Write("X1", c.x1), Write("Y1", c.y1),
                       Write("Command", GetPixel), WAIT_FOR_GRAPHICS, Read("Colour") >>
  BY DEF Accesses, Checked, ReadAPixel
<1> QED
  BY <1>1

LEMMA AnswerStep ==
    ASSUME TypeOK, HandshakeInv, RestOfCall, QuietInv, DoneInv, FlightInv,
           AnswerInv, Next
    PROVE  AnswerInv'
<1> SUFFICES ASSUME call'.fn = "ReadAPixel", Len(todo') \in {1, 2}
             PROVE  /\ Len(todo') = 2 => inFlight' = {call'} \/ Answered'
                    /\ Len(todo') = 1 => Answered'
  BY DEF AnswerInv
<1>1. /\ Write("Command", GetPixel).rw = "write" /\ Write("Command", GetPixel).reg = "Command"
      /\ WAIT_FOR_GRAPHICS.rw = "read" /\ Read("Colour").rw = "read"
  BY DEF Write, WAIT_FOR_GRAPHICS, Read
<1>2. CASE CallFunction
  <2>1. call' \in Calls /\ todo' = Accesses(call')
    BY <1>2 DEF CallFunction
  <2>2. Accesses(call') # <<>>
    BY <2>1
  <2> QED
    BY <2>1, <2>2, ReadAccesses
<1>3. ASSUME call' = call, todo # <<>>
      PROVE  /\ Len(todo) \in Nat /\ Len(Tail(todo)) = Len(todo) - 1
             /\ Len(todo) = 3 => Head(todo) = Write("Command", GetPixel)
             /\ Len(todo) = 2 => Head(todo) = WAIT_FOR_GRAPHICS
             /\ Len(todo) = 1 => Head(todo) = Read("Colour")
  <2>1. /\ Len(Accesses(call)) = 6 /\ Accesses(call)[4] = Write("Command", GetPixel)
        /\ Accesses(call)[5] = WAIT_FOR_GRAPHICS /\ Accesses(call)[6] = Read("Colour")
    BY <1>3, Position, ReadAccesses
  <2>2. /\ Len(todo) \in Nat /\ Done \in Nat /\ 6 = Done + Len(todo)
        /\ Head(todo) = Accesses(call)[Done + 1]
    BY <1>3, <2>1, Position
  <2>3. Len(Tail(todo)) = Len(todo) - 1
    BY <1>3 DEF TypeOK
  <2>4. /\ Len(todo) = 3 => Done + 1 = 4
        /\ Len(todo) = 2 => Done + 1 = 5
        /\ Len(todo) = 1 => Done + 1 = 6
    <3>1. \A n, d \in Nat : 6 = d + n =>
             (n = 3 => d + 1 = 4) /\ (n = 2 => d + 1 = 5) /\ (n = 1 => d + 1 = 6)
      OBVIOUS
    <3> QED
      BY <2>2, <3>1, Zenon
  <2> QED
    BY <2>1, <2>2, <2>3, <2>4, Zenon
<1>4. CASE todo' = todo /\ call' = call
  <2>1. todo # <<>> /\ ~HeadWrites
    <3>1. todo # <<>> /\ Len(todo) \in {1, 2}
      BY <1>4
    <3>2. Head(todo) \in {WAIT_FOR_GRAPHICS, Read("Colour")}
      BY <1>3, <1>4, <3>1
    <3> QED
      BY <1>1, <3>1, <3>2 DEF HeadWrites
  <2>2. Answered => Answered'
    <3>1. ASSUME Answered PROVE Answered'
      <4>1. inFlight' = {}
        BY <2>1, <3>1, IssueStep DEF Answered, Next, Track
      <4> QED
        BY <1>4, <2>1, <3>1, <4>1, AnswerKept
    <3> QED
      BY <3>1
  <2>3. inFlight = {call} => inFlight' = {call'} \/ Answered'
    BY <1>4, <2>1, AnswerKept
  <2> QED
    BY <1>4, <2>2, <2>3 DEF AnswerInv
<1>5. CASE /\ EndAccess /\ chipselect /\ bus_enable /\ todo # <<>>
           /\ todo' = Tail(todo) /\ call' = call /\ ~Busy(Head(todo))
  <2>1. CASE Len(todo') = 2
    <3>1. Head(todo) = Write("Command", GetPixel)
      BY <1>3, <1>5, <2>1
    <3> QED
      <4>1. CommandIssued
        BY <1>1, <1>5, <3>1 DEF CommandIssued, EndAccess
      <4>2. inFlight' = {call}
        BY <4>1 DEF Next, Track
      <4> QED
        BY <1>5, <2>1, <4>2
  <2>2. CASE Len(todo') = 1
    <3>1. Head(todo) = WAIT_FOR_GRAPHICS /\ Len(todo) = 2
      BY <1>3, <1>5, <2>2
    <3>2. Idle_H /\ ~HeadWrites
      BY <1>1, <1>5, <3>1 DEF Busy, HeadWrites
    <3>3. ~CommandWritten_H
      BY <1>5, <3>2 DEF HandshakeInv
    <3>4. Answered
      BY <1>5, <3>1, <3>2, <3>3 DEF AnswerInv, FlightInv
    <3>5. inFlight' = {}
      BY <3>2, <3>4, IssueStep DEF Answered, Next, Track
    <3> QED
      BY <1>5, <2>2, <3>2, <3>4, <3>5, AnswerKept
  <2> QED
    BY <2>1, <2>2
<1> QED
  BY <1>2, <1>4, <1>5, CallStep
-------------------------------------------------------------------------------
(* The theorems.                                                            *)

\* At reset no call is under way.
LEMMA CallInit == Init => CallInv
<1> SUFFICES ASSUME Init PROVE CallInv
  OBVIOUS
<1>1. todo = <<>> /\ call \in Calls
  BY DEF Init
<1>2. Len(Accesses(call)) \in Nat
  BY <1>1, AccessesTyped, LenProperties
<1>3. RestOfCall
  BY <1>1, <1>2 DEF RestOfCall
<1> QED
  BY <1>1, <1>3 DEF Init, ChipInit, CallInv, WritingInv, HeadWrites, IssuedInv,
     RunInv, ReadInv, QuietInv, DoneInv, CommandDone, FlightInv, AnswerInv

LEMMA CallInvStep ==
    TypeOK /\ HandshakeInv /\ CallInv /\ [Next]_vars => CallInv'
<1> SUFFICES ASSUME TypeOK, HandshakeInv, CallInv, [Next]_vars PROVE CallInv'
  OBVIOUS
<1>1. CASE Next
  <2>1. RestOfCall'
    BY <1>1, RestStep DEF CallInv, HandshakeInv
  <2>2. WritingInv'
    BY <1>1, WritingStep DEF CallInv
  <2>3. IssuedInv' /\ RunInv'
    BY <1>1, IssuedStep, RunInvStep DEF CallInv
  <2>4. ReadInv' /\ QuietInv' /\ DoneInv'
    BY <1>1, ReadInvStep, QuietStep, DoneStep DEF CallInv
  <2>5. FlightInv' /\ AnswerInv'
    BY <1>1, FlightStep, AnswerStep DEF CallInv
  <2> QED
    BY <2>1, <2>2, <2>3, <2>4, <2>5 DEF CallInv
<1>2. CASE UNCHANGED vars
  BY <1>2 DEF vars, busVars, displayVars, chipVars, lineRegs, driverVars, CallInv,
     RestOfCall, Done, WritingInv, HeadWrites, IssuedInv, RunInv, ReadInv, QuietInv,
     DoneInv, CommandDone, FlightInv, AnswerInv, Answered, Latched, AllWritten,
     Written, Holds
<1> QED
  BY <1>1, <1>2

\* From the function NIOS runs to the registers, the state of the chip and the
\* result: the invariant that follows a call, for every schedule of NIOS and of
\* the display.
THEOREM CallInvariant == Spec => []CallInv
<1>1. Init => TypeOK /\ HandshakeInv /\ CallInv
  BY TypeInit, HandshakeInit, CallInit
<1>2. TypeOK /\ HandshakeInv /\ CallInv /\ [Next]_vars
        => TypeOK' /\ HandshakeInv' /\ CallInv'
  BY InvStep, CallInvStep
<1> QED
  BY <1>1, <1>2, PTL DEF Spec

\* What one step shows of the two properties of a call's result.
LEMMA ReadAnswer ==
    TypeOK /\ HandshakeInv /\ CallInv =>
        (EndAccess /\ Head(todo) = Read("Colour")
            => returned' = {sram[<<call.x1, call.y1>>]})
<1> SUFFICES ASSUME TypeOK, HandshakeInv, CallInv, EndAccess,
                    Head(todo) = Read("Colour")
             PROVE  returned' = {sram[<<call.x1, call.y1>>]}
  OBVIOUS
<1>1. todo # <<>>
  BY DEF EndAccess, HandshakeInv, BusInv
<1>2. /\ call \in Calls /\ Accesses(call) # <<>> /\ Len(todo) \in Nat
      /\ Done \in Nat /\ Len(Accesses(call)) = Done + Len(todo)
      /\ Head(todo) = Accesses(call)[Done + 1] /\ Len(todo) >= 1
  BY <1>1, Position DEF CallInv
<1>3. Accesses(call)[Done + 1] = Read("Colour")
  BY <1>2
<1>4. WellFormed(Accesses(call), Last(call))
  BY <1>2, CallsWellFormed DEF Last
<1>5. Done + 1 > Last(call)
  <2>1. /\ Read("Colour").rw = "read" /\ Read("Colour").reg # WAIT_FOR_GRAPHICS.reg
    BY DEF Read, WAIT_FOR_GRAPHICS
  <2>2. Done + 1 # 1
    BY <1>3, <1>4, <2>1 DEF WellFormed
  <2>3. Done + 1 \notin 2 .. Last(call)
    BY <1>3, <1>4, <2>1 DEF WellFormed
  <2> QED
    BY <1>2, <1>4, <2>2, <2>3 DEF WellFormed
<1>6. call.fn = "ReadAPixel"
  BY <1>2, <1>4, <1>5 DEF Last, WellFormed
<1>7. Len(todo) = 1
  <2>1. Len(Accesses(call)) = 6 /\ Accesses(call)[5] = WAIT_FOR_GRAPHICS
    BY <1>2, <1>6, ReadAccesses
  <2>2. Read("Colour") # WAIT_FOR_GRAPHICS
    BY DEF Read, WAIT_FOR_GRAPHICS
  <2> DEFINE n == Len(todo)
             d == Done
  <2>3. n \in Nat /\ d \in Nat /\ 6 = d + n /\ n >= 1 /\ d + 1 > 6 - 2 /\ d + 1 # 5
    BY <1>2, <1>3, <1>5, <1>6, <2>1, <2>2, Zenon DEF Last
  <2> HIDE DEF n, d
  <2>4. n = 1
    BY <2>3
  <2> QED
    BY <2>4 DEF n
<1>8. Latched(call)
  BY <1>6, <1>7 DEF CallInv, AnswerInv, Answered
<1> QED
  BY <1>8 DEF EndAccess, Latched

\* ReadAPixel returns the colour its pixel has when it returns, for every
\* screen and memory, and whenever the display takes the SRAM.
THEOREM ReadCorrect == Spec => ReadReturnsPixel
<1>1. TypeOK /\ HandshakeInv /\ CallInv /\ [Next]_vars =>
        [EndAccess /\ Head(todo) = Read("Colour")
            => returned' = {sram[<<call.x1, call.y1>>]}]_vars
  BY ReadAnswer
<1> QED
  BY <1>1, TypeCorrect, HandshakeCorrect, CallInvariant, PTL
     DEF Spec, ReadReturnsPixel

\* The palette changes only as the call in flight asks, and has changed when
\* the command is done, however long the wait for vertical sync lasts.
LEMMA PaletteStep ==
    ASSUME TypeOK, HandshakeInv, CallInv, Next
    PROVE  /\ palette' # palette => \E c \in inFlight :
                 /\ c.fn = "ProgramPalette"
                 /\ palette' = [palette EXCEPT ![c.colour] = Programmed(c)]
           /\ CommandDone => \A c \in inFlight :
                 c.fn = "ProgramPalette" => palette[c.colour] = Programmed(c)
<1>1. ASSUME palette' # palette
      PROVE  \E c \in inFlight :
                /\ c.fn = "ProgramPalette"
                /\ palette' = [palette EXCEPT ![c.colour] = Programmed(c)]
  <2>1. /\ CurrentState = "PalletteReProgram"
        /\ palette' = [palette EXCEPT ![Colour] = <<X1, Y1>>]
    BY <1>1, ResultStep DEF Next
  <2>2. PICK c \in Calls : inFlight = {c} /\ c.fn = "ProgramPalette" /\ AllWritten(c)
    BY <2>1 DEF CallInv, RunInv
  <2>3. Colour = c.colour /\ <<X1, Y1>> = Programmed(c)
    BY <2>2, RegistersOfCall
  <2> QED
    BY <2>1, <2>2, <2>3
<1> QED
  BY <1>1 DEF CallInv, DoneInv

THEOREM PaletteCorrect == Spec => PaletteProgrammed
<1>1. TypeOK /\ HandshakeInv /\ CallInv /\ [Next]_vars =>
        [/\ palette' # palette => \E c \in inFlight :
               /\ c.fn = "ProgramPalette"
               /\ palette' = [palette EXCEPT ![c.colour] = Programmed(c)]
         /\ CommandDone => \A c \in inFlight :
               c.fn = "ProgramPalette" => palette[c.colour] = Programmed(c)]_vars
  BY PaletteStep
<1> QED
  BY <1>1, TypeCorrect, HandshakeCorrect, CallInvariant, PTL
     DEF Spec, PaletteProgrammed
-------------------------------------------------------------------------------
(* Runs of pixels: single pixels, horizontal and vertical lines, rectangles. *)
(* Bresenham's lines and circles are left to the runs of the model checker. *)

\* The calls whose pixels the chip finds by counting.
Counted(c) == c.fn \notin {"WriteLine", "WriteCircle"}

\* A pixel has the colour of the call, or gets it on the next clock.
Reached(p, c) == Hit(p) \/ sram[p] = c.colour

\* The run of a horizontal line, up to where the chip stands.
HlineInv(c) ==
    /\ Y1 = c.y1 /\ X2 = c.x1 + c.x2
    /\ c.x1 <= X1 /\ X1 <= X2 + 1
    /\ \A p \in Shape(c) : p[1] < X1 => Reached(p, c)

VlineInv(c) ==
    /\ X1 = c.x1 /\ Y2 = c.y1 + c.y2
    /\ c.y1 <= Y1 /\ Y1 <= Y2
    /\ \A p \in Shape(c) : p[2] < Y1 => Reached(p, c)

\* The rows of a rectangle above the one the chip is in, and that one so far.
RowInv(c) ==
    /\ X1 = c.x1 /\ X2 = c.x2 /\ Y2 = c.y2
    /\ c.y1 <= Y1 /\ Y1 <= Y2
    /\ \A p \in Shape(c) : p[2] < Y1 => Reached(p, c)
RectangleInv(c) ==
    /\ RowInv(c)
    /\ c.x1 <= x /\ x <= X2 + 1
    /\ \A p \in Shape(c) : p[2] = Y1 /\ p[1] < x => Reached(p, c)

DrawStates == {"DrawPixel", "DrawHline", "DrawVline", "DrawRectangle",
               "DrawRectangle1", "DrawRectangle2"}

\* Every pixel of a call is reached.
Covered(c) == \A p \in Shape(c) : Reached(p, c)

\* How far a call has got in each state of the machine.
Progress(c) ==
    /\ Counted(c) <=> CurrentState \in DrawStates
    /\ Counted(c) => Colour = c.colour
    /\ CurrentState \in {"DrawPixel", "DrawRectangle"} => AllWritten(c)
    /\ CurrentState = "DrawPixel" <=> c.fn = "WriteAPixel"
    /\ CurrentState = "DrawHline" <=> c.fn = "WriteHLine"
    /\ CurrentState = "DrawVline" <=> c.fn = "WriteVLine"
    /\ c.fn = "WriteHLine" => HlineInv(c)
    /\ c.fn = "WriteVLine" => VlineInv(c)
    /\ CurrentState = "DrawRectangle1" => RectangleInv(c)
    /\ CurrentState = "DrawRectangle2" =>
          RowInv(c) /\ \A p \in Shape(c) : p[2] = Y1 => Reached(p, c)

PaintInv ==
    CurrentState \notin RestStates =>
        \E c \in Calls : inFlight = {c} /\ Accesses(c) # <<>> /\ Progress(c)

\* A write on its way to the SRAM goes to pixels of the call.
Aimed(c) ==
    Sram_Out.write => /\ Sram_Out.data = c.colour
                      /\ \A p \in Pixels : Hit(p) => p \in Shape(c)

\* It is the call in flight, and the chip has the SRAM for the write.
PendingInv ==
    Sram_Out.write => /\ GraphicsBusy_H /\ inFlight # {}
                      /\ \A c \in inFlight : Counted(c) => Aimed(c)

\* A function writes registers only when nothing is in flight.
AloneInv == HeadWrites => inFlight = {}

\* When the chip is about to clear its busy flag every pixel is reached.
PaintedInv == CommandDone => \A c \in inFlight : Counted(c) => Covered(c)

\* A call that fails its checks is never in flight.
PassedInv == \A c \in inFlight : Accesses(c) # <<>>

DrawInv == PaintInv /\ PendingInv /\ AloneInv /\ PaintedInv /\ PassedInv

\* What the checks of the functions leave of their parameters.
LEMMA CallChecks ==
    ASSUME NEW c \in Calls, Accesses(c) # <<>>
    PROVE  /\ c.fn \in FunctionNames /\ c.colour \in Colours
           /\ c.x1 \in Int /\ c.y1 \in Int /\ c.x2 \in Int /\ c.y2 \in Int
           /\ c.fn = "WriteAPixel" => OnScreen(c.x1, c.y1)
           /\ c.fn = "WriteHLine" =>
                 c.x2 >= 0 /\ OnScreen(c.x1, c.y1) /\ OnScreen(c.x1 + c.x2, c.y1)
           /\ c.fn = "WriteVLine" =>
                 c.y2 >= 0 /\ OnScreen(c.x1, c.y1) /\ OnScreen(c.x1, c.y1 + c.y2)
           /\ c.fn = "WriteFilledRectangle" =>
                 /\ c.x1 <= c.x2 /\ c.y1 <= c.y2
                 /\ OnScreen(c.x1, c.y1) /\ OnScreen(c.x2, c.y2)
<1>1. /\ c.fn \in FunctionNames /\ c.colour \in Colours
      /\ c.x1 \in Int /\ c.y1 \in Int /\ c.x2 \in Int /\ c.y2 \in Int
  BY CallsAssumption
<1>2. c.fn = "WriteAPixel" => OnScreen(c.x1, c.y1)
  BY DEF Accesses, Checked, WriteAPixel
<1>3. c.fn = "WriteHLine" =>
        c.x2 >= 0 /\ OnScreen(c.x1, c.y1) /\ OnScreen(c.x1 + c.x2, c.y1)
  BY DEF Accesses, Checked, WriteHLine
<1>4. c.fn = "WriteVLine" =>
        c.y2 >= 0 /\ OnScreen(c.x1, c.y1) /\ OnScreen(c.x1, c.y1 + c.y2)
  BY DEF Accesses, Checked, WriteVLine
<1>5. c.fn = "WriteFilledRectangle" =>
        /\ c.x1 <= c.x2 /\ c.y1 <= c.y2
        /\ OnScreen(c.x1, c.y1) /\ OnScreen(c.x2, c.y2)
  BY DEF Accesses, Checked, WriteFilledRectangle
<1> QED
  BY <1>1, <1>2, <1>3, <1>4, <1>5

\* Coordinates of the screen fit the registers and the memory.
LEMMA ScreenFits ==
    /\ XRES \in Nat /\ YRES \in Nat /\ Columns \in Nat \ {0} /\ Rows \in Nat \ {0}
    /\ XRES <= Columns /\ XRES < Half /\ YRES <= Rows /\ YRES <= Half
    /\ Half \in Nat /\ Half > 18
    /\ \A n \in Int : 0 <= n /\ n < Half => Wrap(n) = n
    /\ \A n \in Colours : Wrap(n) = n
<1>1. Half \in Nat /\ Half > 18 /\ Word = 2 * Half
  BY ChipAssumption DEF Half
<1>2. \A n \in Int : 0 <= n /\ n < Half => Wrap(n) = n
  BY <1>1 DEF Wrap
<1>3. \A n \in Colours : n \in Int /\ 0 <= n /\ n < Half
  BY <1>1, ChipAssumption DEF Half
<1> QED
  BY <1>1, <1>2, <1>3, ChipAssumption, ScreenAssumption, MemoryAssumption DEF Half

\* With the command, everything a function passes is in the registers.
LEMMA RegistersOfDrawing ==
    ASSUME NEW c \in Calls, AllWritten(c)
    PROVE  /\ c.fn = "WriteAPixel" =>
                 /\ Command = PutPixel /\ Colour = c.colour
                 /\ X1 = c.x1 /\ Y1 = c.y1
           /\ c.fn = "WriteHLine" =>
                 /\ Command = Hline /\ Colour = c.colour
                 /\ X1 = c.x1 /\ Y1 = c.y1 /\ X2 = c.x1 + c.x2
           /\ c.fn = "WriteVLine" =>
                 /\ Command = Vline /\ Colour = c.colour
                 /\ X1 = c.x1 /\ Y1 = c.y1 /\ Y2 = c.y1 + c.y2
           /\ c.fn = "WriteFilledRectangle" =>
                 /\ Command = Rectangle /\ Colour = c.colour
                 /\ X1 = c.x1 /\ Y1 = c.y1 /\ X2 = c.x2 /\ Y2 = c.y2
           /\ c.fn = "WriteLine" => Command = ALine
           /\ c.fn = "WriteCircle" => Command = Circle
<1> DEFINE A == Accesses(c)
<1>1. A # <<>> /\ \A k \in 1 .. Len(A) : A[k].rw = "write" => Holds(A[k])
  BY DEF AllWritten, Written
<1>2. ASSUME NEW v, NEW k \in 1 .. Len(A)
      PROVE  /\ A[k] = Write("X1", v) => X1 = Wrap(v)
             /\ A[k] = Write("Y1", v) => Y1 = Wrap(v)
             /\ A[k] = Write("X2", v) => X2 = Wrap(v)
             /\ A[k] = Write("Y2", v) => Y2 = Wrap(v)
             /\ A[k] = Write("Colour", v) => Colour = Wrap(v)
             /\ A[k] = Write("Command", v) => Command = Wrap(v)
  <2>1. \A r : /\ Write(r, v).rw = "write" /\ Write(r, v).reg = r
               /\ Write(r, v).val = Wrap(v)
    BY DEF Write
  <2>2. \A r : A[k] = Write(r, v) => Holds(Write(r, v))
    BY <1>1, <2>1
  <2> QED
    BY <2>1, <2>2 DEF Holds
<1>3. \A n \in {1, 2, 3, 10, 17, 18} : Wrap(n) = n
  BY ScreenFits
<1>4. /\ Wrap(PutPixel) = PutPixel /\ Wrap(Hline) = Hline /\ Wrap(Vline) = Vline
      /\ Wrap(ALine) = ALine /\ Wrap(Rectangle) = Rectangle /\ Wrap(Circle) = Circle
  BY <1>3 DEF PutPixel, Hline, Vline, ALine, Rectangle, Circle
<1>5. Wrap(c.colour) = c.colour
  BY <1>1, CallChecks, ScreenFits
<1>6. \A n \in 0 .. XRES - 1 : Wrap(n) = n
  BY ScreenFits
<1>7. \A n \in 0 .. YRES - 1 : Wrap(n) = n
  BY ScreenFits
<1>8. CASE c.fn = "WriteAPixel"
  <2>1. A = << WAIT_FOR_GRAPHICS, Write("X1", c.x1), Write("Y1", c.y1),
               Write("Colour", c.colour), Write("Command", PutPixel) >>
    BY <1>1, <1>8 DEF Accesses, Checked, WriteAPixel
  <2>2. /\ Len(A) = 5 /\ A[2] = Write("X1", c.x1) /\ A[3] = Write("Y1", c.y1)
        /\ A[4] = Write("Colour", c.colour) /\ A[5] = Write("Command", PutPixel)
    BY <2>1
  <2>3. 2 \in 1 .. 5 /\ 3 \in 1 .. 5 /\ 4 \in 1 .. 5 /\ 5 \in 1 .. 5
    OBVIOUS
  <2>4. c.x1 \in 0 .. XRES - 1 /\ c.y1 \in 0 .. YRES - 1
    BY <1>1, <1>8, CallChecks DEF OnScreen, check_if_point_is_on_screen
  <2> HIDE DEF A
  <2>5. /\ X1 = Wrap(c.x1) /\ Y1 = Wrap(c.y1) /\ Colour = Wrap(c.colour)
        /\ Command = Wrap(PutPixel)
    BY <1>2, <2>2, <2>3
  <2> QED
    BY <1>4, <1>5, <1>6, <1>7, <1>8, <2>4, <2>5
<1>9. CASE c.fn = "WriteHLine"
  <2>1. A = << WAIT_FOR_GRAPHICS, Write("X1", c.x1), Write("Y1", c.y1),
               Write("X2", c.x1 + c.x2), Write("Colour", c.colour),
               Write("Command", Hline) >>
    BY <1>1, <1>9 DEF Accesses, Checked, WriteHLine
  <2>2. /\ Len(A) = 6 /\ A[2] = Write("X1", c.x1) /\ A[3] = Write("Y1", c.y1)
        /\ A[4] = Write("X2", c.x1 + c.x2) /\ A[5] = Write("Colour", c.colour)
        /\ A[6] = Write("Command", Hline)
    BY <2>1
  <2>3. 2 \in 1 .. 6 /\ 3 \in 1 .. 6 /\ 4 \in 1 .. 6 /\ 5 \in 1 .. 6 /\ 6 \in 1 .. 6
    OBVIOUS
  <2>4. c.x1 \in 0 .. XRES - 1 /\ c.y1 \in 0 .. YRES - 1 /\ c.x1 + c.x2 \in 0 .. XRES - 1
    BY <1>1, <1>9, CallChecks DEF OnScreen, check_if_point_is_on_screen
  <2> HIDE DEF A
  <2>5. /\ X1 = Wrap(c.x1) /\ Y1 = Wrap(c.y1) /\ X2 = Wrap(c.x1 + c.x2)
        /\ Colour = Wrap(c.colour) /\ Command = Wrap(Hline)
    BY <1>2, <2>2, <2>3
  <2> QED
    BY <1>4, <1>5, <1>6, <1>7, <1>9, <2>4, <2>5
<1>10. CASE c.fn = "WriteVLine"
  <2>1. A = << WAIT_FOR_GRAPHICS, Write("X1", c.x1), Write("Y1", c.y1),
               Write("Y2", c.y1 + c.y2), Write("Colour", c.colour),
               Write("Command", Vline) >>
    BY <1>1, <1>10 DEF Accesses, Checked, WriteVLine
  <2>2. /\ Len(A) = 6 /\ A[2] = Write("X1", c.x1) /\ A[3] = Write("Y1", c.y1)
        /\ A[4] = Write("Y2", c.y1 + c.y2) /\ A[5] = Write("Colour", c.colour)
        /\ A[6] = Write("Command", Vline)
    BY <2>1
  <2>3. 2 \in 1 .. 6 /\ 3 \in 1 .. 6 /\ 4 \in 1 .. 6 /\ 5 \in 1 .. 6 /\ 6 \in 1 .. 6
    OBVIOUS
  <2>4. c.x1 \in 0 .. XRES - 1 /\ c.y1 \in 0 .. YRES - 1 /\ c.y1 + c.y2 \in 0 .. YRES - 1
    BY <1>1, <1>10, CallChecks DEF OnScreen, check_if_point_is_on_screen
  <2> HIDE DEF A
  <2>5. /\ X1 = Wrap(c.x1) /\ Y1 = Wrap(c.y1) /\ Y2 = Wrap(c.y1 + c.y2)
        /\ Colour = Wrap(c.colour) /\ Command = Wrap(Vline)
    BY <1>2, <2>2, <2>3
  <2> QED
    BY <1>4, <1>5, <1>6, <1>7, <1>10, <2>4, <2>5
<1>11. CASE c.fn = "WriteFilledRectangle"
  <2>1. A = << WAIT_FOR_GRAPHICS, Write("X1", c.x1), Write("Y1", c.y1),
               Write("X2", c.x2), Write("Y2", c.y2), Write("Colour", c.colour),
               Write("Command", Rectangle) >>
    BY <1>1, <1>11 DEF Accesses, Checked, WriteFilledRectangle
  <2>2. /\ Len(A) = 7 /\ A[2] = Write("X1", c.x1) /\ A[3] = Write("Y1", c.y1)
        /\ A[4] = Write("X2", c.x2) /\ A[5] = Write("Y2", c.y2)
        /\ A[6] = Write("Colour", c.colour) /\ A[7] = Write("Command", Rectangle)
    BY <2>1
  <2>3. /\ 2 \in 1 .. 7 /\ 3 \in 1 .. 7 /\ 4 \in 1 .. 7 /\ 5 \in 1 .. 7
        /\ 6 \in 1 .. 7 /\ 7 \in 1 .. 7
    OBVIOUS
  <2>4. /\ c.x1 \in 0 .. XRES - 1 /\ c.y1 \in 0 .. YRES - 1
        /\ c.x2 \in 0 .. XRES - 1 /\ c.y2 \in 0 .. YRES - 1
    BY <1>1, <1>11, CallChecks DEF OnScreen, check_if_point_is_on_screen
  <2> HIDE DEF A
  <2>5. /\ X1 = Wrap(c.x1) /\ Y1 = Wrap(c.y1) /\ X2 = Wrap(c.x2) /\ Y2 = Wrap(c.y2)
        /\ Colour = Wrap(c.colour) /\ Command = Wrap(Rectangle)
    BY <1>2, <2>2, <2>3
  <2> QED
    BY <1>4, <1>5, <1>6, <1>7, <1>11, <2>4, <2>5
<1>12. CASE c.fn = "WriteLine"
  <2>1. Len(A) = 7 /\ A[7] = Write("Command", ALine)
    BY <1>1, <1>12 DEF Accesses, Checked, WriteLine
  <2> HIDE DEF A
  <2> QED
    BY <1>2, <1>4, <1>12, <2>1
<1>13. CASE c.fn = "WriteCircle"
  <2>1. Len(A) = 6 /\ A[6] = Write("Command", Circle)
    BY <1>1, <1>13 DEF Accesses, WriteCircle
  <2> HIDE DEF A
  <2> QED
    BY <1>2, <1>4, <1>13, <2>1
<1> QED
  BY <1>8, <1>9, <1>10, <1>11, <1>12, <1>13

\* The pixels of a call are pixels of the memory, given by their coordinates.
LEMMA ShapePixels ==
    ASSUME NEW c \in Calls, Accesses(c) # <<>>, Counted(c)
    PROVE  /\ Shape(c) \subseteq Pixels
           /\ \A p \in Pixels :
                 /\ c.fn = "WriteAPixel" => (p \in Shape(c) <=> p = <<c.x1, c.y1>>)
                 /\ c.fn = "WriteHLine" =>
                       (p \in Shape(c) <=> /\ c.x1 <= p[1] /\ p[1] < c.x1 + c.x2
                                           /\ p[2] = c.y1)
                 /\ c.fn = "WriteVLine" =>
                       (p \in Shape(c) <=> /\ c.y1 <= p[2] /\ p[2] < c.y1 + c.y2
                                           /\ p[1] = c.x1)
                 /\ c.fn = "WriteFilledRectangle" =>
                       (p \in Shape(c) <=> /\ c.x1 <= p[1] /\ p[1] < c.x2
                                           /\ c.y1 <= p[2] /\ p[2] <= c.y2)
                 /\ c.fn \in {"ProgramPalette", "ReadAPixel"} => p \notin Shape(c)
<1>1. /\ c.fn \in FunctionNames
      /\ c.x1 \in Int /\ c.y1 \in Int /\ c.x2 \in Int /\ c.y2 \in Int
  BY CallChecks
<1>2. \A p : p \in Pixels <=> \E a \in 0 .. Columns - 1, b \in 0 .. Rows - 1 : p = <<a, b>>
  BY DEF Pixels
<1>3. XRES - 1 <= Columns - 1 /\ YRES - 1 <= Rows - 1 /\ XRES \in Int /\ YRES \in Int
      /\ Columns \in Int /\ Rows \in Int
  BY ScreenFits
<1>4. CASE c.fn = "WriteAPixel"
  <2>1. Shape(c) = {<<c.x1, c.y1>>}
    BY <1>4 DEF Shape
  <2>2. c.x1 \in 0 .. Columns - 1 /\ c.y1 \in 0 .. Rows - 1
    BY <1>1, <1>3, <1>4, CallChecks DEF OnScreen, check_if_point_is_on_screen
  <2> QED
    BY <1>2, <1>4, <2>1, <2>2
<1>5. CASE c.fn = "WriteHLine"
  <2>1. Shape(c) = (c.x1 .. c.x1 + c.x2 - 1) \X {c.y1}
    BY <1>5 DEF Shape, TestHLine
  <2>2. c.x1 \in 0 .. Columns - 1 /\ c.y1 \in 0 .. Rows - 1
        /\ c.x1 + c.x2 \in 0 .. Columns - 1
    BY <1>1, <1>3, <1>5, CallChecks DEF OnScreen, check_if_point_is_on_screen
  <2>3. Shape(c) \subseteq Pixels
    BY <1>1, <1>3, <2>1, <2>2 DEF Pixels
  <2>4. \A p \in Pixels : p \in Shape(c) <=> /\ c.x1 <= p[1] /\ p[1] < c.x1 + c.x2
                                            /\ p[2] = c.y1
    BY <1>1, <1>3, <2>1 DEF Pixels
  <2> QED
    BY <1>5, <2>3, <2>4
<1>6. CASE c.fn = "WriteVLine"
  <2>1. Shape(c) = {c.x1} \X (c.y1 .. c.y1 + c.y2 - 1)
    BY <1>6 DEF Shape, TestVLine
  <2>2. c.x1 \in 0 .. Columns - 1 /\ c.y1 \in 0 .. Rows - 1
        /\ c.y1 + c.y2 \in 0 .. Rows - 1
    BY <1>1, <1>3, <1>6, CallChecks DEF OnScreen, check_if_point_is_on_screen
  <2> QED
    BY <1>1, <1>3, <1>6, <2>1, <2>2 DEF Pixels
<1>7. CASE c.fn = "WriteFilledRectangle"
  <2>1. Shape(c) = (c.x1 .. c.x2 - 1) \X (c.y1 .. c.y2)
    BY <1>7 DEF Shape, TestFilledRectangle
  <2>2. /\ c.x1 \in 0 .. Columns - 1 /\ c.y1 \in 0 .. Rows - 1
        /\ c.x2 \in 0 .. Columns - 1 /\ c.y2 \in 0 .. Rows - 1
    BY <1>1, <1>3, <1>7, CallChecks DEF OnScreen, check_if_point_is_on_screen
  <2> QED
    BY <1>1, <1>3, <1>7, <2>1, <2>2 DEF Pixels
<1>8. CASE c.fn \in {"ProgramPalette", "ReadAPixel"}
  BY <1>8 DEF Shape
<1> QED
  BY <1>1, <1>4, <1>5, <1>6, <1>7, <1>8 DEF Counted, FunctionNames

\* A clock of a machine at work: NIOS writes no register.
LEMMA WorkingClock ==
    ASSUME TypeOK, HandshakeInv, CurrentState # "Idle", NEW a, NEW b, Clocked(a, b)
    PROVE  /\ X1' = Wrap(X1 + a) /\ Y1' = Wrap(Y1 + b)
           /\ X2' = X2 /\ Y2' = Y2 /\ Colour' = Colour /\ Command' = Command
           /\ ~OKToDraw_L => GraphicsBusy_H'
           /\ SramWrite
<1>1. \A r : ~Select(r)
  BY OnBus
<1>2. (~OKToDraw_L) \in BOOLEAN
  BY DEF TypeOK, ChipTypeOK
<1> QED
  BY <1>1, <1>2 DEF Clocked, Registers, Loaded

\* The pixels a registered access hits on the next clock.
LEMMA NextHit ==
    ASSUME NEW col \in 0 .. Columns - 1, NEW row \in 0 .. Rows - 1, NEW lanes,
           Access(TRUE, col, row, lanes), GraphicsBusy_H'
    PROVE  /\ Sram_Out'.data = Colour
           /\ \A p \in Pixels : Hit(p)' <=> /\ p[2] = row /\ p[1] \div 2 = col \div 2
                                            /\ p[1] % 2 \in lanes
<1>1. col % Columns = col /\ row % Rows = row
  BY ScreenFits
<1>2. Sram_Out' = [write |-> TRUE, row |-> row, pair |-> col \div 2,
                   lanes |-> lanes, data |-> Colour]
  BY <1>1 DEF Access
<1> QED
  BY <1>2 DEF Hit

\* One pixel.
LEMMA PixelHit ==
    ASSUME NEW col \in 0 .. Columns - 1, NEW row \in 0 .. Rows - 1,
           Access(TRUE, col, row, {col % 2}), GraphicsBusy_H'
    PROVE  \A p \in Pixels : Hit(p)' <=> p = <<col, row>>
<1> SUFFICES ASSUME NEW p \in Pixels PROVE Hit(p)' <=> p = <<col, row>>
  OBVIOUS
<1>1. Hit(p)' <=> p[2] = row /\ p[1] \div 2 = col \div 2 /\ p[1] % 2 \in {col % 2}
  BY NextHit
<1>2. p = <<p[1], p[2]>> /\ p[1] \in 0 .. Columns - 1
  BY DEF Pixels
<1>3. p[1] \div 2 = col \div 2 /\ p[1] % 2 \in {col % 2} <=> p[1] = col
  BY <1>2, ScreenFits
<1> QED
  BY <1>1, <1>2, <1>3

\* One clock of a run: the pixels from col to the next even column, or to X2.
LEMMA RunHit ==
    ASSUME NEW col \in 0 .. Columns - 1, NEW row \in 0 .. Rows - 1,
           X2 \in 0 .. XRES - 1, col < X2,
           Access(TRUE, col, row, RunLanes(col)), GraphicsBusy_H'
    PROVE  \A p \in Pixels :
              Hit(p)' <=> /\ p[2] = row
                          /\ col <= p[1] /\ p[1] < col + RunStep(col) /\ p[1] < X2
<1> SUFFICES ASSUME NEW p \in Pixels
             PROVE  Hit(p)' <=> /\ p[2] = row
                                /\ col <= p[1] /\ p[1] < col + RunStep(col) /\ p[1] < X2
  OBVIOUS
<1>1. Hit(p)' <=> p[2] = row /\ p[1] \div 2 = col \div 2 /\ p[1] % 2 \in RunLanes(col)
  BY NextHit
<1>2. p[1] \in 0 .. Columns - 1
  BY DEF Pixels
<1>3. Wrap(col + 1) = col + 1
  BY ScreenFits
<1>4. p[1] \div 2 = col \div 2 /\ p[1] % 2 \in RunLanes(col)
        <=> col <= p[1] /\ p[1] < col + RunStep(col) /\ p[1] < X2
  <2>1. CASE col % 2 = 1
    BY <1>2, <2>1, ScreenFits DEF RunLanes, RunStep
  <2>2. CASE col % 2 # 1 /\ col + 1 # X2
    BY <1>2, <1>3, <2>2, ScreenFits DEF RunLanes, RunStep
  <2>3. CASE col % 2 # 1 /\ col + 1 = X2
    BY <1>2, <1>3, <2>3, ScreenFits DEF RunLanes, RunStep
  <2> QED
    BY <2>1, <2>2, <2>3
<1> QED
  BY <1>1, <1>4

\* A pixel reached gets its colour, and none but those of the call change.
LEMMA Painting ==
    ASSUME TypeOK, PendingInv, ChipStep, NEW c \in inFlight, Counted(c)
    PROVE  /\ \A p \in Pixels : Reached(p, c) => sram'[p] = c.colour
           /\ \A p \in Pixels : sram'[p] # sram[p] =>
                 p \in Shape(c) /\ sram'[p] = c.colour
<1>1. sram' = [p \in Pixels |-> IF Hit(p) THEN Sram_Out.data ELSE sram[p]]
  BY SharedStep DEF SramWrite
<1>2. \A p \in Pixels : Hit(p) => Sram_Out.data = c.colour /\ p \in Shape(c)
  BY DEF PendingInv, Aimed, Hit
<1> QED
  BY <1>1, <1>2 DEF Reached

LEMMA ReachedKept ==
    ASSUME TypeOK, PendingInv, ChipStep, NEW CONSTANT c \in inFlight, Counted(c)
    PROVE  \A p \in Pixels : Reached(p, c) => Reached(p, c)'
  BY Painting DEF Reached

\* Each drawing state has its action, and no other state leads to one.
LEMMA DrawingStep ==
    ASSUME ChipStep
    PROVE  /\ CurrentState = "DrawPixel" => DrawPixel
           /\ CurrentState = "DrawHline" => DrawHline
           /\ CurrentState = "DrawVline" => DrawVline
           /\ CurrentState = "DrawRectangle" => DrawRectangle
           /\ CurrentState = "DrawRectangle1" => DrawRectangle1
           /\ CurrentState = "DrawRectangle2" => DrawRectangle2
           /\ CurrentState \notin RestStates \cup DrawStates =>
                 CurrentState' \notin (RestStates \cup DrawStates) \ {"Idle"}
<1> USE DEF RestStates, ReadStates, DrawStates
<1>1. CASE \E k \in 1 .. 8 : DrawCircleOctant(k)
  BY <1>1 DEF DrawCircleOctant, Octants, Stay, Goto
<1>2. CASE IdleState \/ ProcessCommand \/ PalletteReProgram \/ ReadPixel
           \/ ReadPixel1 \/ ReadPixel2 \/ ReadPixel3
  BY <1>2 DEF IdleState, ProcessCommand, PalletteReProgram, ReadPixel,
              ReadPixel1, ReadPixel2, ReadPixel3
<1>3. CASE DrawPixel
  BY <1>3 DEF DrawPixel
<1>4. CASE DrawHline
  BY <1>4 DEF DrawHline
<1>5. CASE DrawVline
  BY <1>5 DEF DrawVline
<1>6. CASE DrawRectangle
  BY <1>6 DEF DrawRectangle
<1>7. CASE DrawRectangle1
  BY <1>7 DEF DrawRectangle1
<1>8. CASE DrawRectangle2
  BY <1>8 DEF DrawRectangle2
<1>9. CASE DrawLine \/ DrawLine1 \/ DrawLine2 \/ DrawLine3 \/ DrawLine4
  BY <1>9 DEF DrawLine, DrawLine1, DrawLine2, DrawLine3, DrawLine4, Stay, Goto
<1>10. CASE DrawCircle \/ DrawCircle1 \/ DrawCircle10
  BY <1>10 DEF DrawCircle, DrawCircle1, DrawCircle10, Octants, Goto
<1> QED
  BY <1>1, <1>2, <1>3, <1>4, <1>5, <1>6, <1>7, <1>8, <1>9, <1>10 DEF ChipStep

\* The chip presents a write only on a clock on which the display does not
\* want the SRAM.
LEMMA WriteStep ==
    ASSUME ChipStep, Sram_Out'.write
    PROVE  ~OKToDraw_L /\ CurrentState \notin RestStates
<1>1. CurrentState \notin RestStates
  BY AccessRest
<1>2. \A w, col, row, lanes : Access(w, col, row, lanes) => w
  BY DEF Access
<1>3. ~NoAccess
  BY <1>2 DEF NoAccess
<1>4. CASE \E k \in 1 .. 8 : DrawCircleOctant(k)
  BY <1>1, <1>3, <1>4, Zenon DEF DrawCircleOctant, Stay
<1>5. CASE DrawPixel \/ DrawHline \/ DrawVline
  BY <1>1, <1>3, <1>5, Zenon DEF DrawPixel, DrawHline, DrawVline, Stay
<1>6. CASE DrawRectangle \/ DrawRectangle1 \/ DrawRectangle2
  BY <1>1, <1>3, <1>6, Zenon DEF DrawRectangle, DrawRectangle1, DrawRectangle2, Stay
<1>7. CASE DrawLine \/ DrawLine1 \/ DrawLine2 \/ DrawLine3 \/ DrawLine4
  BY <1>1, <1>3, <1>7, Zenon DEF DrawLine, DrawLine1, DrawLine2, DrawLine3, DrawLine4, Stay
<1>8. CASE DrawCircle \/ DrawCircle1 \/ DrawCircle10
  BY <1>3, <1>8, Zenon DEF DrawCircle, DrawCircle1, DrawCircle10
<1>9. CASE IdleState \/ ProcessCommand \/ PalletteReProgram \/ ReadPixel
           \/ ReadPixel1 \/ ReadPixel2 \/ ReadPixel3
  BY <1>1, <1>9 DEF IdleState, ProcessCommand, PalletteReProgram, ReadPixel,
                    ReadPixel1, ReadPixel2, ReadPixel3, RestStates, ReadStates
<1> QED
  BY <1>1, <1>4, <1>5, <1>6, <1>7, <1>8, <1>9 DEF ChipStep

\* A call whose command the chip decodes starts with none of its pixels.
LEMMA PaintBegins ==
    ASSUME TypeOK, HandshakeInv, IssuedInv, Next,
           CurrentState = "ProcessCommand", CurrentState' \notin RestStates
    PROVE  \E c \in Calls : inFlight' = {c} /\ Accesses(c) # <<>> /\ Progress(c)'
<1>1. PICK c \in inFlight : TRUE
  BY Decoded DEF RestStates
<1>2. /\ inFlight' = {c} /\ c \in Calls /\ AllWritten(c) /\ AllWritten(c)'
      /\ Accesses(c) # <<>>
      /\ c.fn \notin {"ProgramPalette", "ReadAPixel"}
  BY <1>1, Decoded DEF RestStates, AllWritten
<1>3. CurrentState' = FirstState(Command)
  BY StateStep DEF Next
<1>4. UNCHANGED <<X1, Y1, X2, Y2, Colour, Command>>
  BY RegistersKept DEF RestStates
<1>5. c.x1 \in Int /\ c.y1 \in Int /\ c.x2 \in Int /\ c.y2 \in Int /\ c.fn \in FunctionNames
  BY <1>2, CallChecks
<1>6. \A p \in Pixels : p[1] \in Int /\ p[2] \in Int
  BY ScreenFits DEF Pixels
<1> USE DEF FirstState, PutPixel, GetPixel, ProgramPallette, Hline, Vline, ALine,
            Rectangle, Circle
<1>7. CASE c.fn = "WriteAPixel"
  <2>1. Command = PutPixel /\ Colour = c.colour
    BY <1>2, <1>7, RegistersOfDrawing
  <2>2. CurrentState' = "DrawPixel"
    BY <1>3, <2>1
  <2>3. Progress(c)'
    BY <1>2, <1>4, <1>7, <2>1, <2>2 DEF Progress, Counted, DrawStates
  <2> QED
    BY <1>2, <2>3
<1>8. CASE c.fn = "WriteHLine"
  <2>1. /\ Command = Hline /\ Colour = c.colour
        /\ X1 = c.x1 /\ Y1 = c.y1 /\ X2 = c.x1 + c.x2
    BY <1>2, <1>8, RegistersOfDrawing
  <2>2. CurrentState' = "DrawHline"
    BY <1>3, <2>1
  <2>3. Shape(c) \subseteq Pixels /\ \A p \in Shape(c) : ~(p[1] < c.x1)
    BY <1>2, <1>5, <1>6, <1>8, ShapePixels DEF Counted
  <2>4. c.x2 >= 0
    BY <1>2, <1>8, CallChecks
  <2>5. HlineInv(c)'
    BY <1>4, <1>5, <2>1, <2>3, <2>4 DEF HlineInv
  <2>6. Progress(c)'
    BY <1>4, <1>8, <2>1, <2>2, <2>5 DEF Progress, Counted, DrawStates
  <2> QED
    BY <1>2, <2>6
<1>9. CASE c.fn = "WriteVLine"
  <2>1. /\ Command = Vline /\ Colour = c.colour
        /\ X1 = c.x1 /\ Y1 = c.y1 /\ Y2 = c.y1 + c.y2
    BY <1>2, <1>9, RegistersOfDrawing
  <2>2. CurrentState' = "DrawVline"
    BY <1>3, <2>1
  <2>3. Shape(c) \subseteq Pixels /\ \A p \in Shape(c) : ~(p[2] < c.y1)
    BY <1>2, <1>5, <1>6, <1>9, ShapePixels DEF Counted
  <2>4. c.y2 >= 0
    BY <1>2, <1>9, CallChecks
  <2>5. VlineInv(c)'
    BY <1>4, <1>5, <2>1, <2>3, <2>4 DEF VlineInv
  <2>6. Progress(c)'
    BY <1>4, <1>9, <2>1, <2>2, <2>5 DEF Progress, Counted, DrawStates
  <2> QED
    BY <1>2, <2>6
<1>10. CASE c.fn = "WriteFilledRectangle"
  <2>1. Command = Rectangle /\ Colour = c.colour
    BY <1>2, <1>10, RegistersOfDrawing
  <2>2. CurrentState' = "DrawRectangle"
    BY <1>3, <2>1
  <2>3. Progress(c)'
    BY <1>2, <1>4, <1>10, <2>1, <2>2 DEF Progress, Counted, DrawStates
  <2> QED
    BY <1>2, <2>3
<1>11. CASE c.fn \in {"WriteLine", "WriteCircle"}
  <2>1. Command \in {ALine, Circle}
    BY <1>2, <1>11, RegistersOfDrawing
  <2>2. CurrentState' \in {"DrawLine", "DrawCircle"}
    BY <1>3, <2>1
  <2>3. Progress(c)'
    BY <1>11, <2>2 DEF Progress, Counted, DrawStates
  <2> QED
    BY <1>2, <2>3
<1> QED
  BY <1>2, <1>5, <1>7, <1>8, <1>9, <1>10, <1>11 DEF FunctionNames

\* A single pixel is on its way when the chip leaves its state.
LEMMA PixelStep ==
    ASSUME TypeOK, HandshakeInv, Next, CurrentState = "DrawPixel",
           NEW CONSTANT c \in Calls, Accesses(c) # <<>>, c.fn = "WriteAPixel",
           AllWritten(c)
    PROVE  /\ CurrentState' = "DrawPixel" => AllWritten(c)'
           /\ CurrentState' \in {"DrawPixel", "Idle"} /\ Colour' = Colour
           /\ CurrentState' = "Idle" => Covered(c)'
           /\ Aimed(c)'
<1>1. DrawPixel
  BY DrawingStep DEF Next
<1>2. X1 = c.x1 /\ Y1 = c.y1 /\ Colour = c.colour
  BY RegistersOfDrawing
<1>3. X1 \in 0 .. Columns - 1 /\ Y1 \in 0 .. Rows - 1
  BY <1>2, CallChecks, ScreenFits DEF OnScreen, check_if_point_is_on_screen
<1>4. Clocked(0, 0)
  BY <1>1 DEF DrawPixel
<1>5. /\ X1' = Wrap(X1 + 0) /\ Y1' = Wrap(Y1 + 0)
      /\ X2' = X2 /\ Y2' = Y2 /\ Colour' = Colour /\ Command' = Command
      /\ ~OKToDraw_L => GraphicsBusy_H'
  BY <1>4, WorkingClock
<1>6. X1' = X1 /\ Y1' = Y1
  BY <1>5, WordKept DEF TypeOK, ChipTypeOK
<1>7. AllWritten(c)'
  BY <1>5, <1>6, WrittenKept
<1>8. CASE OKToDraw_L
  <2>1. CurrentState' = "DrawPixel" /\ ~Sram_Out'.write
    BY <1>1, <1>8 DEF DrawPixel, Stay, Goto, NoAccess, Access
  <2> QED
    BY <1>5, <1>7, <2>1 DEF Aimed
<1>9. CASE ~OKToDraw_L
  <2>1. Access(TRUE, X1, Y1, {X1 % 2}) /\ CurrentState' = "Idle"
    BY <1>1, <1>9 DEF DrawPixel, Goto, WritePixel
  <2>2. \A p \in Pixels : Hit(p)' <=> p = <<X1, Y1>>
    BY <1>3, <1>5, <1>9, <2>1, PixelHit
  <2>3. Sram_Out'.data = Colour
    BY <2>1 DEF Access
  <2>4. Shape(c) \subseteq Pixels /\ \A p \in Pixels : p \in Shape(c) <=> p = <<X1, Y1>>
    BY <1>2, ShapePixels DEF Counted
  <2>5. Covered(c)' /\ Aimed(c)'
    BY <1>2, <2>2, <2>3, <2>4 DEF Covered, Reached, Aimed
  <2> QED
    BY <1>5, <2>1, <2>5
<1> QED
  BY <1>8, <1>9

\* A horizontal run advances over the pixels it sends to the SRAM.
LEMMA HlineStep ==
    ASSUME TypeOK, HandshakeInv, PendingInv, Next, CurrentState = "DrawHline",
           NEW CONSTANT c \in Calls, inFlight = {c}, Accesses(c) # <<>>,
           c.fn = "WriteHLine", Colour = c.colour, HlineInv(c)
    PROVE  /\ CurrentState' = "DrawHline" => HlineInv(c)'
           /\ CurrentState' \in {"DrawHline", "Idle"} /\ Colour' = Colour
           /\ CurrentState' = "Idle" => Covered(c)'
           /\ Aimed(c)'
<1>1. DrawHline
  BY DrawingStep DEF Next
<1>2. /\ c.x1 \in 0 .. XRES - 1 /\ c.y1 \in 0 .. YRES - 1
      /\ c.x1 + c.x2 \in 0 .. XRES - 1 /\ c.x2 \in Int
  BY CallChecks DEF OnScreen, check_if_point_is_on_screen
<1>3. /\ Y1 = c.y1 /\ X2 = c.x1 + c.x2 /\ X1 \in Int
      /\ c.x1 <= X1 /\ X1 <= X2 + 1
      /\ \A p \in Shape(c) : p[1] < X1 => Reached(p, c)
  BY WordType DEF HlineInv, TypeOK, ChipTypeOK
<1>4. /\ Shape(c) \subseteq Pixels
      /\ \A p \in Pixels : p \in Shape(c) <=> /\ c.x1 <= p[1] /\ p[1] < X2
                                              /\ p[2] = Y1
  BY <1>3, ShapePixels DEF Counted
<1>5. \A p \in Shape(c) : Reached(p, c) => Reached(p, c)'
  BY <1>4, ReachedKept DEF Next, Counted
<1>6. \A p \in Pixels : p[1] \in Int /\ p[2] \in Int
  BY ScreenFits DEF Pixels
<1>7. CASE OKToDraw_L
  <2>1. Clocked(0, 0) /\ CurrentState' = "DrawHline" /\ ~Sram_Out'.write
    BY <1>1, <1>7 DEF DrawHline, Stay, Goto, NoAccess, Access
  <2>2. /\ X1' = Wrap(X1 + 0) /\ Y1' = Wrap(Y1 + 0) /\ X2' = X2 /\ Colour' = Colour
    BY <2>1, WorkingClock
  <2>3. X1' = X1 /\ Y1' = Y1
    BY <2>2, WordKept DEF TypeOK, ChipTypeOK
  <2>4. HlineInv(c)'
    BY <1>3, <1>5, <2>2, <2>3 DEF HlineInv
  <2> QED
    BY <2>1, <2>2, <2>4 DEF Aimed
<1>8. CASE ~OKToDraw_L
  <2>1. /\ Clocked(RunStep(X1), 0)
        /\ Access(X1 < X2, X1, Y1, RunLanes(X1))
        /\ CurrentState' = IF X1 < X2 THEN "DrawHline" ELSE "Idle"
    BY <1>1, <1>8 DEF DrawHline, Goto
  <2>2. /\ X1' = Wrap(X1 + RunStep(X1)) /\ Y1' = Wrap(Y1 + 0)
        /\ X2' = X2 /\ Colour' = Colour /\ GraphicsBusy_H'
    BY <1>8, <2>1, WorkingClock
  <2>3. Y1' = Y1
    BY <2>2, WordKept DEF TypeOK, ChipTypeOK
  <2>4. CASE X1 < X2
    <3>1. /\ X1 \in 0 .. Columns - 1 /\ Y1 \in 0 .. Rows - 1 /\ X2 \in 0 .. XRES - 1
          /\ X2 + 1 < Half + 1 /\ X2 + 1 \in Int
      BY <1>2, <1>3, <2>4, ScreenFits
    <3>2. Access(TRUE, X1, Y1, RunLanes(X1)) /\ CurrentState' = "DrawHline"
      BY <2>1, <2>4
    <3>3. \A p \in Pixels :
             Hit(p)' <=> /\ p[2] = Y1 /\ X1 <= p[1]
                         /\ p[1] < X1 + RunStep(X1) /\ p[1] < X2
      BY <2>2, <2>4, <3>1, <3>2, RunHit
    <3>4. Sram_Out'.data = Colour
      BY <3>2 DEF Access
    <3>5. X1 + RunStep(X1) <= X2 + 1 /\ RunStep(X1) \in {1, 2}
      BY <1>3, <2>4, <3>1 DEF RunStep
    <3>6. X1' = X1 + RunStep(X1)
      BY <1>2, <1>3, <2>2, <3>1, <3>5, ScreenFits
    <3>7. Aimed(c)'
      <4>1. \A p \in Pixels : Hit(p)' => p \in Shape(c)
        BY <1>2, <1>3, <1>4, <1>6, <3>3
      <4> QED
        BY <3>4, <4>1 DEF Aimed
    <3>8. HlineInv(c)'
      <4>1. ASSUME NEW p \in Shape(c), p[1] < X1' PROVE Reached(p, c)'
        <5>1. p \in Pixels /\ p[1] < X2 /\ p[2] = Y1 /\ p[1] \in Int
          BY <1>4, <1>6
        <5>2. CASE p[1] < X1
          BY <1>3, <1>5, <5>2
        <5>3. CASE ~(p[1] < X1)
          <6>1. Hit(p)'
            BY <1>3, <3>3, <3>6, <4>1, <5>1, <5>3
          <6> QED
            BY <6>1 DEF Reached
        <5> QED
          BY <5>2, <5>3
      <4>2. c.x1 <= X1' /\ X1' <= X2 + 1
        BY <1>2, <1>3, <3>5, <3>6
      <4> QED
        BY <1>3, <2>2, <2>3, <4>1, <4>2 DEF HlineInv
    <3> QED
      BY <2>2, <3>2, <3>7, <3>8
  <2>5. CASE ~(X1 < X2)
    <3>1. ~Sram_Out'.write /\ CurrentState' = "Idle"
      BY <2>1, <2>5 DEF Access
    <3>2. \A p \in Shape(c) : p[1] < X1
      BY <1>2, <1>3, <1>4, <1>6, <2>5
    <3>3. Covered(c)'
      BY <1>3, <1>5, <3>2 DEF Covered
    <3> QED
      BY <2>2, <3>1, <3>3 DEF Aimed
  <2> QED
    BY <2>4, <2>5
<1> QED
  BY <1>7, <1>8

\* A vertical run advances pixel by pixel.
LEMMA VlineStep ==
    ASSUME TypeOK, HandshakeInv, PendingInv, Next, CurrentState = "DrawVline",
           NEW CONSTANT c \in Calls, inFlight = {c}, Accesses(c) # <<>>,
           c.fn = "WriteVLine", Colour = c.colour, VlineInv(c)
    PROVE  /\ CurrentState' = "DrawVline" => VlineInv(c)'
           /\ CurrentState' \in {"DrawVline", "Idle"} /\ Colour' = Colour
           /\ CurrentState' = "Idle" => Covered(c)'
           /\ Aimed(c)'
<1>1. DrawVline
  BY DrawingStep DEF Next
<1>2. /\ c.x1 \in 0 .. XRES - 1 /\ c.y1 \in 0 .. YRES - 1
      /\ c.y1 + c.y2 \in 0 .. YRES - 1 /\ c.y2 \in Int
  BY CallChecks DEF OnScreen, check_if_point_is_on_screen
<1>3. /\ X1 = c.x1 /\ Y2 = c.y1 + c.y2 /\ Y1 \in Int
      /\ c.y1 <= Y1 /\ Y1 <= Y2
      /\ \A p \in Shape(c) : p[2] < Y1 => Reached(p, c)
  BY WordType DEF VlineInv, TypeOK, ChipTypeOK
<1>4. /\ Shape(c) \subseteq Pixels
      /\ \A p \in Pixels : p \in Shape(c) <=> /\ c.y1 <= p[2] /\ p[2] < Y2
                                              /\ p[1] = X1
  BY <1>3, ShapePixels DEF Counted
<1>5. \A p \in Shape(c) : Reached(p, c) => Reached(p, c)'
  BY <1>4, ReachedKept DEF Next, Counted
<1>6. \A p \in Pixels : p[1] \in Int /\ p[2] \in Int /\ p = <<p[1], p[2]>>
  BY ScreenFits DEF Pixels
<1>7. CASE OKToDraw_L
  <2>1. Clocked(0, 0) /\ CurrentState' = "DrawVline" /\ ~Sram_Out'.write
    BY <1>1, <1>7 DEF DrawVline, Stay, Goto, NoAccess, Access
  <2>2. /\ X1' = Wrap(X1 + 0) /\ Y1' = Wrap(Y1 + 0) /\ Y2' = Y2 /\ Colour' = Colour
    BY <2>1, WorkingClock
  <2>3. X1' = X1 /\ Y1' = Y1
    BY <2>2, WordKept DEF TypeOK, ChipTypeOK
  <2>4. VlineInv(c)'
    BY <1>3, <1>5, <2>2, <2>3 DEF VlineInv
  <2> QED
    BY <2>1, <2>2, <2>4 DEF Aimed
<1>8. CASE ~OKToDraw_L
  <2>1. /\ Clocked(0, IF Y1 < Y2 THEN 1 ELSE 0)
        /\ Access(Y1 < Y2, X1, Y1, {X1 % 2})
        /\ CurrentState' = IF Y1 < Y2 THEN "DrawVline" ELSE "Idle"
    BY <1>1, <1>8 DEF DrawVline, Goto
  <2>2. /\ X1' = Wrap(X1 + 0) /\ Y1' = Wrap(Y1 + (IF Y1 < Y2 THEN 1 ELSE 0))
        /\ Y2' = Y2 /\ Colour' = Colour /\ GraphicsBusy_H'
    BY <1>8, <2>1, WorkingClock
  <2>3. X1' = X1
    BY <2>2, WordKept DEF TypeOK, ChipTypeOK
  <2>4. CASE Y1 < Y2
    <3>1. /\ X1 \in 0 .. Columns - 1 /\ Y1 \in 0 .. Rows - 1
          /\ Y1 + 1 \in 0 .. YRES - 1
      BY <1>2, <1>3, <2>4, ScreenFits
    <3>2. Access(TRUE, X1, Y1, {X1 % 2}) /\ CurrentState' = "DrawVline"
      BY <2>1, <2>4
    <3>3. \A p \in Pixels : Hit(p)' <=> p = <<X1, Y1>>
      BY <2>2, <3>1, <3>2, PixelHit
    <3>4. Sram_Out'.data = Colour
      BY <3>2 DEF Access
    <3>5. Y1' = Y1 + 1
      BY <2>2, <2>4, <3>1, ScreenFits
    <3>6. Aimed(c)'
      <4>1. \A p \in Pixels : Hit(p)' => p \in Shape(c)
        BY <1>3, <1>4, <2>4, <3>3
      <4> QED
        BY <3>4, <4>1 DEF Aimed
    <3>7. VlineInv(c)'
      <4>1. ASSUME NEW p \in Shape(c), p[2] < Y1' PROVE Reached(p, c)'
        <5>1. p \in Pixels /\ p[1] = X1 /\ p[2] \in Int /\ p = <<p[1], p[2]>>
          BY <1>4, <1>6
        <5>2. CASE p[2] < Y1
          BY <1>3, <1>5, <5>2
        <5>3. CASE ~(p[2] < Y1)
          <6>1. p = <<X1, Y1>>
            BY <1>3, <3>5, <4>1, <5>1, <5>3
          <6> QED
            BY <3>3, <5>1, <6>1 DEF Reached
        <5> QED
          BY <5>2, <5>3
      <4>2. c.y1 <= Y1' /\ Y1' <= Y2
        BY <1>2, <1>3, <2>4, <3>5
      <4> QED
        BY <1>3, <2>2, <2>3, <4>1, <4>2 DEF VlineInv
    <3> QED
      BY <2>2, <3>2, <3>6, <3>7
  <2>5. CASE ~(Y1 < Y2)
    <3>1. ~Sram_Out'.write /\ CurrentState' = "Idle"
      BY <2>1, <2>5 DEF Access
    <3>2. \A p \in Shape(c) : p[2] < Y1
      BY <1>2, <1>3, <1>4, <1>6, <2>5
    <3>3. Covered(c)'
      BY <1>3, <1>5, <3>2 DEF Covered
    <3> QED
      BY <2>2, <3>1, <3>3 DEF Aimed
  <2> QED
    BY <2>4, <2>5
<1> QED
  BY <1>7, <1>8

\* A rectangle starts at its upper left pixel.
LEMMA RectangleBegins ==
    ASSUME TypeOK, HandshakeInv, Next, CurrentState = "DrawRectangle",
           NEW CONSTANT c \in Calls, Accesses(c) # <<>>,
           c.fn = "WriteFilledRectangle", AllWritten(c)
    PROVE  /\ CurrentState' = "DrawRectangle1" /\ RectangleInv(c)'
           /\ Colour' = Colour /\ Aimed(c)'
<1>1. DrawRectangle
  BY DrawingStep DEF Next
<1>2. Clocked(0, 0) /\ ~Sram_Out'.write
  BY <1>1 DEF DrawRectangle, NoAccess, Access
<1>3. /\ X1' = Wrap(X1 + 0) /\ Y1' = Wrap(Y1 + 0) /\ X2' = X2 /\ Y2' = Y2
      /\ Colour' = Colour
  BY <1>2, WorkingClock
<1>4. X1' = X1 /\ Y1' = Y1
  BY <1>3, WordKept DEF TypeOK, ChipTypeOK
<1>5. /\ X1 = c.x1 /\ Y1 = c.y1 /\ X2 = c.x2 /\ Y2 = c.y2
      /\ c.x1 \in Int /\ c.y1 \in Int /\ c.x2 \in Int /\ c.y2 \in Int
      /\ c.x1 <= c.x2 /\ c.y1 <= c.y2
  BY RegistersOfDrawing, CallChecks
<1>6. x' = X1 /\ CurrentState' = "DrawRectangle1"
  BY <1>1, <1>5 DEF DrawRectangle, Goto
<1>7. \A p \in Pixels : p[1] \in Int /\ p[2] \in Int
  BY ScreenFits DEF Pixels
<1>8. \A p \in Shape(c) : ~(p[2] < c.y1) /\ ~(p[1] < c.x1)
  BY <1>5, <1>7, ShapePixels DEF Counted
<1>9. RowInv(c)'
  BY <1>3, <1>4, <1>5, <1>8 DEF RowInv
<1>10. RectangleInv(c)'
  BY <1>3, <1>4, <1>5, <1>6, <1>8, <1>9 DEF RectangleInv
<1> QED
  BY <1>2, <1>3, <1>6, <1>10 DEF Aimed

\* A row of it is a horizontal run, whose place is in x.
LEMMA RowStep ==
    ASSUME TypeOK, HandshakeInv, PendingInv, Next, CurrentState = "DrawRectangle1",
           NEW CONSTANT c \in Calls, inFlight = {c}, Accesses(c) # <<>>,
           c.fn = "WriteFilledRectangle", Colour = c.colour, RectangleInv(c)
    PROVE  /\ CurrentState' = "DrawRectangle1" => RectangleInv(c)'
           /\ CurrentState' \in {"DrawRectangle1", "DrawRectangle2"}
           /\ CurrentState' = "DrawRectangle2" =>
                 RowInv(c)' /\ \A p \in Shape(c) : p[2] = Y1' => Reached(p, c)'
           /\ Colour' = Colour /\ Aimed(c)'
<1>1. DrawRectangle1
  BY DrawingStep DEF Next
<1>2. /\ c.x1 \in 0 .. XRES - 1 /\ c.y1 \in 0 .. YRES - 1
      /\ c.x2 \in 0 .. XRES - 1 /\ c.y2 \in 0 .. YRES - 1
  BY CallChecks DEF OnScreen, check_if_point_is_on_screen
<1>3. /\ X1 = c.x1 /\ X2 = c.x2 /\ Y2 = c.y2 /\ x \in Int /\ Y1 \in Int
      /\ c.y1 <= Y1 /\ Y1 <= Y2 /\ c.x1 <= x /\ x <= X2 + 1
      /\ \A p \in Shape(c) : p[2] < Y1 => Reached(p, c)
      /\ \A p \in Shape(c) : p[2] = Y1 /\ p[1] < x => Reached(p, c)
  BY WordType DEF RectangleInv, RowInv, TypeOK, ChipTypeOK
<1>4. /\ Shape(c) \subseteq Pixels
      /\ \A p \in Pixels : p \in Shape(c) <=> /\ c.x1 <= p[1] /\ p[1] < X2
                                              /\ c.y1 <= p[2] /\ p[2] <= Y2
  BY <1>3, ShapePixels DEF Counted
<1>5. \A p \in Shape(c) : Reached(p, c) => Reached(p, c)'
  BY <1>4, ReachedKept DEF Next, Counted
<1>6. \A p \in Pixels : p[1] \in Int /\ p[2] \in Int
  BY ScreenFits DEF Pixels
<1>7. Clocked(0, 0)
  BY <1>1 DEF DrawRectangle1
<1>8. /\ X1' = Wrap(X1 + 0) /\ Y1' = Wrap(Y1 + 0) /\ X2' = X2 /\ Y2' = Y2
      /\ Colour' = Colour
      /\ ~OKToDraw_L => GraphicsBusy_H'
  BY <1>7, WorkingClock
<1>9. X1' = X1 /\ Y1' = Y1
  BY <1>8, WordKept DEF TypeOK, ChipTypeOK
<1>10. RowInv(c)'
  BY <1>3, <1>5, <1>8, <1>9 DEF RowInv
<1>11. CASE OKToDraw_L
  <2>1. CurrentState' = "DrawRectangle1" /\ ~Sram_Out'.write /\ x' = x
    BY <1>1, <1>11 DEF DrawRectangle1, Stay, Goto, NoAccess, Access, lineRegs
  <2>2. RectangleInv(c)'
    BY <1>3, <1>5, <1>8, <1>9, <1>10, <2>1 DEF RectangleInv
  <2> QED
    BY <1>8, <2>1, <2>2 DEF Aimed
<1>12. CASE ~OKToDraw_L
  <2>1. /\ Access(x < X2, x, Y1, RunLanes(x))
        /\ x' = Wrap(x + RunStep(x))
        /\ CurrentState' = IF x < X2 THEN "DrawRectangle1" ELSE "DrawRectangle2"
    BY <1>1, <1>12 DEF DrawRectangle1, Goto
  <2>2. CASE x < X2
    <3>1. /\ x \in 0 .. Columns - 1 /\ Y1 \in 0 .. Rows - 1 /\ X2 \in 0 .. XRES - 1
      BY <1>2, <1>3, <2>2, ScreenFits
    <3>2. Access(TRUE, x, Y1, RunLanes(x)) /\ CurrentState' = "DrawRectangle1"
      BY <2>1, <2>2
    <3>3. \A p \in Pixels :
             Hit(p)' <=> /\ p[2] = Y1 /\ x <= p[1]
                         /\ p[1] < x + RunStep(x) /\ p[1] < X2
      BY <1>8, <1>12, <2>2, <3>1, <3>2, RunHit
    <3>4. Sram_Out'.data = Colour
      BY <3>2 DEF Access
    <3>5. x + RunStep(x) <= X2 + 1 /\ RunStep(x) \in {1, 2}
      BY <1>3, <2>2, <3>1 DEF RunStep
    <3>6. x' = x + RunStep(x)
      BY <1>2, <1>3, <2>1, <3>1, <3>5, ScreenFits
    <3>7. Aimed(c)'
      <4>1. \A p \in Pixels : Hit(p)' => p \in Shape(c)
        BY <1>2, <1>3, <1>4, <1>6, <3>3
      <4> QED
        BY <3>4, <4>1 DEF Aimed
    <3>8. RectangleInv(c)'
      <4>1. ASSUME NEW p \in Shape(c), p[2] = Y1, p[1] < x' PROVE Reached(p, c)'
        <5>1. p \in Pixels /\ p[1] < X2 /\ p[1] \in Int
          BY <1>4, <1>6
        <5>2. CASE p[1] < x
          BY <1>3, <1>5, <4>1, <5>2
        <5>3. CASE ~(p[1] < x)
          <6>1. Hit(p)'
            BY <1>3, <3>3, <3>6, <4>1, <5>1, <5>3
          <6> QED
            BY <6>1 DEF Reached
        <5> QED
          BY <5>2, <5>3
      <4>2. c.x1 <= x' /\ x' <= X2 + 1
        BY <1>2, <1>3, <3>5, <3>6
      <4> QED
        BY <1>8, <1>9, <1>10, <4>1, <4>2 DEF RectangleInv
    <3> QED
      BY <1>8, <3>2, <3>7, <3>8
  <2>3. CASE ~(x < X2)
    <3>1. ~Sram_Out'.write /\ CurrentState' = "DrawRectangle2"
      BY <2>1, <2>3 DEF Access
    <3>2. \A p \in Shape(c) : p[1] < x
      BY <1>2, <1>3, <1>4, <1>6, <2>3
    <3>3. \A p \in Shape(c) : p[2] = Y1' => Reached(p, c)'
      BY <1>3, <1>5, <1>9, <3>2
    <3> QED
      BY <1>8, <1>10, <3>1, <3>3 DEF Aimed
  <2> QED
    BY <2>2, <2>3
<1> QED
  BY <1>11, <1>12

\* The next row, or the end of the rectangle.
LEMMA NextRowStep ==
    ASSUME TypeOK, HandshakeInv, PendingInv, Next, CurrentState = "DrawRectangle2",
           NEW CONSTANT c \in Calls, inFlight = {c}, Accesses(c) # <<>>,
           c.fn = "WriteFilledRectangle", RowInv(c),
           \A p \in Shape(c) : p[2] = Y1 => Reached(p, c)
    PROVE  /\ CurrentState' = "DrawRectangle1" => RectangleInv(c)'
           /\ CurrentState' \in {"DrawRectangle1", "Idle"} /\ Colour' = Colour
           /\ CurrentState' = "Idle" => Covered(c)'
           /\ Aimed(c)'
<1>1. DrawRectangle2
  BY DrawingStep DEF Next
<1>2. /\ c.x1 \in 0 .. XRES - 1 /\ c.y1 \in 0 .. YRES - 1
      /\ c.x2 \in 0 .. XRES - 1 /\ c.y2 \in 0 .. YRES - 1 /\ c.x1 <= c.x2
  BY CallChecks DEF OnScreen, check_if_point_is_on_screen
<1>3. /\ X1 = c.x1 /\ X2 = c.x2 /\ Y2 = c.y2 /\ Y1 \in Int
      /\ c.y1 <= Y1 /\ Y1 <= Y2
      /\ \A p \in Shape(c) : p[2] < Y1 => Reached(p, c)
  BY WordType DEF RowInv, TypeOK, ChipTypeOK
<1>4. /\ Shape(c) \subseteq Pixels
      /\ \A p \in Shape(c) : c.x1 <= p[1] /\ p[2] <= Y2
  BY <1>3, ShapePixels DEF Counted
<1>5. \A p \in Shape(c) : Reached(p, c) => Reached(p, c)'
  BY <1>4, ReachedKept DEF Next, Counted
<1>6. \A p \in Pixels : p[1] \in Int /\ p[2] \in Int
  BY ScreenFits DEF Pixels
<1>7. /\ Clocked(0, 1) /\ ~Sram_Out'.write /\ x' = X1
      /\ CurrentState' = IF Y1 >= Y2 THEN "Idle" ELSE "DrawRectangle1"
  BY <1>1 DEF DrawRectangle2, NoAccess, Access, Goto
<1>8. /\ X1' = Wrap(X1 + 0) /\ Y1' = Wrap(Y1 + 1) /\ X2' = X2 /\ Y2' = Y2
      /\ Colour' = Colour
  BY <1>7, WorkingClock
<1>9. X1' = X1
  BY <1>8, WordKept DEF TypeOK, ChipTypeOK
<1>10. CASE Y1 >= Y2
  <2>1. \A p \in Shape(c) : p[2] < Y1 \/ p[2] = Y1
    BY <1>2, <1>3, <1>4, <1>6, <1>10
  <2>2. Covered(c)'
    BY <1>3, <1>5, <2>1 DEF Covered
  <2> QED
    BY <1>7, <1>8, <1>10, <2>2 DEF Aimed
<1>11. CASE ~(Y1 >= Y2)
  <2>1. Y1' = Y1 + 1
    BY <1>2, <1>3, <1>8, <1>11, ScreenFits
  <2>2. \A p \in Shape(c) : p[2] < Y1 + 1 => p[2] < Y1 \/ p[2] = Y1
    BY <1>3, <1>4, <1>6
  <2>3. RowInv(c)'
    BY <1>2, <1>3, <1>5, <1>8, <1>9, <1>11, <2>1, <2>2 DEF RowInv
  <2>4. \A p \in Shape(c) : ~(p[1] < c.x1)
    BY <1>2, <1>4, <1>6
  <2>5. RectangleInv(c)'
    BY <1>2, <1>3, <1>7, <1>8, <1>9, <2>3, <2>4 DEF RectangleInv
  <2> QED
    BY <1>7, <1>8, <1>11, <2>5 DEF Aimed
<1> QED
  BY <1>10, <1>11

\* A clock of a chip that draws: the call gets further, or has every pixel
\* reached, and what goes to the SRAM is for it.
LEMMA WorkStep ==
    ASSUME TypeOK, HandshakeInv, RunInv, PaintInv, PendingInv, Next,
           CurrentState \notin RestStates
    PROVE  \E c \in Calls :
              /\ inFlight = {c} /\ inFlight' = {c} /\ Accesses(c) # <<>>
              /\ CurrentState' \notin RestStates => Progress(c)'
              /\ Counted(c) => /\ CurrentState' = "Idle" => Covered(c)'
                               /\ Aimed(c)'
<1> PICK c \in Calls : inFlight = {c} /\ Accesses(c) # <<>> /\ Progress(c)
  BY DEF PaintInv
<1>1. inFlight' = {c}
  BY InFlightKept DEF RestStates
<1>2. c.fn \notin {"ProgramPalette", "ReadAPixel"} /\ c.fn \in FunctionNames
  BY CallChecks DEF RunInv, RestStates
<1>3. /\ Counted(c) <=> CurrentState \in DrawStates
      /\ Counted(c) => Colour = c.colour
      /\ CurrentState \in {"DrawPixel", "DrawRectangle"} => AllWritten(c)
      /\ CurrentState = "DrawPixel" <=> c.fn = "WriteAPixel"
      /\ CurrentState = "DrawHline" <=> c.fn = "WriteHLine"
      /\ CurrentState = "DrawVline" <=> c.fn = "WriteVLine"
      /\ c.fn = "WriteHLine" => HlineInv(c)
      /\ c.fn = "WriteVLine" => VlineInv(c)
      /\ CurrentState = "DrawRectangle1" => RectangleInv(c)
      /\ CurrentState = "DrawRectangle2" => RowInv(c)
      /\ CurrentState = "DrawRectangle2" =>
            \A p \in Shape(c) : p[2] = Y1 => Reached(p, c)
  BY DEF Progress
<1> SUFFICES /\ CurrentState' \notin RestStates => Progress(c)'
             /\ Counted(c) => /\ CurrentState' = "Idle" => Covered(c)'
                              /\ Aimed(c)'
  BY <1>1
<1> USE DEF DrawStates, RestStates, ReadStates
<1>4. CASE CurrentState \notin DrawStates
  <2>1. ~Counted(c)
    BY <1>3, <1>4
  <2>2. CurrentState' \notin RestStates => CurrentState' \notin DrawStates
    BY <1>4, DrawingStep DEF Next
  <2>3. c.fn \in {"WriteLine", "WriteCircle"}
    BY <2>1 DEF Counted
  <2>4. CurrentState' \notin RestStates => Progress(c)'
    BY <2>1, <2>2, <2>3 DEF Progress
  <2> QED
    BY <2>1, <2>4
<1>5. CASE CurrentState = "DrawPixel"
  <2>1. /\ CurrentState' = "DrawPixel" => AllWritten(c)'
        /\ CurrentState' \in {"DrawPixel", "Idle"} /\ Colour' = Colour
        /\ CurrentState' = "Idle" => Covered(c)'
        /\ Aimed(c)'
    BY <1>3, <1>5, PixelStep
  <2>2. CurrentState' \notin RestStates => Progress(c)'
    BY <1>3, <1>5, <2>1 DEF Progress
  <2> QED
    BY <2>1, <2>2
<1>6. CASE CurrentState = "DrawHline"
  <2>1. /\ CurrentState' = "DrawHline" => HlineInv(c)'
        /\ CurrentState' \in {"DrawHline", "Idle"} /\ Colour' = Colour
        /\ CurrentState' = "Idle" => Covered(c)'
        /\ Aimed(c)'
    BY <1>3, <1>6, HlineStep
  <2>2. CurrentState' \notin RestStates => Progress(c)'
    BY <1>3, <1>6, <2>1 DEF Progress
  <2> QED
    BY <2>1, <2>2
<1>7. CASE CurrentState = "DrawVline"
  <2>1. /\ CurrentState' = "DrawVline" => VlineInv(c)'
        /\ CurrentState' \in {"DrawVline", "Idle"} /\ Colour' = Colour
        /\ CurrentState' = "Idle" => Covered(c)'
        /\ Aimed(c)'
    BY <1>3, <1>7, VlineStep
  <2>2. CurrentState' \notin RestStates => Progress(c)'
    BY <1>3, <1>7, <2>1 DEF Progress
  <2> QED
    BY <2>1, <2>2
<1>8. ASSUME CurrentState \in {"DrawRectangle", "DrawRectangle1", "DrawRectangle2"}
      PROVE  c.fn = "WriteFilledRectangle" /\ Colour = c.colour
  BY <1>2, <1>3, <1>8 DEF Counted, FunctionNames
<1>9. CASE CurrentState = "DrawRectangle"
  <2>1. /\ CurrentState' = "DrawRectangle1" /\ RectangleInv(c)'
        /\ Colour' = Colour /\ Aimed(c)'
    BY <1>3, <1>8, <1>9, RectangleBegins
  <2>2. Progress(c)'
    BY <1>3, <1>8, <1>9, <2>1 DEF Progress
  <2> QED
    BY <2>1, <2>2
<1>10. CASE CurrentState = "DrawRectangle1"
  <2>1. /\ CurrentState' = "DrawRectangle1" => RectangleInv(c)'
        /\ CurrentState' \in {"DrawRectangle1", "DrawRectangle2"}
        /\ CurrentState' = "DrawRectangle2" =>
              RowInv(c)' /\ \A p \in Shape(c) : p[2] = Y1' => Reached(p, c)'
        /\ Colour' = Colour /\ Aimed(c)'
    BY <1>3, <1>8, <1>10, RowStep
  <2>2. Progress(c)'
    BY <1>3, <1>8, <1>10, <2>1 DEF Progress
  <2> QED
    BY <2>1, <2>2
<1>11. CASE CurrentState = "DrawRectangle2"
  <2>1. /\ CurrentState' = "DrawRectangle1" => RectangleInv(c)'
        /\ CurrentState' \in {"DrawRectangle1", "Idle"} /\ Colour' = Colour
        /\ CurrentState' = "Idle" => Covered(c)'
        /\ Aimed(c)'
    BY <1>3, <1>8, <1>11, NextRowStep
  <2>2. CurrentState' \notin RestStates => Progress(c)'
    BY <1>3, <1>8, <1>11, <2>1 DEF Progress
  <2> QED
    BY <2>1, <2>2
<1> QED
  BY <1>4, <1>5, <1>6, <1>7, <1>9, <1>10, <1>11

LEMMA PaintStep ==
    ASSUME TypeOK, HandshakeInv, IssuedInv, RunInv, PaintInv, PendingInv, Next
    PROVE  PaintInv'
<1> SUFFICES ASSUME CurrentState' \notin RestStates
             PROVE  \E c \in Calls :
                       inFlight' = {c} /\ Accesses(c) # <<>> /\ Progress(c)'
  BY DEF PaintInv
<1>1. CASE CurrentState = "ProcessCommand"
  BY <1>1, PaintBegins
<1>2. CASE CurrentState # "ProcessCommand"
  <2>1. CurrentState \notin RestStates
    BY <1>2, ChipHandshake, StateStep DEF Next, RestStates, ReadStates
  <2> QED
    BY <2>1, WorkStep
<1> QED
  BY <1>1, <1>2

LEMMA PendingStep ==
    ASSUME TypeOK, HandshakeInv, RunInv, PaintInv, PendingInv, Next
    PROVE  PendingInv'
<1> SUFFICES ASSUME Sram_Out'.write
             PROVE  /\ GraphicsBusy_H' /\ inFlight' # {}
                    /\ \A c \in inFlight' : Counted(c) => Aimed(c)'
  BY DEF PendingInv
<1>1. ~OKToDraw_L /\ CurrentState \notin RestStates
  BY WriteStep DEF Next
<1>2. GraphicsBusy_H'
  BY <1>1, SharedStep DEF Next, RestStates
<1>3. PICK c \in Calls : inFlight' = {c} /\ (Counted(c) => Aimed(c)')
  BY <1>1, WorkStep
<1> QED
  BY <1>2, <1>3

\* A command begins a call only after its wait has seen the chip idle.
LEMMA AloneStep ==
    ASSUME TypeOK, HandshakeInv, FlightInv, AloneInv, Next
    PROVE  AloneInv'
<1> SUFFICES ASSUME HeadWrites' PROVE inFlight' = {}
  BY DEF AloneInv
<1>1. WAIT_FOR_GRAPHICS.rw = "read"
  BY DEF WAIT_FOR_GRAPHICS, Read
<1>2. CASE CallFunction
  BY <1>1, <1>2, AccessesFollowWait DEF HeadWrites
<1>3. CASE todo' = todo /\ ~CommandIssued
  BY <1>3 DEF HeadWrites, AloneInv, Next, Track
<1>4. CASE /\ EndAccess /\ chipselect /\ bus_enable /\ todo # <<>>
           /\ todo' = Tail(todo) /\ ~Busy(Head(todo))
  <2>1. Tail(todo) # <<>> /\ Head(Tail(todo)).rw = "write"
    BY <1>4 DEF HeadWrites
  <2>2. 1 \in 1 .. Len(todo) - 1 /\ todo[1] = Head(todo)
        /\ todo[1 + 1] = Head(Tail(todo))
    BY <1>4, <2>1 DEF TypeOK
  <2>3. \/ Head(todo) = WAIT_FOR_GRAPHICS
        \/ Head(todo).rw = "write" /\ Head(todo).reg # "Command"
    BY <2>1, <2>2 DEF HandshakeInv, WritesFollowWait
  <2>4. ~CommandIssued
    BY <1>1, <2>3 DEF CommandIssued
  <2>5. CASE Head(todo) = WAIT_FOR_GRAPHICS
    <3>1. Idle_H /\ ~HeadWrites
      BY <1>1, <1>4, <2>5 DEF Busy, HeadWrites
    <3>2. ~CommandWritten_H
      BY <1>4, <3>1 DEF HandshakeInv
    <3>3. inFlight = {}
      BY <3>1, <3>2 DEF FlightInv
    <3> QED
      BY <2>4, <3>3 DEF Next, Track
  <2>6. CASE Head(todo).rw = "write"
    BY <1>4, <2>4, <2>6 DEF HeadWrites, AloneInv, Next, Track
  <2> QED
    BY <2>3, <2>5, <2>6
<1> QED
  BY <1>2, <1>3, <1>4, CallStep

\* The busy flag is about to be cleared of a chip that has reached everything.
LEMMA PaintedStep ==
    ASSUME TypeOK, HandshakeInv, IssuedInv, RunInv, PaintInv, PendingInv, Next
    PROVE  PaintedInv'
<1> SUFFICES ASSUME CurrentState' = "Idle", ~Idle_H',
                    NEW CONSTANT c \in inFlight', Counted(c)
             PROVE  Covered(c)'
  BY DEF PaintedInv, CommandDone
<1>1. CurrentState # "Idle" /\ inFlight' = inFlight
  BY IdleStep, InFlightKept
<1>2. ASSUME c.fn \in {"ProgramPalette", "ReadAPixel"} PROVE Covered(c)'
  BY <1>2 DEF Covered, Shape
<1>3. CASE CurrentState = "ProcessCommand"
  <2>1. c \in Calls /\ AllWritten(c)
    BY <1>1, <1>3, Decoded
  <2>2. CurrentState' = FirstState(Command)
    BY <1>3, StateStep DEF Next
  <2>3. c.fn \in FunctionNames
    BY <2>1, CallChecks DEF AllWritten
  <2>4. \/ c.fn \in {"ProgramPalette", "ReadAPixel"}
        \/ Command \in {PutPixel, Hline, Vline, Rectangle}
    BY <2>1, <2>3, RegistersOfDrawing DEF Counted, FunctionNames
  <2>5. Command \notin {PutPixel, Hline, Vline, Rectangle}
    BY <2>2 DEF FirstState, PutPixel, GetPixel, ProgramPallette, Hline, Vline,
                ALine, Rectangle, Circle
  <2> QED
    BY <1>2, <2>4, <2>5
<1>4. CASE CurrentState \in {"PalletteReProgram"} \cup ReadStates
  BY <1>1, <1>2, <1>4 DEF RunInv, ReadStates
<1>5. CASE CurrentState \notin RestStates
  BY <1>1, <1>5, WorkStep
<1> QED
  BY <1>1, <1>3, <1>4, <1>5 DEF RestStates

LEMMA PassedStep ==
    ASSUME TypeOK, HandshakeInv, RestOfCall, PassedInv, Next
    PROVE  PassedInv'
<1>1. CASE CommandIssued
  <2>1. inFlight' = {call} /\ todo # <<>>
    BY <1>1, IssueStep DEF Next, Track, HeadWrites
  <2>2. Accesses(call) # <<>>
    BY <2>1, Position
  <2> QED
    BY <2>1, <2>2 DEF PassedInv
<1>2. CASE ~CommandIssued
  BY <1>2 DEF Next, Track, PassedInv
<1> QED
  BY <1>1, <1>2

LEMMA DrawInit == Init => DrawInv
BY DEF Init, ChipInit, DrawInv, PaintInv, RestStates, PendingInv, AloneInv,
       HeadWrites, PaintedInv, CommandDone, PassedInv

LEMMA DrawInvStep ==
    TypeOK /\ HandshakeInv /\ CallInv /\ DrawInv /\ [Next]_vars => DrawInv'
<1> SUFFICES ASSUME TypeOK, HandshakeInv, CallInv, DrawInv, [Next]_vars
             PROVE  DrawInv'
  OBVIOUS
<1>1. CASE Next
  <2>1. PaintInv' /\ PendingInv'
    BY <1>1, PaintStep, PendingStep DEF CallInv, DrawInv
  <2>2. AloneInv' /\ PaintedInv' /\ PassedInv'
    BY <1>1, AloneStep, PaintedStep, PassedStep DEF CallInv, DrawInv
  <2> QED
    BY <2>1, <2>2 DEF DrawInv
<1>2. CASE UNCHANGED vars
  <2>1. UNCHANGED <<chipVars, todo, inFlight>> /\ UNCHANGED lineRegs
    BY <1>2 DEF vars, driverVars, chipVars
  <2>2. /\ UNCHANGED <<CurrentState, Idle_H, Command, X1, Y1, X2, Y2, Colour, x>>
        /\ UNCHANGED <<Sram_Out, GraphicsBusy_H, sram, todo, inFlight>>
    BY <2>1 DEF chipVars, lineRegs
  <2> QED
    BY <2>2 DEF DrawInv, PaintInv, Progress, HlineInv, VlineInv, RectangleInv,
       RowInv, PendingInv, Aimed, AloneInv, HeadWrites, PaintedInv, CommandDone,
       PassedInv, Covered, Reached, Hit, AllWritten, Written, Holds
<1> QED
  BY <1>1, <1>2

\* How far the drawing of the call in flight has got, on every clock.
THEOREM DrawInvariant == Spec => []DrawInv
<1>1. Init => TypeOK /\ HandshakeInv /\ CallInv /\ DrawInv
  BY TypeInit, HandshakeInit, CallInit, DrawInit
<1>2. TypeOK /\ HandshakeInv /\ CallInv /\ DrawInv /\ [Next]_vars
        => TypeOK' /\ HandshakeInv' /\ CallInv' /\ DrawInv'
  BY InvStep, CallInvStep, DrawInvStep
<1> QED
  BY <1>1, <1>2, PTL DEF Spec
-------------------------------------------------------------------------------
(* What the calls promise.                                                  *)

\* Whatever the other calls draw, a call whose pixels are counted colours no
\* pixel but its own, and has coloured all of them when its command is done.
CountedShape ==
    \A c \in inFlight : Counted(c) =>
        /\ \A p \in Pixels : sram'[p] # sram[p] =>
              p \in Shape(c) /\ sram'[p] = c.colour
        /\ CommandDone => \A p \in Shape(c) : sram'[p] = c.colour
CountedDrawn == [][CountedShape]_vars

LEMMA CountedStep ==
    ASSUME TypeOK, CallInv, DrawInv, Next
    PROVE  CountedShape
<1> SUFFICES ASSUME NEW c \in inFlight, Counted(c)
             PROVE  /\ \A p \in Pixels : sram'[p] # sram[p] =>
                          p \in Shape(c) /\ sram'[p] = c.colour
                    /\ CommandDone => \A p \in Shape(c) : sram'[p] = c.colour
  BY DEF CountedShape
<1>1. /\ \A p \in Pixels : Reached(p, c) => sram'[p] = c.colour
      /\ \A p \in Pixels : sram'[p] # sram[p] =>
            p \in Shape(c) /\ sram'[p] = c.colour
  BY Painting DEF DrawInv, Next
<1>2. Shape(c) \subseteq Pixels
  BY ShapePixels DEF TypeOK, DrawInv, PassedInv
<1>3. CommandDone => \A p \in Shape(c) : Reached(p, c)
  BY DEF DrawInv, PaintedInv, Covered
<1> QED
  BY <1>1, <1>2, <1>3

THEOREM CountedCorrect == Spec => CountedDrawn
<1>1. TypeOK /\ HandshakeInv /\ CallInv /\ DrawInv /\ [Next]_vars => [CountedShape]_vars
  BY CountedStep
<1> QED
  BY <1>1, TypeCorrect, HandshakeCorrect, CallInvariant, DrawInvariant, PTL
     DEF Spec, CountedDrawn

\* A clock of the model is a step of the canvas, or changes nothing of it.
LEMMA CanvasStep ==
    ASSUME \A c \in Calls : Counted(c), TypeOK, HandshakeInv, CallInv, DrawInv, Next
    PROVE  [Promised!Next]_<<sram, {Job[c] : c \in inFlight}>>
<1>1. inFlight \subseteq Calls
  BY DEF TypeOK
<1>2. \A c \in inFlight : Job[c].pixels = Shape(c) /\ Job[c].colour = c.colour
  BY <1>1 DEF Job
<1>3. ASSUME NEW c \in inFlight PROVE Promised!PaintedBy(Job[c])
  BY <1>1, <1>2, <1>3, CountedStep DEF CountedShape, Promised!PaintedBy
<1>4. inFlight = {} => sram' = sram
  BY SramKept DEF DrawInv, PendingInv, Next
<1>5. CASE CommandIssued
  <2>1. inFlight = {} /\ inFlight' = {call} /\ call \in Calls
    BY <1>5, IssueStep DEF DrawInv, AloneInv, Next, Track, TypeOK
  <2>2. Promised!Begin
    BY <1>4, <2>1 DEF Promised!Begin
  <2> QED
    BY <2>2 DEF Promised!Next
<1>6. CASE inFlight = {} /\ ~CommandIssued
  BY <1>4, <1>6 DEF Next, Track
<1>7. CASE inFlight # {} /\ ~CommandIssued /\ CommandDone
  <2> PICK c \in inFlight : TRUE
    BY <1>7
  <2>1. inFlight' = {}
    BY <1>7 DEF Next, Track
  <2>2. \A p \in Shape(c) : sram'[p] = c.colour
    BY <1>1, <1>7, CountedStep DEF CountedShape
  <2>3. Promised!Finish
    BY <1>2, <1>3, <2>1, <2>2 DEF Promised!Finish
  <2> QED
    BY <2>3 DEF Promised!Next
<1>8. CASE inFlight # {} /\ ~CommandIssued /\ ~CommandDone
  <2>1. inFlight' = inFlight
    BY <1>8 DEF Next, Track
  <2>2. Promised!Paint
    BY <1>3, <1>8, <2>1 DEF Promised!Paint
  <2> QED
    BY <2>2 DEF Promised!Next
<1> QED
  BY <1>5, <1>6, <1>7, <1>8

\* The chip, its driver and the display implement the canvas, for an
\* application that draws no Bresenham lines and no circles.
THEOREM ShapesCorrect ==
    ASSUME \A c \in Calls : Counted(c)
    PROVE  Spec => DrawsItsShape
<1>1. Init => Promised!Init
  BY DEF Init, Promised!Init
<1>2. TypeOK /\ HandshakeInv /\ CallInv /\ DrawInv /\ [Next]_vars
        => [Promised!Next]_<<sram, {Job[c] : c \in inFlight}>>
  <2>1. CASE UNCHANGED vars
    BY <2>1 DEF vars, chipVars, driverVars
  <2> QED
    BY <2>1, CanvasStep
<1> QED
  BY <1>1, <1>2, TypeCorrect, HandshakeCorrect, CallInvariant, DrawInvariant, PTL
     DEF Spec, DrawsItsShape, Promised!Spec
===============================================================================

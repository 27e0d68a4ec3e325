---------------------------- MODULE GraphicsDriver ----------------------------
(***************************************************************************)
(* The drawing functions of graphics.c running on NIOS, the bus bridge     *)
(* that carries their register accesses, and the drawing chip, one step    *)
(* per 50 MHz clock.                                                       *)
(*                                                                         *)
(* A function is the sequence of its register accesses.  NIOS may let any  *)
(* number of clocks pass between two of them; WAIT_FOR_GRAPHICS repeats    *)
(* its status read until bit 0 is set.                                     *)
(***************************************************************************)
EXTENDS GraphicsController, Shapes

CONSTANT Calls   \* the calls the application may make; x2 is also a length or
                 \* a radius, y2 a length, x1 and y1 the halves of an RGB value

FunctionNames == {"WriteAPixel", "ReadAPixel", "WriteHLine", "WriteVLine",
                  "WriteLine", "ProgramPalette", "WriteFilledRectangle",
                  "WriteCircle"}

ASSUME CallsAssumption ==
    Calls \subseteq [fn : FunctionNames, x1 : Int, y1 : Int, x2 : Int, y2 : Int,
                    colour : Colours]

\* The visible screen lies in the video memory, and a register can name each
\* of its columns and rows, and the column after the last: a run stops there.
ASSUME MemoryAssumption ==
    /\ XRES <= Columns /\ XRES < Word \div 2
    /\ YRES <= Rows /\ YRES <= Word \div 2

VARIABLES
    chipselect,  \* NIOS is making the access at the head of todo
    acknowledge, \* bus_enable, one clock late
    todo,        \* the accesses left of the function being run
    call,        \* the function being run, or the last one
    inFlight,    \* history: the call whose command the chip has not completed
    returned     \* what ReadAPixel last returned: {} or {colour}

driverVars == <<chipselect, acknowledge, todo, call, inFlight, returned>>
vars == <<busVars, displayVars, chipVars, driverVars>>
-------------------------------------------------------------------------------
(* The functions.                                                           *)

Read(r)       == [rw |-> "read",  reg |-> r, val |-> 0]
WriteUnwrapped(r, val) == [rw |-> "write", reg |-> r, val |-> val]
Write(r, val) == [rw |-> "write", reg |-> r, val |-> Wrap(val)]
WAIT_FOR_GRAPHICS == Read("Command")

clear_screen(colour) == [fn |-> "WriteFilledRectangle", x1 |-> 0, y1 |-> 0,
                         x2 |-> XRES - 1, y2 |-> YRES - 1, colour |-> colour]

OnScreen(px, py) == check_if_point_is_on_screen(px, py)
Checked(checks, accesses) == IF checks THEN accesses ELSE <<>>

WriteAPixel(x1, y1, colour) ==
    Checked(OnScreen(x1, y1),
        << WAIT_FOR_GRAPHICS, Write("X1", x1), Write("Y1", y1),
           Write("Colour", colour), Write("Command", PutPixel) >>)

ReadAPixel(x1, y1) ==
    Checked(OnScreen(x1, y1),
        << WAIT_FOR_GRAPHICS, Write("X1", x1), Write("Y1", y1),
           Write("Command", GetPixel), WAIT_FOR_GRAPHICS, Read("Colour") >>)

WriteHLine(x1, y1, length, colour) ==
    Checked(length >= 0 /\ OnScreen(x1, y1) /\ OnScreen(x1 + length, y1),
        << WAIT_FOR_GRAPHICS, Write("X1", x1), Write("Y1", y1),
           Write("X2", x1 + length), Write("Colour", colour),
           Write("Command", Hline) >>)

WriteVLine(x1, y1, length, colour) ==
    Checked(length >= 0 /\ OnScreen(x1, y1) /\ OnScreen(x1, y1 + length),
        << WAIT_FOR_GRAPHICS, Write("X1", x1), Write("Y1", y1),
           Write("Y2", y1 + length), Write("Colour", colour),
           Write("Command", Vline) >>)

WriteLine(x1, y1, x2, y2, colour) ==
    Checked(OnScreen(x1, y1) /\ OnScreen(x2, y2),
        << WAIT_FOR_GRAPHICS, Write("X1", x1), Write("Y1", y1),
           Write("X2", x2), Write("Y2", y2),
           Write("Colour", colour), Write("Command", ALine) >>)

WriteFilledRectangle(x1, y1, x2, y2, colour) ==
    Checked(x1 <= x2 /\ y1 <= y2 /\ OnScreen(x1, y1) /\ OnScreen(x2, y2),
        << WAIT_FOR_GRAPHICS, Write("X1", x1), Write("Y1", y1),
           Write("X2", x2), Write("Y2", y2),
           Write("Colour", colour), Write("Command", Rectangle) >>)

\* The high and the low half of the RGB value go to X1 and Y1.
ProgramPalette(number, high, low) ==
    << WAIT_FOR_GRAPHICS, Write("Colour", number), Write("X1", high),
       Write("Y1", low), Write("Command", ProgramPallette) >>

\* Its checks are compiled out.
WriteCircle(x0, y0, radius, colour) ==
    << WAIT_FOR_GRAPHICS, Write("X1", x0), Write("Y1", y0), Write("X2", radius),
       Write("Colour", colour), Write("Command", Circle) >>

\* The accesses of a call: none if it fails its checks.
Accesses(c) ==
    CASE c.fn = "WriteAPixel" -> WriteAPixel(c.x1, c.y1, c.colour)
      [] c.fn = "ReadAPixel"  -> ReadAPixel(c.x1, c.y1)
      [] c.fn = "WriteHLine"  -> WriteHLine(c.x1, c.y1, c.x2, c.colour)
      [] c.fn = "WriteVLine"  -> WriteVLine(c.x1, c.y1, c.y2, c.colour)
      [] c.fn = "WriteLine"   -> WriteLine(c.x1, c.y1, c.x2, c.y2, c.colour)
      [] c.fn = "WriteFilledRectangle" ->
            WriteFilledRectangle(c.x1, c.y1, c.x2, c.y2, c.colour)
      [] c.fn = "ProgramPalette" -> ProgramPalette(c.colour, c.x1, c.y1)
      [] c.fn = "WriteCircle" -> WriteCircle(c.x1, c.y1, c.x2, c.colour)

\* The pixels a call is meant to colour.
Shape(c) ==
    CASE c.fn = "WriteAPixel" -> {<<c.x1, c.y1>>}
      [] c.fn = "WriteHLine" -> TestHLine(c.x1, c.y1, c.x2)
      [] c.fn = "WriteVLine" -> TestVLine(c.x1, c.y1, c.y2)
      [] c.fn = "WriteLine" -> TestLine(c.x1, c.y1, c.x2, c.y2)
      [] c.fn = "WriteFilledRectangle" ->
            TestFilledRectangle(c.x1, c.y1, c.x2, c.y2)
      [] c.fn = "WriteCircle" -> TestCircle(c.x1, c.y1, c.x2)
      [] OTHER -> {}
-------------------------------------------------------------------------------
(* The bridge.  An access takes the bus two clocks after NIOS asserts it    *)
(* and ends with the acknowledge, which is bus_enable through a flip-flop.  *)

BusyUnwaited(access) == FALSE
Busy(access) == access = WAIT_FOR_GRAPHICS /\ ~Idle_H

\* NIOS calls the next function; one that fails its checks returns at once.
CallFunction ==
    /\ todo = <<>>
    /\ \E c \in Calls : call' = c /\ todo' = Accesses(c)
    /\ UNCHANGED <<chipselect, busVars, returned>>

\* NIOS is busy with something other than the bus.
Compute == UNCHANGED <<chipselect, busVars, todo, call, returned>>

StartAccess ==
    /\ todo # <<>> /\ ~chipselect /\ ~bus_enable
    /\ chipselect' = TRUE
    /\ UNCHANGED <<busVars, todo, call, returned>>

DriveBus ==
    /\ chipselect /\ ~acknowledge
    /\ bus_enable' = TRUE
    /\ rw' = Head(todo).rw /\ address' = Head(todo).reg
    /\ write_data' = Head(todo).val
    /\ UNCHANGED <<chipselect, todo, call, returned>>

EndAccess ==
    /\ chipselect /\ acknowledge
    /\ chipselect' = FALSE /\ bus_enable' = FALSE
    /\ todo' = IF Busy(Head(todo)) THEN todo ELSE Tail(todo)
    /\ returned' = IF Head(todo) = Read("Colour") THEN {Colour_Latch} ELSE returned
    /\ UNCHANGED <<rw, address, write_data, call>>

BusStep == \/ CallFunction
           \/ ~chipselect /\ Compute
           \/ StartAccess \/ DriveBus \/ EndAccess

\* A command is in flight from the clock that ends its write to the one in
\* which the idle chip clears its busy flag.
CommandIssued == chipselect /\ acknowledge /\ Head(todo).reg = "Command"
                                           /\ Head(todo).rw = "write"
CommandDone   == CurrentState = "Idle" /\ ~Idle_H
Track == inFlight' = IF CommandIssued THEN {call}
                     ELSE IF CommandDone THEN {} ELSE inFlight

Init ==
    /\ ChipInit /\ DisplayInit
    /\ bus_enable = FALSE /\ rw = "read" /\ address = "Command" /\ write_data = 0
    /\ chipselect = FALSE /\ acknowledge = FALSE
    /\ todo = <<>> /\ call \in Calls /\ inFlight = {} /\ returned = {}

Next == ChipStep /\ DisplayStep /\ BusStep /\ acknowledge' = bus_enable /\ Track

Spec == Init /\ [][Next]_vars
-------------------------------------------------------------------------------
(* Properties.                                                              *)

\* An access writes the Colour register with a palette number only.
AccessType ==
    {a \in [rw : {"read", "write"}, reg : RegisterNames, val : Words] :
        a.rw = "write" /\ a.reg = "Colour" => a.val \in Colours}

TypeOK ==
    /\ ChipTypeOK /\ DisplayTypeOK
    /\ bus_enable \in BOOLEAN /\ chipselect \in BOOLEAN /\ acknowledge \in BOOLEAN
    /\ [rw |-> rw, reg |-> address, val |-> write_data] \in AccessType
    /\ todo \in Seq(AccessType)
    /\ call \in Calls /\ inFlight \subseteq Calls
    /\ returned \subseteq Colours

\* GraphicsController.vhd asks its user to see the chip idle before writing to
\* ANY register: a register write is on the bus only while the chip is in its
\* Idle state with no command waiting, but for the command being written.
RegistersWrittenWhenIdle ==
    bus_enable /\ rw = "write" =>
        /\ CurrentState = "Idle"
        /\ CommandWritten_H => address = "Command"

\* Why it holds, as an inductive invariant.  The danger is the window between
\* the end of a command's write and the chip going busy, when the status bit
\* still says idle; the bus is too slow for a status read to fall into it.
HeadWrites == todo # <<>> /\ Head(todo).rw = "write"

\* A function writes registers only after its wait, and after its command it
\* waits again or ends.
WritesFollowWait ==
    \A k \in 1 .. Len(todo) - 1 :
        todo[k + 1].rw = "write" =>
            \/ todo[k] = WAIT_FOR_GRAPHICS
            \/ todo[k].rw = "write" /\ todo[k].reg # "Command"

BusInv ==
    /\ chipselect => todo # <<>>
    /\ bus_enable => /\ chipselect
                     /\ rw = Head(todo).rw /\ address = Head(todo).reg
                     /\ write_data = Head(todo).val
    /\ chipselect /\ acknowledge => bus_enable

HandshakeInv ==
    /\ BusInv /\ WritesFollowWait
    \* NIOS writes registers only of a chip that has nothing to do
    /\ HeadWrites => /\ CurrentState = "Idle" /\ Idle_H
                     /\ CommandWritten_H => /\ chipselect /\ acknowledge
                                            /\ Head(todo).reg = "Command"
    \* a command waiting to be taken up: the status still says idle
    /\ CommandWritten_H => Idle_H /\ CurrentState \in {"Idle", "ProcessCommand"}
    /\ CommandWritten_H /\ CurrentState = "Idle" => HeadWrites \/ ~chipselect
    /\ CurrentState = "ProcessCommand" => ~bus_enable
    /\ Idle_H => CurrentState \in {"Idle", "ProcessCommand"}

\* ReadAPixel returns the colour its pixel has when it returns, although the
\* display may have taken the SRAM back in the middle of the read.
ReadReturnsPixel ==
    [][EndAccess /\ Head(todo) = Read("Colour")
          => returned' = {sram[<<call.x1, call.y1>>]}]_vars

\* The palette changes only as the ProgramPalette call in flight asks, and has
\* changed when that call's command is done: the wait for vertical sync is long,
\* and the next call must not overwrite the X1, Y1 and Colour registers in it.
Programmed(c) == <<Wrap(c.x1), Wrap(c.y1)>>
PaletteProgrammed ==
    [][/\ palette' # palette => \E c \in inFlight :
             /\ c.fn = "ProgramPalette"
             /\ palette' = [palette EXCEPT ![c.colour] = Programmed(c)]
       /\ CommandDone => \A c \in inFlight :
             c.fn = "ProgramPalette" => palette[c.colour] = Programmed(c)]_vars

\* graphics.c says of clear_screen that it writes the entire screen: when its
\* command is done, every visible pixel has the colour.
EntireScreenCleared ==
    [][CommandDone => \A c \in inFlight : c = clear_screen(c.colour) =>
                         \A p \in Screen : sram'[p] = c.colour]_vars

\* Every call colours exactly the pixels of its shape, whatever the display
\* and NIOS do meanwhile, and no command is lost or run twice.
Job == [c \in Calls |-> [pixels |-> Shape(c), colour |-> c.colour]]
Promised == INSTANCE Canvas WITH
                Area <- Pixels, Jobs <- {Job[c] : c \in Calls},
                canvas <- sram, job <- {Job[c] : c \in inFlight}
DrawsItsShape == Promised!Spec
-------------------------------------------------------------------------------
(* Liveness.  The clock never stops, NIOS goes on with the function it is   *)
(* in, and the display keeps blanking and keeps starting new frames.        *)

Fairness == /\ WF_vars(Next)
            /\ WF_vars(Next /\ StartAccess)
            /\ WF_vars(Next /\ blank = 0 /\ blank' # 0)
            /\ SF_vars(Next /\ ~VSync_L')
FairSpec == Spec /\ Fairness

\* Every call returns: WAIT_FOR_GRAPHICS never spins for ever.
CallsReturn == todo # <<>> ~> todo = <<>>

\* Every command is completed, so nothing is left half drawn.
CommandsComplete == inFlight # {} ~> inFlight = {}
===============================================================================

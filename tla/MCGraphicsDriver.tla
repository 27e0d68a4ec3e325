--------------------------- MODULE MCGraphicsDriver ---------------------------
(* GraphicsDriver with values for its constants and at most MaxCalls calls. *)
EXTENDS GraphicsDriver

CONSTANT MaxCalls

VARIABLE budget   \* calls the application may still make

MCInit == Init /\ budget = MaxCalls
MCNext == /\ Next
          /\ budget' = IF todo = <<>> /\ todo' # <<>> THEN budget - 1 ELSE budget
          /\ budget' >= 0
MCSpec == MCInit /\ [][MCNext]_<<vars, budget>>
MCFairSpec == MCSpec /\ Fairness

PowerUp == {[p \in (0 .. Columns - 1) \X (0 .. Rows - 1) |-> ResetColour]}

Call(fn, x1, y1, x2, y2, colour) ==
    [fn |-> fn, x1 |-> x1, y1 |-> y1, x2 |-> x2, y2 |-> y2, colour |-> colour]

\* Runs from even and odd columns and of odd and even length; flat, steep,
\* diagonal, backward and empty lines; circles; a call that
\* fails its checks; a palette value beyond the registers.
EveryCall ==
    { Call("WriteHLine", 0, 0, 3, 0, 1), Call("WriteHLine", 1, 1, 2, 0, 1),
      Call("WriteHLine", 3, 0, 2, 0, 1),
      Call("WriteVLine", 2, 0, 0, 2, 1),
      Call("WriteFilledRectangle", 1, 0, 4, 1, 1),
      Call("WriteLine", 0, 0, 4, 1, 1), Call("WriteLine", 2, 3, 1, 0, 1),
      Call("WriteLine", 0, 2, 2, 0, 1), Call("WriteLine", 1, 1, 1, 1, 1),
      Call("WriteCircle", 2, 2, 2, 0, 1), Call("WriteCircle", 2, 2, 1, 0, 1),
      Call("WriteAPixel", 2, 2, 0, 0, 1), Call("ReadAPixel", 2, 1, 0, 0, 0),
      Call("ProgramPalette", 1, 40, 0, 0, 0) }

\* One call of each kind of command, for the liveness run.
FewCalls ==
    { Call("WriteHLine", 1, 0, 2, 0, 1), Call("WriteVLine", 2, 0, 0, 2, 1),
      Call("WriteFilledRectangle", 0, 0, 3, 1, 1), Call("WriteLine", 0, 0, 3, 1, 1),
      Call("WriteCircle", 1, 1, 1, 0, 1), Call("ReadAPixel", 2, 1, 0, 0, 1),
      Call("ProgramPalette", 1, 2, 0, 0, 0) }

\* The call clear_screen makes.
ClearScreen == { clear_screen(1) }

\* The smallest circle whose pixels tell the chip from TestCircle.
BigCircle == { Call("WriteCircle", 4, 4, 4, 0, 1) }
===============================================================================

-------------------------------- MODULE Shapes --------------------------------
(***************************************************************************)
(* The pixels each drawing function of graphics.c stands for.  The line    *)
(* and the circle are those of the one-pixel-at-a-time test functions      *)
(* TestLine and TestCircle, the other shapes are read off the loops of     *)
(* TestHLine, TestVLine and TestFilledRectangle.  A pixel is <<column,     *)
(* row>>.                                                                  *)
(***************************************************************************)
EXTENDS Integers

CONSTANTS XRES, YRES   \* the visible part of the video memory

ASSUME ScreenAssumption == XRES \in Nat \ {0} /\ YRES \in Nat \ {0}

Screen == (0 .. XRES - 1) \X (0 .. YRES - 1)

check_if_point_is_on_screen(px, py) == px \in 0 .. XRES - 1 /\ py \in 0 .. YRES - 1

Magnitude(n) == IF n < 0 THEN -n ELSE n
sign(n) == IF n < 0 THEN -1 ELSE IF n = 0 THEN 0 ELSE 1
-------------------------------------------------------------------------------
TestHLine(x1, y1, length) == (x1 .. x1 + length - 1) \X {y1}
TestVLine(x1, y1, length) == {x1} \X (y1 .. y1 + length - 1)

TestFilledRectangle(x1, y1, x2, y2) == (x1 .. x2 - 1) \X (y1 .. y2)

\* Bresenham's line: the state of the loop before its n-th turn.  The inner
\* while loop takes 2*long from the error until it is negative.
TestLine(x1, y1, x2, y2) ==
    LET ax    == Magnitude(x2 - x1)
        ay    == Magnitude(y2 - y1)
        steep == ay > ax
        long  == IF steep THEN ay ELSE ax
        short == IF steep THEN ax ELSE ay
        turn[n \in 0 .. long] ==
            IF n = 0 THEN [px |-> x1, py |-> y1, error |-> 2 * short - long]
            ELSE LET t == turn[n - 1]
                     w == IF t.error < 0 THEN 0 ELSE (t.error \div (2 * long)) + 1
                     along == IF steep THEN w ELSE 1
                     down  == IF steep THEN 1 ELSE w
                 IN  [px |-> t.px + along * sign(x2 - x1),
                      py |-> t.py + down * sign(y2 - y1),
                      error |-> t.error - w * 2 * long + 2 * short]
    IN  {<<turn[n].px, turn[n].py>> : n \in 0 .. long - 1}

\* The pixels of the eight octants for the offset <<a, b>> from the centre.
EightPixels(x0, y0, a, b) ==
    ({x0 - a, x0 + a} \X {y0 - b, y0 + b}) \cup ({x0 - b, x0 + b} \X {y0 - a, y0 + a})

\* The midpoint circle: the state of the loop before its n-th turn, for as
\* long as it runs (its rows n are at most its column).
TestCircle(x0, y0, radius) ==
    LET turn[n \in 0 .. radius + 1] ==
            IF n = 0 THEN [column |-> radius, decisionOver2 |-> 1 - radius]
            ELSE LET t == turn[n - 1]
                 IN  IF t.decisionOver2 <= 0
                     THEN [t EXCEPT !.decisionOver2 = @ + 2 * n + 1]
                     ELSE [column |-> t.column - 1,
                           decisionOver2 |-> t.decisionOver2 + 2 * (n - t.column + 1) + 1]
    IN  UNION {EightPixels(x0, y0, turn[n].column, n) :
                  n \in {m \in 0 .. radius : m <= turn[m].column}}
===============================================================================

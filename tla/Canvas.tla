-------------------------------- MODULE Canvas --------------------------------
(***************************************************************************)
(* What the drawing functions of graphics.c promise their callers: one job *)
(* at a time, which colours pixels of its own shape and no other, and has  *)
(* coloured every one of them when it ends.                                *)
(***************************************************************************)
CONSTANTS Area, Jobs   \* the pixels; the jobs [pixels, colour] there may be

VARIABLES canvas, job  \* the colour of every pixel; the job at hand, if any

Begin == /\ job = {}
         /\ \E j \in Jobs : job' = {j}
         /\ UNCHANGED canvas

PaintedBy(j) ==
    \A p \in Area : canvas'[p] # canvas[p] => p \in j.pixels /\ canvas'[p] = j.colour

Paint == \E j \in job : PaintedBy(j) /\ job' = job

Finish == \E j \in job : /\ PaintedBy(j)
                         /\ \A p \in j.pixels : canvas'[p] = j.colour
                         /\ job' = {}

Init == job = {}
Next == Begin \/ Paint \/ Finish
Spec == Init /\ [][Next]_<<canvas, job>>
===============================================================================

-------------------------------- MODULE MCMenus --------------------------------
(***************************************************************************)
(* Three sets, of no point, one, or a walk that stays ten times as long in *)
(* one cell as in another and leaves the map; a touch in every region the  *)
(* code tells apart, and on the edges where its comparisons disagree       *)
(* (y = 440, and x = 266 and 533 between two menus).                       *)
(***************************************************************************)
EXTENDS Menus

Here == <<1000, 2000>>
East(d)  == <<Here[1] + d, Here[2]>>
North(d) == <<Here[1], Here[2] + d>>

MCPaths ==
    { <<>>, << Here >>,
      [i \in 1 .. 13 |-> CASE i <= 10 -> East(600 + i)
                           [] i = 11  -> North(-LAT_P_M_FLT \div 3)
                           [] i = 12  -> East(LONG_P_M_FLT)         \* on the edge
                           [] i = 13  -> North(LAT_P_M_FLT + 1)] }  \* beyond it

OnScreen(path) == convertGPSPointsGivenPoints(path, Here)
MCSaved == {[i \in Slots |-> <<>>]} \cup
           {[i \in Slots |-> OnScreen(IF i = 0 THEN << Here >> ELSE << Here, North(100) >>)]}

MCTouches ==
    {<<400, 100>>, <<400, 300>>, <<100, 300>>, <<700, 300>>, <<10, 20>>}   \* the picture
    \cup {<<100, 440>>, <<266, 440>>, <<533, 440>>}                        \* its edge
    \cup {<<100, 460>>, <<266, 460>>, <<400, 460>>, <<533, 460>>}          \* the bar
===============================================================================

------------------------------ MODULE MenusProofs ------------------------------
(***************************************************************************)
(* Proofs about Menus, for any number of data sets, any touches and any    *)
(* paths.                                                                  *)
(***************************************************************************)
EXTENDS Menus, HeatMapProofs

-------------------------------------------------------------------------------
(* The colours of the settings menu.                                        *)

ColourInv == /\ colourScheme \in [menuBackground : 0 .. NCOLOURS - 1, text : 0 .. NCOLOURS - 1,
                                  connectTheDotsLine : 0 .. NCOLOURS - 1, pairNum : 0 .. NPAIRS - 1]
             /\ ColoursDistinct

LEMMA PairTypes ==
    /\ \A n \in 0 .. NPAIRS - 1 : /\ Following(n) \in 0 .. NPAIRS - 1
                                  /\ Pair(n) \in [background : 0 .. NCOLOURS - 1, text : 0 .. NCOLOURS - 1]
                                  /\ Pair(n) = [background |-> Pair(n).background, text |-> Pair(n).text]
    /\ \A n \in 0 .. NPAIRS - 1 : Pair(Following(n)).background # Pair(n).background
  BY DEF Following, Pair, pairs, NPAIRS, NCOLOURS, WHITE, BLACK, CYAN, RED, YELLOW, BLUE

\* The two do loops of SettingsMenu end, on a colour that can be told apart.
LEMMA NextColours ==
    ASSUME ColourInv
    PROVE  /\ NextLine \in 0 .. NCOLOURS - 1 /\ NextLine \notin {WHITE, Background}
           /\ NextPair(colourScheme.pairNum) \in 0 .. NPAIRS - 1
           /\ Pair(NextPair(colourScheme.pairNum)).background # Line
<1>1. Line \in 0 .. 7 /\ Background \in 0 .. 7 /\ colourScheme.pairNum \in 0 .. NPAIRS - 1
  BY DEF ColourInv, Line, Background, NCOLOURS
<1>2. \A k \in 1 .. 3 : LineAfter(k) \in 0 .. 7
  BY <1>1 DEF LineAfter, NCOLOURS
<1>3. /\ LineAfter(1) # LineAfter(2) /\ LineAfter(2) # LineAfter(3) /\ LineAfter(1) # LineAfter(3)
  BY <1>1 DEF LineAfter, NCOLOURS
<1>4. NextLine \in 0 .. NCOLOURS - 1 /\ NextLine \notin {WHITE, Background}
  BY <1>2, <1>3 DEF NextLine, NCOLOURS
<1>5. Following(colourScheme.pairNum) \in 0 .. NPAIRS - 1
  BY <1>1, PairTypes
<1>6. /\ NextPair(colourScheme.pairNum) \in 0 .. NPAIRS - 1
      /\ Pair(NextPair(colourScheme.pairNum)).background # Line
  BY <1>1, <1>5, PairTypes DEF NextPair
<1> QED
  BY <1>4, <1>6

LEMMA ColourInit == Init => ColourInv
  BY DEF Init, ColourInv, ColoursDistinct, Background, Line, Pair, pairs, NPAIRS, NCOLOURS,
         WHITE, BLACK

LEMMA ColourStep == ColourInv /\ [Next]_vars => ColourInv'
<1> SUFFICES ASSUME ColourInv, [Next]_vars PROVE ColourInv'
  OBVIOUS
<1>1. CASE UNCHANGED colourScheme
  BY <1>1 DEF ColourInv, ColoursDistinct, Background, Line
<1>2. CASE ChangePair
  <2> DEFINE n == NextPair(colourScheme.pairNum)
  <2>1. colourScheme' = [colourScheme EXCEPT !.pairNum = n,
             !.menuBackground = Pair(n).background, !.text = Pair(n).text]
    BY <1>2 DEF ChangePair
  <2>2. n \in 0 .. NPAIRS - 1 /\ Pair(n).background # Line
    BY NextColours
  <2>3. /\ Pair(n).background \in 0 .. NCOLOURS - 1 /\ Pair(n).text \in 0 .. NCOLOURS - 1
        /\ Pair(n) = [background |-> Pair(n).background, text |-> Pair(n).text]
    BY <2>2, PairTypes
  <2> HIDE DEF n
  <2>4. /\ colourScheme' \in [menuBackground : 0 .. NCOLOURS - 1, text : 0 .. NCOLOURS - 1,
                             connectTheDotsLine : 0 .. NCOLOURS - 1, pairNum : 0 .. NPAIRS - 1]
        /\ colourScheme'.pairNum = n /\ colourScheme'.menuBackground = Pair(n).background
        /\ colourScheme'.text = Pair(n).text
        /\ colourScheme'.connectTheDotsLine = Line
    BY <2>1, <2>2, <2>3 DEF ColourInv, Line
  <2> QED
    BY <2>2, <2>3, <2>4 DEF ColourInv, ColoursDistinct, Background, Line
<1>3. CASE ChangeLine
  <2>1. colourScheme' = [colourScheme EXCEPT !.connectTheDotsLine = NextLine]
    BY <1>3 DEF ChangeLine
  <2> QED
    BY <2>1, NextColours DEF ColourInv, ColoursDistinct, Background, Line
<1> QED
  BY <1>1, <1>2, <1>3 DEF Next, vars, FirstPress, LoopTop, View, Open, OpenSaveLoad,
     SaveLoadReturns, LoadLatest, LoadAggregate, Download, LeaveSaveLoad, OpenInterpret,
     LeaveInterpret, OpenSettings, LeaveSettings

\* Text, background and line can always be told apart, whatever is pressed.
THEOREM ColoursCorrect == Spec => []ColoursDistinct
<1>1. ColourInv => ColoursDistinct
  BY DEF ColourInv
<1> QED
  BY ColourInit, ColourStep, <1>1, PTL DEF Spec
-------------------------------------------------------------------------------
(* The ring of data sets.                                                   *)

RingInv == dataSets \in [Slots -> Seq(Points)] /\ headTimeQueue \in Slots

LEMMA RingInit == Init => RingInv
  BY MenusAssumption DEF Init, RingInv, Points

LEMMA FunctionIsSeq ==
    ASSUME NEW S, NEW n \in Nat, NEW f \in [1 .. n -> S] PROVE f \in Seq(S)
<1>1. DOMAIN f = 1 .. n /\ \A i \in 1 .. n : f[i] \in S
  OBVIOUS
<1>2. f = [i \in 1 .. n |-> f[i]]
  OBVIOUS
<1> QED
  BY <1>1, <1>2

\* Where a path is on the screen is again a sequence of points.
LEMMA PathOnScreen ==
    \A path \in Paths : convertGPSPointsGivenPoints(path, gps_realtime) \in Seq(Points)
<1>1. \A position \in Int \X Int : convertGPSPoint(position, gps_realtime) \in Points
  BY MenusAssumption DEF convertGPSPoint, Points, XRES, MENU_TOP, LONG_P_M_FLT, LAT_P_M_FLT
<1>2. ASSUME NEW path \in Seq(Int \X Int)
      PROVE  convertGPSPointsGivenPoints(path, gps_realtime) \in Seq(Points)
  <2>1. /\ Len(path) \in Nat /\ DOMAIN path = 1 .. Len(path)
        /\ \A i \in DOMAIN path : path[i] \in Int \X Int
    OBVIOUS
  <2>2. convertGPSPointsGivenPoints(path, gps_realtime) \in [1 .. Len(path) -> Points]
    BY <2>1, <1>1 DEF convertGPSPointsGivenPoints
  <2> HIDE DEF Points
  <2> QED
    BY <2>1, <2>2, FunctionIsSeq
<1> QED
  BY <1>2, MenusAssumption

\* What every action but the download does to the sets.
LEMMA DataStep ==
    ASSUME [Next]_vars PROVE Download \/ UNCHANGED dataVars
  BY DEF Next, vars, FirstPress, LoopTop, View, Open, OpenSaveLoad, LoadLatest,
     LoadAggregate, LeaveSaveLoad, OpenInterpret, LeaveInterpret, OpenSettings,
     ChangePair, ChangeLine, LeaveSettings, InSettings

LEMMA HeadType == \A head \in Slots : NewHead(head) \in Slots
  BY SetsAssumption DEF Slots, NewHead

LEMMA RingStep == RingInv /\ [Next]_vars => RingInv'
<1> SUFFICES ASSUME RingInv, [Next]_vars PROVE RingInv'
  OBVIOUS
<1>1. CASE UNCHANGED dataVars
  BY <1>1 DEF RingInv, dataVars, localData
<1>2. CASE Download
  <2>1. PICK path \in Paths : StorePath(convertGPSPointsGivenPoints(path, gps_realtime))
    BY <1>2 DEF Download
  <2> QED
    BY <2>1, HeadType, PathOnScreen DEF StorePath, RingInv
<1> QED
  BY <1>1, <1>2, DataStep

LEMMA AgeStep ==
    ASSUME RingInv, Download, NEW k \in 0 .. MAX_N_SETS - 2
    PROVE  Before(dataSets', headTimeQueue', k + 1) = Before(dataSets, headTimeQueue, k)
<1> DEFINE at(head, n) == IF head + n < MAX_N_SETS THEN head + n ELSE head + n - MAX_N_SETS
<1>1. PICK path \in Paths : StorePath(convertGPSPointsGivenPoints(path, gps_realtime))
  BY DEF Download
<1>2. /\ at(headTimeQueue', k + 1) = at(headTimeQueue, k)
      /\ at(headTimeQueue', k + 1) # headTimeQueue'
      /\ at(headTimeQueue, k) \in Slots
  <2>1. headTimeQueue \in Slots /\ headTimeQueue' = NewHead(headTimeQueue)
    BY <1>1 DEF RingInv, StorePath
  <2> QED
    BY <2>1, SetsAssumption DEF NewHead, Slots
<1>3. dataSets'[at(headTimeQueue', k + 1)] = dataSets[at(headTimeQueue, k)]
  <2> HIDE DEF at
  <2> QED
    BY <1>1, <1>2 DEF StorePath, RingInv
<1> QED
  BY <1>3 DEF Before

\* A download forgets the oldest path and no other, for any number of sets.
THEOREM DownloadCorrect == Spec => DownloadDropsOldest
<1>1. RingInv /\ [Next]_vars => [Download => \A k \in 0 .. MAX_N_SETS - 2 :
          Before(dataSets', headTimeQueue', k + 1) = Before(dataSets, headTimeQueue, k)]_vars
  BY AgeStep
<1> QED
  BY RingInit, RingStep, <1>1, PTL DEF Spec, DownloadDropsOldest
-------------------------------------------------------------------------------
(* The data shown.                                                          *)

Shown == {"heatmap", "points"}

\* The aggregate is that of the sets, the heat map is made of the data chosen,
\* and so is what is on the screen when no menu is.
ChosenInv ==
    /\ {firstTime, showing_heatmap, outSubMenu, aggregate} \subseteq BOOLEAN
    /\ aggregateSet = Aggregate(dataSets)
    /\ heatmap = Chosen
    /\ screen.picture \in Shown => screen.data = Chosen
    /\ pc \in MenuNames => screen.picture \notin Shown

LEMMA ChosenInit == Init => ChosenInv
<1> SUFFICES ASSUME Init PROVE ChosenInv
  OBVIOUS
<1>1. {firstTime, showing_heatmap, outSubMenu, aggregate} \subseteq BOOLEAN /\ aggregate = FALSE
  BY Zenon DEF Init
<1>2. /\ heatmap = Latest /\ screen = draw_heatmap(Latest) /\ pc = "start"
      /\ aggregateSet = Aggregate(dataSets)
  BY Zenon DEF Init
<1> QED
  BY <1>1, <1>2 DEF ChosenInv, Chosen, draw_heatmap, MenuNames

\* What happens when the save menu returns: the only place where the data
\* chosen changes.
LEMMA SaveLoadChosen ==
    ASSUME ChosenInv, NEW ag \in BOOLEAN, NEW computed,
           aggregateSet' = Aggregate(dataSets'),
           computed = (IF aggregate THEN Aggregate(dataSets') ELSE Latest') \/ ag # aggregate,
           SaveLoadReturns(ag, computed),
           screen.picture \notin Shown
    PROVE  ChosenInv'
<1>1. aggregate' = ag /\ heatmap' = Regenerate(ag, computed)
  BY DEF SaveLoadReturns
<1>2. heatmap' = Chosen'
  BY <1>1 DEF Regenerate, Selected, Chosen, Latest, ChosenInv
<1>3. screen' = screen \/ screen' = draw_heatmap(heatmap')
  BY DEF SaveLoadReturns
<1>4. screen'.picture \in Shown => screen'.data = Chosen'
  BY <1>2, <1>3 DEF draw_heatmap
<1>5. /\ {firstTime', showing_heatmap', outSubMenu', aggregate'} \subseteq BOOLEAN
      /\ pc' = "loop"
  BY <1>1 DEF SaveLoadReturns, BackToLoop, ChosenInv
<1> QED
  BY <1>2, <1>4, <1>5 DEF ChosenInv, MenuNames

LEMMA DownloadChosen == ChosenInv /\ Download => ChosenInv'
<1> SUFFICES ASSUME ChosenInv, Download PROVE ChosenInv'
  OBVIOUS
<1>1. /\ aggregateSet' = Aggregate(dataSets')
      /\ SaveLoadReturns(FALSE, DownloadedHeatmap)
      /\ screen.picture \notin Shown
  BY DEF Download, setupAggregate, ChosenInv, MenuNames
<1>2. DownloadedHeatmap = (IF aggregate THEN Aggregate(dataSets') ELSE Latest')
      \/ FALSE # aggregate
  BY DEF DownloadedHeatmap, Selected, Latest, ChosenInv
<1> QED
  BY <1>1, <1>2, SaveLoadChosen

\* The other three ways out of the save menu keep the sets.
LEMMA ReturnChosen ==
    ASSUME ChosenInv, UNCHANGED dataVars, NEW ag \in BOOLEAN, SaveLoadReturns(ag, heatmap),
           screen.picture \notin Shown
    PROVE  ChosenInv'
<1>1. aggregateSet' = Aggregate(dataSets') /\ dataSets' = dataSets /\ Latest' = Latest
  BY DEF ChosenInv, dataVars, localData, Latest
<1>2. heatmap = IF aggregate THEN Aggregate(dataSets') ELSE Latest'
  BY <1>1 DEF ChosenInv, Chosen
<1> QED
  BY <1>1, <1>2, SaveLoadChosen

LEMMA OpenChosen ==
    ASSUME ChosenInv, NEW name \in MenuNames, NEW picture,
           picture.picture \notin Shown, Open(name, picture)
    PROVE  ChosenInv'
<1>1. /\ UNCHANGED <<dataVars, firstTime, outSubMenu, aggregate, heatmap>>
      /\ showing_heatmap' \in BOOLEAN /\ screen' = picture
  BY DEF Open, ChosenInv
<1> QED
  BY <1>1 DEF ChosenInv, Chosen, Latest, dataVars, localData

LEMMA ViewChosen == ChosenInv /\ View => ChosenInv'
<1> SUFFICES ASSUME ChosenInv, View PROVE ChosenInv'
  OBVIOUS
<1>1. /\ UNCHANGED <<dataVars, aggregate, heatmap>> /\ pc' = "loop"
      /\ {firstTime', showing_heatmap', outSubMenu'} \subseteq BOOLEAN
  BY DEF View, Toggle, ChosenInv
<1>2. Chosen' = Chosen
  BY <1>1 DEF Chosen, Latest, dataVars, localData
<1>3. screen'.data = Chosen
  BY DEF View, connect_points, draw_heatmap, ChosenInv, Chosen
<1> QED
  BY <1>1, <1>2, <1>3 DEF ChosenInv, dataVars, localData, MenuNames

LEMMA ChosenStep == ChosenInv /\ [Next]_vars => ChosenInv'
<1> SUFFICES ASSUME ChosenInv, [Next]_vars PROVE ChosenInv'
  OBVIOUS
<1> USE DEF MenuNames
\* The steps that leave sets, flag, heat map and picture alone, and open no menu.
<1>1. ASSUME UNCHANGED <<dataVars, showing_heatmap, aggregate, heatmap, screen>>,
             pc' \in {pc, "loop", "branch"},
             {firstTime', outSubMenu'} \subseteq BOOLEAN
      PROVE  ChosenInv'
  BY <1>1 DEF ChosenInv, Chosen, Latest, dataVars, localData
<1>2. CASE UNCHANGED vars
  BY <1>1, <1>2 DEF vars, dataVars, localData, ChosenInv
<1>3. CASE FirstPress \/ LoopTop
  BY <1>1, <1>3 DEF FirstPress, LoopTop, viewVars, ChosenInv
<1>4. CASE View
  BY <1>4, ViewChosen
<1>5. CASE OpenSaveLoad \/ OpenInterpret \/ OpenSettings
  BY <1>5, OpenChosen DEF OpenSaveLoad, OpenInterpret, OpenSettings, Menu, Shown
<1>6. CASE LoadLatest \/ LoadAggregate \/ LeaveSaveLoad
  <2>1. screen.picture \notin Shown /\ UNCHANGED dataVars /\ aggregate \in BOOLEAN
    BY <1>6 DEF LoadLatest, LoadAggregate, LeaveSaveLoad, ChosenInv
  <2>2. CASE SaveLoadReturns(FALSE, heatmap)
    BY <2>1, <2>2, ReturnChosen
  <2>3. CASE SaveLoadReturns(TRUE, heatmap)
    BY <2>1, <2>3, ReturnChosen
  <2>4. CASE SaveLoadReturns(aggregate, heatmap)
    BY <2>1, <2>4, ReturnChosen
  <2>5. CASE UNCHANGED <<pc, viewVars, aggregate, colourScheme, heatmap, screen>>
    BY <2>1, <2>5, <1>1 DEF viewVars, ChosenInv
  <2> QED
    BY <1>6, <2>2, <2>3, <2>4, <2>5 DEF LoadLatest, LoadAggregate, LeaveSaveLoad
<1>7. CASE Download
  BY <1>7, DownloadChosen
<1>8. CASE LeaveInterpret
  BY <1>8, <1>1 DEF LeaveInterpret, BackToLoop, ChosenInv
<1>9. CASE ChangePair \/ ChangeLine \/ LeaveSettings
  BY <1>9, <1>1 DEF ChangePair, ChangeLine, LeaveSettings, InSettings, BackToLoop, ChosenInv
<1> QED
  BY <1>2, <1>3, <1>4, <1>5, <1>6, <1>7, <1>8, <1>9 DEF Next

\* What is on the screen is what was chosen, for any data and any touches.
THEOREM ViewCorrect == Spec => []ViewShowsChosen
<1>1. ChosenInv => ViewShowsChosen
  BY DEF ChosenInv, ViewShowsChosen, Shown
<1> QED
  BY ChosenInit, ChosenStep, <1>1, PTL DEF Spec
-------------------------------------------------------------------------------
(* The two pictures.                                                        *)

\* Unless a menu has just been closed, the flag says which picture is up; at
\* the start it says so of the picture to come.
TurnInv ==
    screen.picture \in Shown /\ ~outSubMenu =>
        IF firstTime THEN showing_heatmap /\ screen.picture = "heatmap"
        ELSE screen.picture = IF showing_heatmap THEN "points" ELSE "heatmap"

LEMMA TurnInit == Init => TurnInv
<1> SUFFICES ASSUME Init PROVE TurnInv
  OBVIOUS
<1>1. firstTime /\ showing_heatmap /\ screen = draw_heatmap(Latest)
  BY Zenon DEF Init
<1> QED
  BY <1>1 DEF TurnInv, draw_heatmap

\* What View draws, and when it turns from one picture to the other.
LEMMA ViewTurns ==
    ASSUME ChosenInv, TurnInv, View
    PROVE  /\ TurnInv'
           /\ screen.picture \in Shown /\ ~outSubMenu => screen'.picture # screen.picture
<1>1. /\ ~firstTime' /\ firstTime \in BOOLEAN /\ showing_heatmap \in BOOLEAN
      /\ screen'.picture = IF showing_heatmap' THEN "points" ELSE "heatmap"
  BY DEF View, connect_points, draw_heatmap, ChosenInv
<1>2. showing_heatmap' = IF ~outSubMenu /\ ~firstTime THEN ~showing_heatmap ELSE showing_heatmap
  BY DEF View, Toggle
<1> QED
  BY <1>1, <1>2 DEF TurnInv

LEMMA TurnStep == ChosenInv /\ TurnInv /\ [Next]_vars => TurnInv'
<1> SUFFICES ASSUME ChosenInv, TurnInv, [Next]_vars PROVE TurnInv'
  OBVIOUS
<1>1. CASE UNCHANGED <<screen, outSubMenu, firstTime, showing_heatmap>>
  BY <1>1 DEF TurnInv
<1>2. CASE View
  BY <1>2, ViewTurns
<1>3. CASE OpenSaveLoad \/ OpenInterpret \/ OpenSettings
  BY <1>3 DEF OpenSaveLoad, OpenInterpret, OpenSettings, Open, Menu, Shown, TurnInv
<1>4. CASE BackToLoop
  BY <1>4 DEF BackToLoop, TurnInv
<1> QED
  BY <1>1, <1>2, <1>3, <1>4 DEF Next, vars, viewVars, FirstPress, LoopTop, SaveLoadReturns,
     LoadLatest, LoadAggregate, Download, LeaveSaveLoad, LeaveInterpret,
     ChangePair, ChangeLine, LeaveSettings, InSettings

\* A touch of the picture always shows the other one, of the same data.
THEOREM TurnCorrect == Spec => TouchTurnsPicture
<1>1. ChosenInv /\ View => screen'.data = Chosen
  BY DEF View, connect_points, draw_heatmap, ChosenInv, Chosen
<1>2. ChosenInv /\ TurnInv /\ [Next]_vars =>
        [View /\ screen.picture \in {"heatmap", "points"} /\ ~outSubMenu
         => screen'.picture # screen.picture /\ screen'.data = screen.data]_vars
  BY <1>1, ViewTurns DEF ChosenInv, Shown
<1> QED
  BY ChosenInit, ChosenStep, TurnInit, TurnStep, <1>2, PTL DEF Spec, TouchTurnsPicture
-------------------------------------------------------------------------------
(* The aggregate.                                                           *)

\* A set that holds all points of the sets holds those of the aggregate.
LEMMA AggregateType ==
    ASSUME NEW S, NEW sets \in [Slots -> Seq(S)]
    PROVE  Aggregate(sets) \in Seq(S)
<1> DEFINE n == MAX_N_SETS
           next(f, i) == IF i = 0 THEN <<>> ELSE f[i - 1] \o sets[i - 1]
           Is(f) == f = [i \in 0 .. n |-> next(f, i)]
           upTo == CHOOSE f : Is(f)
<1>1. n \in Nat /\ <<>> \in Seq(S) /\ \A i \in 1 .. n : sets[i - 1] \in Seq(S)
  BY SetsAssumption DEF Slots
<1>2. \E f : Is(f)
  <2> DEFINE step == [a \in Seq(S) \X (1 .. n) |-> a[1] \o sets[a[2] - 1]]
  <2>1. step \in [Seq(S) \X (1 .. n) -> Seq(S)]
    <3>1. \A s, t \in Seq(S) : s \o t \in Seq(S) OBVIOUS
    <3> HIDE DEF n
    <3>2. QED BY <1>1, <3>1
  <2> HIDE DEF step
  <2>2. PICK f \in [0 .. n -> Seq(S)] : IsRecursive(f, n, <<>>, step)
    <3> HIDE DEF n
    <3>1. QED BY <1>1, <2>1, RecursiveFunction
  <2>3. ASSUME NEW i \in 0 .. n PROVE f[i] = next(f, i)
    <3>1. CASE i = 0 BY <2>2, <3>1 DEF IsRecursive
    <3>2. CASE i # 0
      <4> HIDE DEF n
      <4>1. i \in 1 .. n /\ i - 1 \in 0 .. n BY <1>1, <3>2
      <4>2. f[i] = step[<<f[i - 1], i>>] BY <2>2, <3>2 DEF IsRecursive
      <4>3. <<f[i - 1], i>> \in Seq(S) \X (1 .. n) BY <4>1
      <4>4. QED BY <3>2, <4>2, <4>3 DEF step
    <3>3. QED BY <3>1, <3>2
  <2>4. f = [i \in 0 .. n |-> f[i]] OBVIOUS
  <2>5. Is(f) BY <2>3, <2>4
  <2>6. QED BY <2>5
<1>3. Is(upTo)
  <2> HIDE DEF Is
  <2>1. QED BY <1>2, Zenon
<1>4. Aggregate(sets) = upTo[n]
  BY Zenon DEF Aggregate
<1> HIDE DEF upTo, n
<1>5. \A i \in 0 .. n : upTo[i] = next(upTo, i)
  BY <1>3
<1> DEFINE T == {i \in 0 .. n : upTo[i] \in Seq(S)}
<1>6. 0 \in T
  <2>1. 0 \in 0 .. n
    BY <1>1
  <2>2. upTo[0] = <<>>
    BY <1>5, <2>1
  <2> QED
    BY <1>1, <2>1, <2>2
<1>7. ASSUME NEW i \in 0 .. n - 1, i \in T PROVE i + 1 \in T
  <2>1. /\ upTo[i] \in Seq(S) /\ i + 1 \in 0 .. n /\ i + 1 # 0 /\ (i + 1) - 1 = i
        /\ i + 1 \in 1 .. n
    BY <1>1, <1>7
  <2>2. sets[i] \in Seq(S) BY <1>1, <2>1
  <2>3. upTo[i + 1] = upTo[i] \o sets[i] BY <1>5, <2>1
  <2>4. upTo[i + 1] \in Seq(S) BY <2>1, <2>2, <2>3
  <2>5. QED BY <2>1, <2>4
<1> HIDE DEF T
<1>8. 0 .. n \subseteq T
  BY <1>1, <1>6, <1>7, UpTo
<1> QED
  BY <1>1, <1>4, <1>8 DEF T

\* The aggregate of empty sets is empty.
LEMMA AggregateOfNothing ==
    ASSUME NEW sets, sets \in [Slots -> {<<>>}]
    PROVE  Aggregate(sets) = <<>>
<1>1. sets \in [Slots -> Seq({})]
  <2>1. \A S : <<>> \in Seq(S)
    OBVIOUS
  <2> QED
    BY <2>1
<1>2. Aggregate(sets) \in Seq({})
  BY <1>1, AggregateType
<1> DEFINE a == Aggregate(sets)
<1> HIDE DEF a
<1>3. a \in Seq({})
  BY <1>2 DEF a
<1>4. Len(a) = 0
  <2>1. Len(a) \in Nat /\ \A i \in 1 .. Len(a) : a[i] \in {}
    BY <1>3
  <2> QED
    BY <2>1
<1>5. a = <<>>
  BY <1>3, <1>4
<1> QED
  BY <1>5 DEF a
-------------------------------------------------------------------------------
(* Types.                                                                   *)

\* The invariants so far say what most variables are; these are the others.
ScreenInv ==
    /\ pc \in {"start", "loop", "branch"} \cup MenuNames
    /\ p \in (0 .. XRES) \X (0 .. YRES)
    /\ screen \in [picture : Pictures, data : Seq(Points)]

MenusInv == ColourInv /\ RingInv /\ ChosenInv /\ ScreenInv

\* All data shown are sequences of points.
LEMMA ChosenType ==
    ASSUME RingInv, ChosenInv
    PROVE  /\ Latest \in Seq(Points) /\ Aggregate(dataSets) \in Seq(Points)
           /\ aggregateSet \in Seq(Points) /\ heatmap \in Seq(Points)
<1>1. Latest \in Seq(Points)
  BY DEF RingInv, Latest
<1>2. Aggregate(dataSets) \in Seq(Points)
  BY AggregateType DEF RingInv
<1> QED
  BY <1>1, <1>2 DEF ChosenInv, Chosen

LEMMA PictureTypes ==
    /\ <<>> \in Seq(Points)
    /\ \A data \in Seq(Points), name \in Pictures :
          Menu(name, data) \in [picture : Pictures, data : Seq(Points)]
    /\ \A data \in Seq(Points) : draw_heatmap(data) \in [picture : Pictures, data : Seq(Points)]
    /\ RingInv /\ ChosenInv => connect_points \in [picture : Pictures, data : Seq(Points)]
<1>1. <<>> \in Seq(Points)
  OBVIOUS
<1>2. RingInv /\ ChosenInv => connect_points \in [picture : Pictures, data : Seq(Points)]
  <2> SUFFICES ASSUME RingInv, ChosenInv
               PROVE  connect_points \in [picture : Pictures, data : Seq(Points)]
    OBVIOUS
  <2>1. (IF aggregate THEN Aggregate(dataSets) ELSE Latest) \in Seq(Points)
    BY ChosenType
  <2> QED
    BY <2>1 DEF connect_points, Pictures
<1> QED
  BY <1>1, <1>2 DEF Menu, draw_heatmap, Pictures

LEMMA MenusInit == Init => MenusInv
<1> SUFFICES ASSUME Init PROVE MenusInv
  OBVIOUS
<1>1. ColourInv /\ RingInv /\ ChosenInv
  BY ColourInit, RingInit, ChosenInit
<1>2. pc = "start" /\ p = <<0, 0>> /\ screen = draw_heatmap(Latest)
  BY Zenon DEF Init
<1>3. Latest \in Seq(Points)
  BY <1>1, ChosenType
<1>4. screen \in [picture : Pictures, data : Seq(Points)]
  BY <1>2, <1>3, PictureTypes
<1> QED
  BY <1>1, <1>2, <1>4 DEF MenusInv, ScreenInv, XRES, YRES

LEMMA ScreenStep ==
    ASSUME MenusInv, RingInv', ChosenInv', [Next]_vars PROVE ScreenInv'
<1> DEFINE PictureSet == [picture : Pictures, data : Seq(Points)]
<1>1. /\ RingInv /\ ChosenInv /\ screen \in PictureSet
      /\ pc \in {"start", "loop", "branch"} \cup MenuNames
      /\ p \in (0 .. XRES) \X (0 .. YRES)
  BY DEF MenusInv, ScreenInv
<1>2. heatmap \in Seq(Points) /\ heatmap' \in Seq(Points)
  <2>1. heatmap' = Chosen' /\ Latest' \in Seq(Points) /\ Aggregate(dataSets') \in Seq(Points)
    BY AggregateType DEF RingInv, ChosenInv, Latest
  <2> QED
    BY <1>1, <2>1, ChosenType DEF Chosen
<1>3. p' \in (0 .. XRES) \X (0 .. YRES)
  <2>1. UNCHANGED p \/ p' \in Touches
    BY DEF Next, vars, FirstPress, LoopTop, Press, View, Open, OpenSaveLoad,
       LoadLatest, LoadAggregate, Download, LeaveSaveLoad, OpenInterpret, LeaveInterpret,
       OpenSettings, InSettings, ChangePair, ChangeLine, LeaveSettings
  <2> QED
    BY <1>1, <2>1, MenusAssumption
<1>4. pc' \in {"start", "loop", "branch"} \cup MenuNames
  BY <1>1 DEF Next, vars, FirstPress, LoopTop, View, Open, OpenSaveLoad, SaveLoadReturns, BackToLoop,
     LoadLatest, LoadAggregate, Download, LeaveSaveLoad, OpenInterpret, LeaveInterpret,
     OpenSettings, InSettings, ChangePair, ChangeLine, LeaveSettings, MenuNames
<1>5. screen' \in PictureSet
  <2>1. screen' \in {screen, connect_points, draw_heatmap(heatmap), draw_heatmap(heatmap'),
                     Menu("save", <<>>), Menu("time", heatmap), Menu("average", heatmap),
                     Menu("settings", <<>>)}
    BY DEF Next, vars, FirstPress, LoopTop, View, Open, OpenSaveLoad, SaveLoadReturns,
       LoadLatest, LoadAggregate, Download, LeaveSaveLoad, OpenInterpret, LeaveInterpret,
       OpenSettings, InSettings, ChangePair, ChangeLine, LeaveSettings
  <2>2. {"save", "time", "average", "settings"} \subseteq Pictures
    BY DEF Pictures
  <2>3. connect_points \in PictureSet
    BY <1>1, PictureTypes
  <2>4. draw_heatmap(heatmap) \in PictureSet /\ draw_heatmap(heatmap') \in PictureSet
    BY <1>2, PictureTypes
  <2>5. /\ Menu("save", <<>>) \in PictureSet /\ Menu("settings", <<>>) \in PictureSet
        /\ Menu("time", heatmap) \in PictureSet /\ Menu("average", heatmap) \in PictureSet
    BY <1>2, <2>2, PictureTypes
  <2> HIDE DEF PictureSet
  <2> QED
    BY <1>1, <2>1, <2>3, <2>4, <2>5
<1> QED
  BY <1>3, <1>4, <1>5 DEF ScreenInv

LEMMA MenusStep == MenusInv /\ [Next]_vars => MenusInv'
<1> SUFFICES ASSUME MenusInv, [Next]_vars PROVE MenusInv'
  OBVIOUS
<1>1. ColourInv' /\ RingInv' /\ ChosenInv'
  BY ColourStep, RingStep, ChosenStep DEF MenusInv
<1>2. ScreenInv'
  BY <1>1, ScreenStep
<1> QED
  BY <1>1, <1>2 DEF MenusInv

\* Menus, data and colours keep their types and agree, whatever is pressed.
THEOREM MenusInvariant == Spec => []MenusInv
<1> QED
  BY MenusInit, MenusStep, PTL DEF Spec

\* Every variable keeps its type.
THEOREM MenusTypeCorrect == Spec => []TypeOK
<1>1. ASSUME MenusInv PROVE TypeOK
  <2>1. ColourInv /\ RingInv /\ ChosenInv /\ ScreenInv
    BY <1>1 DEF MenusInv
  <2>2. aggregateSet \in Seq(Points) /\ heatmap \in Seq(Points)
    BY <2>1, ChosenType
  <2>3. {firstTime, showing_heatmap, outSubMenu, aggregate} \subseteq BOOLEAN
    BY <2>1 DEF ChosenInv
  <2> QED
    BY <2>1, <2>2, <2>3 DEF TypeOK, ColourInv, RingInv, ScreenInv
<1> QED
  BY <1>1, MenusInvariant, PTL
-------------------------------------------------------------------------------
(* The average.                                                             *)

\* When no set has a point, one path and the aggregate are of the same length.
LEMMA AverageOpens ==
    ASSUME RingInv, ChosenInv, ~OnePath PROVE aggregate /\ nSets # {}
<1>1. aggregate /\ heatmap = Aggregate(dataSets) /\ Len(Latest) # Len(heatmap)
  BY DEF ChosenInv, Chosen, OnePath, currNPoints
<1>2. ASSUME nSets = {} PROVE FALSE
  <2>1. \A i \in Slots : dataSets[i] = <<>>
    BY <1>2 DEF nSets
  <2>2. dataSets \in [Slots -> {<<>>}]
    BY <2>1 DEF RingInv
  <2>3. Aggregate(dataSets) = <<>>
    BY <2>2, AggregateOfNothing
  <2>4. Latest = <<>>
    BY <2>1 DEF RingInv, Latest
  <2> QED
    BY <1>1, <2>3, <2>4
<1> QED
  BY <1>1, <1>2

LEMMA AverageStep == MenusInv /\ AverageHasSets /\ [Next]_vars => AverageHasSets'
<1> SUFFICES ASSUME MenusInv, AverageHasSets, [Next]_vars PROVE AverageHasSets'
  OBVIOUS
<1>1. RingInv /\ ChosenInv
  BY DEF MenusInv
<1>2. CASE UNCHANGED <<pc, screen, aggregate, dataVars>>
  BY <1>2 DEF AverageHasSets, nSets, dataVars, localData
<1>3. CASE OpenInterpret
  <2>1. /\ UNCHANGED <<aggregate, dataVars>>
        /\ screen' = Menu(IF OnePath THEN "time" ELSE "average", heatmap)
    BY <1>3 DEF OpenInterpret, Open
  <2>2. nSets' = nSets
    BY <2>1 DEF nSets, dataVars, localData
  <2>3. screen'.picture = "average" => ~OnePath
    BY <2>1 DEF Menu
  <2> QED
    BY <1>1, <2>1, <2>2, <2>3, AverageOpens DEF AverageHasSets
<1>4. CASE LeaveInterpret
  BY <1>4 DEF LeaveInterpret, BackToLoop, AverageHasSets, nSets, dataVars, localData
<1>5. CASE pc' # "InterpretMenu"
  BY <1>5 DEF AverageHasSets
<1> QED
  BY <1>2, <1>3, <1>4, <1>5 DEF Next, vars, viewVars, FirstPress, LoopTop, View, Open, OpenSaveLoad,
     SaveLoadReturns, BackToLoop, LoadLatest, LoadAggregate, Download, LeaveSaveLoad,
     OpenSettings, InSettings, ChangePair, ChangeLine, LeaveSettings

\* Nothing is divided by the number of sets when there is none.
THEOREM AverageCorrect == Spec => []AverageHasSets
<1>1. Init => AverageHasSets
  <2>1. Init => pc = "start"
    BY Zenon DEF Init
  <2> QED
    BY <2>1 DEF AverageHasSets
<1> QED
  BY <1>1, AverageStep, MenusInvariant, PTL DEF Spec
-------------------------------------------------------------------------------
(* The heat map and the colours of the paths.                               *)

\* A point of the map is counted in one cell, any other in none.
THEOREM PointsCorrect == Spec => []EveryPointCounted
<1>1. ASSUME MenusInv PROVE EveryPointCounted
  <2>1. heatmap \in Seq(Points)
    BY <1>1, ChosenType DEF MenusInv
  <2>2. \A i \in DOMAIN heatmap : heatmap[i] \in Int \X Int
    BY <2>1 DEF Points
  <2>3. \A q : OnMap(q) <=> OnCells(q)
    BY DEF OnMap, OnCells
  <2> QED
    BY <2>2, <2>3, CellsShareMap DEF EveryPointCounted
<1> QED
  BY <1>1, MenusInvariant, PTL

\* The shades rank the counts of the cells, whatever the points.
THEOREM ShadesCorrect == Spec => []ShadesRankCells
<1>1. ASSUME MenusInv PROVE ShadesRankCells
  <2> DEFINE counts == {Count(heatmap)[c] : c \in Cells}
  <2>1. heatmap \in Seq(Int \X Int)
    BY <1>1, ChosenType DEF MenusInv, Points
  <2>2. Len(heatmap) \in Nat /\ \A m \in counts : m \in 0 .. Len(heatmap)
    BY <2>1, CountType
  <2>3. counts \in SUBSET Nat /\ \A m \in counts : m <= Len(heatmap)
    BY <2>2
  <2> SUFFICES ASSUME Cardinality(counts) > 1
               PROVE  /\ Shade(max_count(counts), counts) = HM_SHADES - 1
                      /\ \A n, m \in counts :
                           /\ Shade(n, counts) \in 0 .. HM_SHADES - 1
                           /\ n < m => Shade(n, counts) <= Shade(m, counts)
                           /\ Shade(n, counts) = 0 <=> n = min_count(counts)
    BY Zenon DEF ShadesRankCells
  <2> HIDE DEF counts
  <2> QED
    BY <2>2, <2>3, ShadesRank
<1> QED
  BY <1>1, MenusInvariant, PTL

\* The paths of the aggregate can be told apart, for any number of them.
THEOREM PathColoursCorrect == Spec => []PathColoursDistinct
<1>1. ASSUME MenusInv PROVE PathColoursDistinct
  <2> DEFINE colours == SetColours(MAX_N_SETS, headTimeQueue, Line, Background)
  <2>1. MAX_N_SETS \in Nat /\ headTimeQueue \in Int
    BY <1>1, SetsAssumption DEF MenusInv, RingInv, Slots
  <2>2. Apart(colours, Line, Background)
    BY <2>1, PathColours
  <2>3. PathColoursDistinct <=> \A i, j \in DOMAIN colours :
          /\ colours[i] = colours[j] => i = j
          /\ colours[i] \notin {Line, Background}
          /\ colours[i] = WHITE => Background # WHITE
    BY Zenon DEF PathColoursDistinct
  <2> HIDE DEF colours
  <2> QED
    BY <2>2, <2>3 DEF Apart
<1> QED
  BY <1>1, MenusInvariant, PTL
===============================================================================

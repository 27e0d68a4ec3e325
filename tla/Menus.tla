--------------------------------- MODULE Menus ---------------------------------
(***************************************************************************)
(* The user interface: main_menu of main.c and the three menus of          *)
(* sub_menus.c.  NIOS runs nothing else, so a step goes from one wait for  *)
(* a touch to the next decision of the loop.  What is abstract is the      *)
(* drawing: screen says which picture is on the upper part of the screen,  *)
(* and from which data.                                                    *)
(***************************************************************************)
EXTENDS DataSets, HeatMap

CONSTANTS
    Touches,     \* the points <<x, y>> the user may press
    Paths,       \* the paths the phone may send, sequences of positions
    gps_realtime,  \* the position read at the start
    SavedSets    \* what the data sets may hold after the start, points on the screen

YRES == 480
NMENUS == 3

\* Palette numbers, and the pairs of background and text colours.
BLACK == 0
WHITE == 1
RED == 2
BLUE == 4
YELLOW == 5
CYAN == 6
NCOLOURS == 8
NPAIRS == 3
pairs == << [background |-> WHITE,  text |-> BLACK],
            [background |-> CYAN,   text |-> RED],
            [background |-> YELLOW, text |-> BLUE] >>
Pair(n) == pairs[n + 1]

ASSUME MenusAssumption ==
    /\ Touches \subseteq (0 .. XRES) \X (0 .. YRES)
    /\ gps_realtime \in Int \X Int
    /\ \A path \in Paths : path \in Seq(Int \X Int)
    /\ \A sets \in SavedSets : sets \in [Slots -> Seq(Int \X Int)]

VARIABLES
    aggregateSet,    \* of datasets.h: the points of all sets
    pc,              \* where main_menu is
    p,               \* the point last pressed
    firstTime, showing_heatmap, outSubMenu, aggregate,  \* locals of main_menu
    colourScheme,
    heatmap,         \* the points the heat map and the percentages are made of
    screen           \* the picture on the screen and its data

dataVars == <<localData, aggregateSet>>
vars == <<dataVars, pc, p, firstTime, showing_heatmap, outSubMenu, aggregate,
          colourScheme, heatmap, screen>>
viewVars == <<firstTime, showing_heatmap, outSubMenu>>

px == p[1]
py == p[2]
currNPoints == Len(heatmap)
-------------------------------------------------------------------------------
(* The sets, point by point.                                               *)

\* The points of all sets, in the order of their slots.
Aggregate(sets) ==
    LET upTo[i \in 0 .. MAX_N_SETS] ==
            IF i = 0 THEN <<>> ELSE upTo[i - 1] \o sets[i - 1]
    IN  upTo[MAX_N_SETS]

AggregateUnreset(sets) == aggregateSet \o Aggregate(sets)
setupAggregate(sets) == Aggregate(sets)

-------------------------------------------------------------------------------
(* Pictures.                                                                *)

draw_heatmap(data) == [picture |-> "heatmap", data |-> data]
connect_points     == [picture |-> "points",
                       data |-> IF aggregate THEN Aggregate(dataSets) ELSE Latest]
Menu(name, data)   == [picture |-> name, data |-> data]
-------------------------------------------------------------------------------
(* The main loop.                                                           *)

Press == p' \in Touches

FirstPress == /\ pc = "start"
              /\ Press /\ pc' = "loop"
              /\ UNCHANGED <<dataVars, viewVars, aggregate, colourScheme, heatmap, screen>>

LoopTop == /\ pc = "loop"
           /\ IF py < MENU_TOP /\ ~outSubMenu /\ ~firstTime THEN Press ELSE UNCHANGED p
           /\ pc' = "branch"
           /\ UNCHANGED <<dataVars, viewVars, aggregate, colourScheme, heatmap, screen>>

ToggleAlways == ~outSubMenu
Toggle == ~outSubMenu /\ ~firstTime

\* The upper part of the screen was touched, or a menu was left that way.
View ==
    /\ pc = "branch" /\ py < MENU_TOP
    /\ showing_heatmap' = IF Toggle THEN ~showing_heatmap ELSE showing_heatmap
    /\ outSubMenu' = IF Toggle THEN outSubMenu ELSE FALSE
    /\ screen' = IF showing_heatmap' THEN connect_points ELSE draw_heatmap(heatmap)
    /\ firstTime' = FALSE /\ pc' = "loop"
    /\ UNCHANGED <<dataVars, p, aggregate, colourScheme, heatmap>>

Open(name, picture) ==
    /\ pc = "branch" /\ py >= MENU_TOP
    /\ showing_heatmap' = IF firstTime THEN ~showing_heatmap ELSE showing_heatmap
    /\ screen' = picture
    /\ pc' = name
    /\ UNCHANGED <<dataVars, p, firstTime, outSubMenu, aggregate, colourScheme, heatmap>>

OpenSaveLoad  == px < XRES \div NMENUS /\ Open("SaveLoadMenu", Menu("save", <<>>))

\* What follows the return of a menu in the loop.
BackToLoop == outSubMenu' = TRUE /\ firstTime' = FALSE /\ pc' = "loop"
-------------------------------------------------------------------------------
(* Save and load.                                                           *)

InLoadBoxes(t) == t[2] < 320 /\ t[2] > 210 /\ t[1] > 50 /\ t[1] < 750
OnLatest(t)    == InLoadBoxes(t) /\ t[1] < 375
OnAggregate(t) == InLoadBoxes(t) /\ t[1] > 425
OnDownload(t)  == ~InLoadBoxes(t) /\ t[1] > 200 /\ t[1] < 600 /\ t[2] > 50 /\ t[2] < 160
OnSaveLoad(t)  == t[1] < XRES \div 3 /\ t[2] > MENU_TOP

\* SaveLoadMenu returns ag: the heat map is computed again when that is news.
Selected(ag) == IF ag THEN aggregateSet' ELSE dataSets'[headTimeQueue']
RegenerateNever(ag, computed) == computed
Regenerate(ag, computed) == IF ag # aggregate THEN Selected(ag) ELSE computed

SaveLoadReturns(ag, computed) ==
    /\ aggregate' = ag
    /\ heatmap' = Regenerate(ag, computed)
    /\ screen' = IF p'[2] > MENU_TOP THEN screen ELSE draw_heatmap(heatmap')
    /\ showing_heatmap' = FALSE
    /\ BackToLoop
    /\ UNCHANGED colourScheme

LoadLatest ==
    /\ pc = "SaveLoadMenu" /\ Press /\ OnLatest(p')
    /\ UNCHANGED dataVars /\ SaveLoadReturns(FALSE, heatmap)

LoadAggregate ==
    /\ pc = "SaveLoadMenu" /\ Press /\ OnAggregate(p')
    /\ UNCHANGED dataVars /\ SaveLoadReturns(TRUE, heatmap)

DownloadedStale == heatmap
DownloadedHeatmap == IF aggregate THEN heatmap ELSE Selected(FALSE)

Download ==
    /\ pc = "SaveLoadMenu" /\ Press /\ OnDownload(p')
    /\ \E path \in Paths : StorePath(convertGPSPointsGivenPoints(path, gps_realtime))
    /\ aggregateSet' = setupAggregate(dataSets')
    /\ SaveLoadReturns(FALSE, DownloadedHeatmap)

LeaveSaveLoad ==
    /\ pc = "SaveLoadMenu" /\ Press
    /\ ~(OnLatest(p') \/ OnAggregate(p') \/ OnDownload(p'))
    /\ UNCHANGED dataVars
    /\ \/ ~OnSaveLoad(p') /\ SaveLoadReturns(aggregate, heatmap)
       \/ OnSaveLoad(p') /\ UNCHANGED <<pc, viewVars, aggregate, colourScheme, heatmap, screen>>
-------------------------------------------------------------------------------
(* Interpret.                                                               *)

\* The sets an average is taken over: the divisor is their number.
nSets == {i \in Slots : dataSets[i] # <<>>}

\* How the menu tells the latest path from the aggregate.
OnePath == Len(Latest) = currNPoints

OpenInterpret ==
    /\ px >= XRES \div NMENUS /\ px < (2 * XRES) \div NMENUS
    /\ Open("InterpretMenu", Menu(IF OnePath THEN "time" ELSE "average", heatmap))

LeaveInterpret ==
    /\ pc = "InterpretMenu" /\ Press
    /\ \/ /\ px' > XRES \div NMENUS /\ px' < (2 * XRES) \div NMENUS /\ py' > MENU_TOP
          /\ UNCHANGED <<pc, outSubMenu, firstTime>>
       \/ /\ ~(px' > XRES \div NMENUS /\ px' < (2 * XRES) \div NMENUS /\ py' > MENU_TOP)
          /\ BackToLoop
    /\ UNCHANGED <<dataVars, showing_heatmap, aggregate, colourScheme, heatmap, screen>>
-------------------------------------------------------------------------------
(* Settings.                                                                *)

Background == colourScheme.menuBackground
Line       == colourScheme.connectTheDotsLine

OpenSettings == /\ px >= (2 * XRES) \div NMENUS
                /\ Open("SettingsMenu", Menu("settings", <<>>))

OnButtons(t) == t[1] <= 500 /\ t[1] >= 300
OnPair(t)    == OnButtons(t) /\ t[2] <= 170
OnLine(t)    == OnButtons(t) /\ t[2] <= 390 /\ t[2] > 220
OnSettings(t) == t[1] >= (2 * XRES) \div NMENUS /\ t[2] >= MENU_TOP

\* The do loops: the next pair whose background is not the line's colour, and
\* the next colour that is neither white nor the background.
Following(n) == (n + 1) % NPAIRS
NextPairUnchecked(n) == Following(n)
NextPair(n) == IF Pair(Following(n)).background # Line
               THEN Following(n) ELSE Following(Following(n))
LineAfterUnwrapped(k) == Line + k
LineAfter(k) == (Line + k) % NCOLOURS

\* Two colours at most are skipped.
NextLine ==
    LET Suits(k) == LineAfter(k) \notin {WHITE, Background}
    IN  LineAfter(IF Suits(1) THEN 1 ELSE IF Suits(2) THEN 2 ELSE 3)

InSettings == pc = "SettingsMenu" /\ Press /\ UNCHANGED
                 <<dataVars, showing_heatmap, aggregate, heatmap, screen>>

ChangePair ==
    /\ InSettings /\ OnPair(p')
    /\ LET n == NextPair(colourScheme.pairNum) IN
         colourScheme' = [colourScheme EXCEPT !.pairNum = n,
             !.menuBackground = Pair(n).background, !.text = Pair(n).text]
    /\ UNCHANGED <<pc, firstTime, outSubMenu>>

ChangeLine ==
    /\ InSettings /\ OnLine(p')
    /\ colourScheme' = [colourScheme EXCEPT !.connectTheDotsLine = NextLine]
    /\ UNCHANGED <<pc, firstTime, outSubMenu>>

LeaveSettings ==
    /\ InSettings /\ ~OnPair(p') /\ ~OnLine(p')
    /\ \/ ~OnSettings(p') /\ BackToLoop
       \/ OnSettings(p') /\ UNCHANGED <<pc, firstTime, outSubMenu>>
    /\ UNCHANGED colourScheme
-------------------------------------------------------------------------------
Init ==
    /\ dataSets \in SavedSets /\ headTimeQueue \in Slots
    /\ aggregateSet = Aggregate(dataSets)
    /\ heatmap = Latest /\ screen = draw_heatmap(Latest)
    /\ colourScheme = [menuBackground |-> WHITE, text |-> BLACK,
                       connectTheDotsLine |-> BLACK, pairNum |-> 0]
    /\ firstTime = TRUE /\ showing_heatmap = TRUE
    /\ outSubMenu = FALSE /\ aggregate = FALSE
    /\ p = <<0, 0>> /\ pc = "start"

Next == \/ FirstPress \/ LoopTop \/ View
        \/ OpenSaveLoad \/ LoadLatest \/ LoadAggregate \/ Download \/ LeaveSaveLoad
        \/ OpenInterpret \/ LeaveInterpret
        \/ OpenSettings \/ ChangePair \/ ChangeLine \/ LeaveSettings

Spec == Init /\ [][Next]_vars
-------------------------------------------------------------------------------
(* Properties.                                                              *)

MenuNames == {"SaveLoadMenu", "InterpretMenu", "SettingsMenu"}
Pictures == {"heatmap", "points", "save", "time", "average", "settings"}

Points == Int \X Int

\* Every variable keeps its type; the points of a set are those of a path.
TypeOK ==
    /\ dataSets \in [Slots -> Seq(Points)] /\ headTimeQueue \in Slots
    /\ aggregateSet \in Seq(Points) /\ heatmap \in Seq(Points)
    /\ pc \in {"start", "loop", "branch"} \cup MenuNames
    /\ p \in (0 .. XRES) \X (0 .. YRES)
    /\ {firstTime, showing_heatmap, outSubMenu, aggregate} \subseteq BOOLEAN
    /\ colourScheme \in [menuBackground : 0 .. NCOLOURS - 1, text : 0 .. NCOLOURS - 1,
                          connectTheDotsLine : 0 .. NCOLOURS - 1, pairNum : 0 .. NPAIRS - 1]
    /\ screen \in [picture : Pictures, data : Seq(Points)]

\* What the user has chosen to see.
Chosen == IF aggregate THEN Aggregate(dataSets) ELSE Latest

\* Whenever the loop is at its top, what is drawn, be it the heat map or the
\* points, is drawn from the data chosen, however old the heat map is
\* (main.c:204 computes it only when it thinks it must).
ViewShowsChosen ==
    pc = "loop" /\ screen.picture \in {"heatmap", "points"} => screen.data = Chosen

\* The interpret menu speaks of an average only of the aggregate, and then has
\* a set to divide by (sub_menus.c:174 decides by comparing two lengths).
AverageHasSets ==
    pc = "InterpretMenu" /\ screen.picture = "average" => aggregate /\ nSets # {}

\* The background is one of the pairs with its text, and the line can be seen
\* on the background and on white, as the comment of SettingsMenu promises.
ColoursDistinct ==
    /\ Pair(colourScheme.pairNum) = [background |-> Background, text |-> colourScheme.text]
    /\ Line \notin {WHITE, Background}

\* A touch of the picture, when it is not the one that closes a menu, shows the
\* other picture of the same data: the user never has to touch twice.
TouchTurnsPicture ==
    [][View /\ screen.picture \in {"heatmap", "points"} /\ ~outSubMenu
       => screen'.picture # screen.picture /\ screen'.data = screen.data]_vars

\* A download ages every path by one and forgets the oldest only.
DownloadDropsOldest ==
    [][Download => \A k \in 0 .. MAX_N_SETS - 2 :
          Before(dataSets', headTimeQueue', k + 1) = Before(dataSets, headTimeQueue, k)]_vars

OnMap(q) == q[1] >= 0 /\ q[1] < XRES /\ q[2] >= 0 /\ q[2] < MENU_TOP

\* The cells of the heat map share the map out: whatever the points, one on the
\* map is counted in exactly one cell, although the cells are of different
\* heights and heatmap.c:26 leaves only the inner of its two loops.
EveryPointCounted ==
    pc = "loop" => \A i \in DOMAIN heatmap :
        Cardinality({c \in Cells : InCell(heatmap[i], c)}) = IF OnMap(heatmap[i]) THEN 1 ELSE 0

\* A cell where somebody has been never looks like one where nobody has, and a
\* cell visited more often is not shown colder; the hottest is red.
ShadesRankCells ==
    LET count  == Count(heatmap)
        counts == {count[c] : c \in Cells}
    IN  pc = "loop" /\ Cardinality(counts) > 1 =>
          /\ Shade(max_count(counts), counts) = HM_SHADES - 1
          /\ \A n, m \in counts :
               /\ Shade(n, counts) \in 0 .. HM_SHADES - 1
               /\ n < m => Shade(n, counts) <= Shade(m, counts)
               /\ Shade(n, counts) = 0 <=> n = min_count(counts)

\* The paths of the aggregate can be told from each other and from the latest;
\* one of them is drawn in the white of the picture only when the background of
\* the menus is not white any more (heatmap.c:97 does not skip it).
PathColoursDistinct ==
    LET colours == SetColours(MAX_N_SETS, headTimeQueue, Line, Background)
    IN  \A i, j \in DOMAIN colours :
          /\ colours[i] = colours[j] => i = j
          /\ colours[i] \notin {Line, Background}
          /\ colours[i] = WHITE => Background # WHITE
===============================================================================

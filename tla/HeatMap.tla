-------------------------------- MODULE HeatMap --------------------------------
(***************************************************************************)
(* What the pictures are computed from a path: conversion.c places its     *)
(* points on the screen, heatmap.c counts them in cells and shades the     *)
(* cells, and gives each of several paths a colour.                        *)
(*                                                                         *)
(* A position is in millionths of a degree.  Coordinates of pixels are     *)
(* floats in the code and their floors here: all they are compared with    *)
(* are whole numbers, and to draw them they are cut to whole numbers.      *)
(***************************************************************************)
EXTENDS Integers, Sequences, FiniteSets

XRES == 800
MENU_TOP == 440
HEATMAP_H == 10
HEATMAP_V == 6
HM_SHADES == 10

\* Half the size of the map, in degrees.
LONG_P_M_FLT == 5206
LAT_P_M_FLT  == 7865

\* Where the map, whose middle is at gps_realtime, shows a position.  Less than a
\* pixel beyond the map is on its edge: the floor is the edge already.
convertGPSPoint(position, gps_realtime) ==
    << (XRES * (position[1] - (gps_realtime[1] - LONG_P_M_FLT))) \div (2 * LONG_P_M_FLT),
       (MENU_TOP * 2 * LAT_P_M_FLT
          - MENU_TOP * (position[2] - (gps_realtime[2] - LAT_P_M_FLT))) \div (2 * LAT_P_M_FLT) >>

convertGPSPointsGivenPoints(path, gps_realtime) ==
    [i \in DOMAIN path |-> convertGPSPoint(path[i], gps_realtime)]
-------------------------------------------------------------------------------
(* The heat map.                                                            *)

Cells == (0 .. HEATMAP_H - 1) \X (0 .. HEATMAP_V - 1)

InCellClosed(q, c) ==
    /\ q[1] <= ((c[1] + 1) * XRES) \div HEATMAP_H     /\ q[1] >= (c[1] * XRES) \div HEATMAP_H
    /\ q[2] <= ((c[2] + 1) * MENU_TOP) \div HEATMAP_V /\ q[2] >= (c[2] * MENU_TOP) \div HEATMAP_V
InCell(q, c) ==
    /\ q[1] < ((c[1] + 1) * XRES) \div HEATMAP_H     /\ q[1] >= (c[1] * XRES) \div HEATMAP_H
    /\ q[2] < ((c[2] + 1) * MENU_TOP) \div HEATMAP_V /\ q[2] >= (c[2] * MENU_TOP) \div HEATMAP_V

\* count[x][y] of gen_heatmap: all cells of a row are tried until one holds the
\* point, and then those of the next row.
Count(points) == [c \in Cells |-> Cardinality({i \in DOMAIN points : InCell(points[i], c)})]

max_count(counts) == CHOOSE n \in counts : \A m \in counts : m <= n
min_count(counts) == CHOOSE n \in counts : \A m \in counts : m >= n

\* The shade of a cell with n points, where counts are the counts of all cells: a
\* quotient rounded up.  With no difference between the cells it is 0 / 0 in the
\* code and nothing here.
RoundedDown(n, d) == n \div d
Rounded(n, d) == -((-n) \div d)
Shade(n, counts) ==
    Rounded((n - min_count(counts)) * (HM_SHADES - 1), max_count(counts) - min_count(counts))
-------------------------------------------------------------------------------
(* The colours of connect_points_all_sets.                                  *)

\* The first colour from k on that is neither the line's nor the background.
SkipOne(k, line, background) ==
    IF k \in {line, background} THEN k + 1 ELSE k
Skip(k, line, background) ==
    CHOOSE n \in k .. k + 2 : /\ n \notin {line, background}
                              /\ k .. n - 1 \subseteq {line, background}

\* The colour each set of 0 .. sets - 1 but the latest is drawn with.
SetColours(sets, latest, line, background) ==
    LET after[i \in -1 .. sets - 1] ==   \* color after the round i of the loop
            IF i = -1 THEN 0
            ELSE IF i = latest THEN after[i - 1]
            ELSE Skip(after[i - 1], line, background) + 1
    IN  [i \in (0 .. sets - 1) \ {latest} |-> after[i] - 1]
===============================================================================

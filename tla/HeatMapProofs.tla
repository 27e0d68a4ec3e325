----------------------------- MODULE HeatMapProofs -----------------------------
(***************************************************************************)
(* What the pictures are computed from, for any path: the cells share the  *)
(* map out, the shades rank them, and the colours of the paths differ.     *)
(*                                                                         *)
(* The lemmas of the first section stand for induction: the sets of        *)
(* indices that have a property take the place of the property.            *)
(***************************************************************************)
EXTENDS HeatMap, FiniteSetTheorems, WellFoundedInduction, TLAPS

(* Numbers and functions defined by recursion.                              *)

\* A set of naturals that is not empty has a least element.
LEMMA LeastElement ==
  ASSUME NEW S \in SUBSET Nat, S # {}
  PROVE  \E n \in S : \A m \in S : n <= m
<1>1. PICK n \in S : \A m \in S : ~(<<m, n>> \in OpToRel(<, Nat))
  <2>1. IsWellFoundedOn(OpToRel(<, Nat), Nat) BY NatLessThanWellFounded, Zenon
  <2>2. QED BY <2>1, WFMin, Zenon
<1>2. ASSUME NEW m \in S PROVE n <= m
  <2>1. n \in Nat /\ m \in Nat OBVIOUS
  <2>2. m < n => <<m, n>> \in OpToRel(<, Nat)
    BY <2>1, Zenon DEF OpToRel
  <2>3. ~(m < n) BY <1>1, <2>2
  <2>4. QED BY <2>1, <2>3
<1>3. QED BY <1>2

\* A set of naturals below a bound has a greatest element.
LEMMA GreatestElement ==
  ASSUME NEW S \in SUBSET Nat, S # {}, NEW bound \in Nat, \A m \in S : m <= bound
  PROVE  \E n \in S : \A m \in S : m <= n
<1> DEFINE bounds == {n \in Nat : \A m \in S : m <= n}
<1>1. PICK n \in bounds : \A b \in bounds : n <= b
  <2>1. bounds \in SUBSET Nat /\ bounds # {} OBVIOUS
  <2> HIDE DEF bounds
  <2>2. QED BY <2>1, LeastElement
<1>2. n \in Nat /\ \A m \in S : m <= n OBVIOUS
<1>3. ASSUME n \notin S PROVE FALSE
  <2>1. PICK k \in S : TRUE OBVIOUS
  <2>2. \A m \in S : m \in Nat /\ m <= n /\ m # n BY <1>2, <1>3
  <2>3. n # 0 BY <1>2, <2>1, <2>2
  <2>4. n - 1 \in Nat /\ \A m \in S : m <= n - 1 BY <1>2, <2>2, <2>3
  <2>5. n - 1 \in bounds BY <2>4
  <2>6. QED BY <1>1, <1>2, <2>5
<1>4. QED BY <1>2, <1>3

\* What holds of 0, and of i + 1 when it holds of i, holds up to n.
LEMMA UpTo ==
  ASSUME NEW n \in Nat, NEW S, 0 \in S, \A i \in 0 .. n - 1 : i \in S => i + 1 \in S
  PROVE  0 .. n \subseteq S
<1> DEFINE rest == (0 .. n) \ S
<1>1. SUFFICES ASSUME rest # {} PROVE FALSE OBVIOUS
<1>2. PICK k \in rest : \A m \in rest : k <= m
  <2>1. rest \in SUBSET Nat OBVIOUS
  <2> HIDE DEF rest
  <2>2. QED BY <1>1, <2>1, LeastElement
<1>3. k \in 1 .. n OBVIOUS
<1>4. k - 1 \in 0 .. n - 1 /\ (k - 1) + 1 = k BY <1>3
<1>5. k - 1 \notin rest BY <1>2, <1>3
<1>6. k - 1 \in S BY <1>3, <1>5
<1>7. QED BY <1>4, <1>6

\* A recursive definition on 0 .. n, whose step is a function, defines a function.
IsRecursive(f, n, v, step) == f = [i \in 0 .. n |-> IF i = 0 THEN v ELSE step[<<f[i - 1], i>>]]

LEMMA RecursiveFunction ==
  ASSUME NEW n \in Nat, NEW V, NEW v \in V, NEW step \in [V \X (1 .. n) -> V]
  PROVE  \E f \in [0 .. n -> V] : IsRecursive(f, n, v, step)
<1> DEFINE Defines(f, k) == f[0] = v /\ \A i \in 1 .. k : f[i] = step[<<f[i - 1], i>>]
           S == {k \in 0 .. n : \E f \in [0 .. k -> V] : Defines(f, k)}
<1>1. 0 \in S
  <2>1. [i \in 0 .. 0 |-> v] \in [0 .. 0 -> V] OBVIOUS
  <2>2. Defines([i \in 0 .. 0 |-> v], 0) OBVIOUS
  <2>3. 0 \in 0 .. n OBVIOUS
  <2> HIDE DEF Defines
  <2>4. QED BY <2>1, <2>2, <2>3
<1>2. ASSUME NEW k \in 0 .. n - 1, k \in S PROVE k + 1 \in S
  <2>1. PICK f \in [0 .. k -> V] : Defines(f, k) BY <1>2
  <2> DEFINE g == [i \in 0 .. k + 1 |-> IF i = k + 1 THEN step[<<f[k], k + 1>>] ELSE f[i]]
  <2>2. k \in 0 .. k /\ k + 1 \in 1 .. n /\ f[k] \in V OBVIOUS
  <2>3. <<f[k], k + 1>> \in V \X (1 .. n) BY <2>2
  <2>4. step[<<f[k], k + 1>>] \in V BY <2>3
  <2>5. g \in [0 .. k + 1 -> V]
    <3>1. \A i \in 0 .. k + 1 : i = k + 1 \/ i \in 0 .. k OBVIOUS
    <3>2. QED BY <2>4, <3>1
  <2>6. g[0] = v /\ \A i \in 0 .. k : g[i] = f[i] BY <2>1
  <2>7. g[k + 1] = step[<<g[k], k + 1>>] BY <2>2, <2>6
  <2>8. ASSUME NEW i \in 1 .. k + 1 PROVE g[i] = step[<<g[i - 1], i>>]
    <3>1. CASE i = k + 1
      <4>1. i - 1 = k BY <3>1
      <4>2. QED BY <2>7, <3>1, <4>1
    <3>2. CASE i # k + 1
      <4>1. i \in 1 .. k /\ i - 1 \in 0 .. k /\ i \in 0 .. k BY <3>2
      <4> HIDE DEF g
      <4>2. QED BY <2>1, <2>6, <4>1
    <3>3. QED BY <3>1, <3>2
  <2> HIDE DEF g
  <2>9. Defines(g, k + 1) BY <2>6, <2>8
  <2> HIDE DEF Defines
  <2>10. QED BY <2>2, <2>5, <2>9
<1>3. n \in S
  <2> HIDE DEF S
  <2>1. 0 .. n \subseteq S BY <1>1, <1>2, UpTo
  <2>2. QED BY <2>1
<1>4. PICK f \in [0 .. n -> V] : Defines(f, n) BY <1>3
<1>5. \A i \in 0 .. n : f[i] = IF i = 0 THEN v ELSE step[<<f[i - 1], i>>]
  BY <1>4
<1>6. f = [i \in 0 .. n |-> f[i]] OBVIOUS
<1>7. QED BY <1>5, <1>6 DEF IsRecursive
-------------------------------------------------------------------------------
(* The cells.                                                               *)

OnCells(q) == q[1] >= 0 /\ q[1] < XRES /\ q[2] >= 0 /\ q[2] < MENU_TOP

\* The column and the row of a point; rows are of 73 or 74 pixels.
LEMMA OneColumn ==
  ASSUME NEW x \in Int, 0 <= x, x < XRES
  PROVE  \E a \in 0 .. HEATMAP_H - 1 : \A b \in 0 .. HEATMAP_H - 1 :
           (x < ((b + 1) * XRES) \div HEATMAP_H /\ x >= (b * XRES) \div HEATMAP_H) <=> b = a
<1>1. x \div 80 \in 0 .. 9 BY DEF XRES
<1>2. \A b \in 0 .. 9 : ((b + 1) * 800) \div 10 = 80 * b + 80 /\ (b * 800) \div 10 = 80 * b
  OBVIOUS
<1>3. \A b \in 0 .. 9 : (x < 80 * b + 80 /\ x >= 80 * b) <=> b = x \div 80
  OBVIOUS
<1>4. QED BY <1>1, <1>2, <1>3 DEF XRES, HEATMAP_H

LEMMA OneRow ==
  ASSUME NEW y \in Int, 0 <= y, y < MENU_TOP
  PROVE  \E a \in 0 .. HEATMAP_V - 1 : \A b \in 0 .. HEATMAP_V - 1 :
           (y < ((b + 1) * MENU_TOP) \div HEATMAP_V /\ y >= (b * MENU_TOP) \div HEATMAP_V) <=> b = a
<1> DEFINE top(b) == (b * 440) \div 6
<1>1. /\ top(0) = 0 /\ top(1) = 73 /\ top(2) = 146 /\ top(3) = 220
      /\ top(4) = 293 /\ top(5) = 366 /\ top(6) = 440
  OBVIOUS
<1> HIDE DEF top
<1>2. \A b \in 0 .. 5 : b \in {0, 1, 2, 3, 4, 5} OBVIOUS
<1>3. 0 <= y /\ y < 440 BY DEF MENU_TOP
<1>4. \E a \in 0 .. 5 : \A b \in 0 .. 5 : (y < top(b + 1) /\ y >= top(b)) <=> b = a
  <2> DEFINE In(a) == \A b \in 0 .. 5 : (y < top(b + 1) /\ y >= top(b)) <=> b = a
  <2>1. CASE y < 73 
    <3>1. In(0) BY <1>1, <1>2, <1>3, <2>1
    <3>2. QED BY <3>1
  <2>2. CASE y >= 73 /\ y < 146
    <3>1. In(1) BY <1>1, <1>2, <2>2
    <3>2. QED BY <3>1
  <2>3. CASE y >= 146 /\ y < 220
    <3>1. In(2) BY <1>1, <1>2, <2>3
    <3>2. QED BY <3>1
  <2>4. CASE y >= 220 /\ y < 293
    <3>1. In(3) BY <1>1, <1>2, <2>4
    <3>2. QED BY <3>1
  <2>5. CASE y >= 293 /\ y < 366
    <3>1. In(4) BY <1>1, <1>2, <2>5
    <3>2. QED BY <3>1
  <2>6. CASE y >= 366
    <3>1. In(5) BY <1>1, <1>2, <1>3, <2>6
    <3>2. QED BY <3>1
  <2> HIDE DEF In
  <2>7. QED BY <1>3, <2>1, <2>2, <2>3, <2>4, <2>5, <2>6
<1>5. QED BY <1>4 DEF top, MENU_TOP, HEATMAP_V

\* A point outside the map is in no cell.
LEMMA NoCell ==
  ASSUME NEW q \in Int \X Int, NEW c \in Cells, InCell(q, c)
  PROVE  OnCells(q)
<1>1. PICK a \in 0 .. 9, b \in 0 .. 5 : c = <<a, b>>
  BY DEF Cells, HEATMAP_H, HEATMAP_V
<1>2. /\ q[1] < ((a + 1) * 800) \div 10 /\ q[1] >= (a * 800) \div 10
      /\ q[2] < ((b + 1) * 440) \div 6 /\ q[2] >= (b * 440) \div 6
  BY <1>1 DEF InCell, XRES, MENU_TOP, HEATMAP_H, HEATMAP_V
<1>3. q[1] \in Int /\ q[2] \in Int OBVIOUS
<1>4. q[1] >= 0 /\ q[1] < 800 BY <1>2, <1>3
<1>5. q[2] >= 0 /\ q[2] < 440 BY <1>2, <1>3
<1>6. QED BY <1>4, <1>5 DEF OnCells, XRES, MENU_TOP

\* The cells share the map out.
LEMMA CellsShareMap ==
  ASSUME NEW q \in Int \X Int
  PROVE  Cardinality({c \in Cells : InCell(q, c)}) = IF OnCells(q) THEN 1 ELSE 0
<1> DEFINE in == {c \in Cells : InCell(q, c)}
<1>1. CASE ~OnCells(q)
  <2>1. in = {} BY <1>1, NoCell
  <2>2. QED BY <1>1, <2>1, FS_EmptySet
<1>2. CASE OnCells(q)
  <2>1. /\ q[1] \in Int /\ 0 <= q[1] /\ q[1] < XRES
        /\ q[2] \in Int /\ 0 <= q[2] /\ q[2] < MENU_TOP
    BY <1>2 DEF OnCells, XRES, MENU_TOP
  <2>2. PICK x \in 0 .. HEATMAP_H - 1 : \A b \in 0 .. HEATMAP_H - 1 :
           (q[1] < ((b + 1) * XRES) \div HEATMAP_H /\ q[1] >= (b * XRES) \div HEATMAP_H) <=> b = x
    BY <2>1, OneColumn
  <2>3. PICK y \in 0 .. HEATMAP_V - 1 : \A b \in 0 .. HEATMAP_V - 1 :
           (q[2] < ((b + 1) * MENU_TOP) \div HEATMAP_V /\ q[2] >= (b * MENU_TOP) \div HEATMAP_V) <=> b = y
    BY <2>1, OneRow
  <2>4. ASSUME NEW a \in 0 .. HEATMAP_H - 1, NEW b \in 0 .. HEATMAP_V - 1
        PROVE  InCell(q, <<a, b>>) <=> a = x /\ b = y
    BY <2>2, <2>3 DEF InCell
  <2>5. in = {<<x, y>>}
    <3>1. <<x, y>> \in in BY <2>4 DEF Cells
    <3>2. ASSUME NEW c \in in PROVE c = <<x, y>>
      <4>1. PICK a \in 0 .. HEATMAP_H - 1, b \in 0 .. HEATMAP_V - 1 : c = <<a, b>>
        BY DEF Cells
      <4>2. InCell(q, <<a, b>>) BY <4>1
      <4>3. QED BY <2>4, <4>1, <4>2
    <3> HIDE DEF in
    <3>3. QED BY <3>1, <3>2
  <2> HIDE DEF in
  <2>6. Cardinality(in) = 1 BY <2>5, FS_Singleton
  <2>7. QED BY <1>2, <2>6 DEF in
<1>3. QED BY <1>1, <1>2
-------------------------------------------------------------------------------
(* The shades.                                                              *)

\* The count of a cell is at most the number of points.
LEMMA CountType ==
  ASSUME NEW points \in Seq(Int \X Int), NEW c \in Cells
  PROVE  Count(points)[c] \in 0 .. Len(points)
<1> DEFINE in == {i \in DOMAIN points : InCell(points[i], c)}
<1>1. DOMAIN points = 1 .. Len(points) /\ Len(points) \in Nat OBVIOUS
<1>2. IsFiniteSet(1 .. Len(points)) /\ Cardinality(1 .. Len(points)) = Len(points)
  BY <1>1, FS_Interval
<1>3. in \in SUBSET (1 .. Len(points)) BY <1>1
<1> HIDE DEF in
<1>4. Cardinality(in) <= Len(points) /\ IsFiniteSet(in)
  BY <1>2, <1>3, FS_Subset
<1>5. Cardinality(in) \in Nat BY <1>4, FS_CardinalityType
<1>6. Count(points)[c] = Cardinality(in) BY DEF Count, in
<1>7. QED BY <1>1, <1>4, <1>5, <1>6

\* Counts have a least and a greatest one, apart when the counts differ.
LEMMA CountBounds ==
  ASSUME NEW counts \in SUBSET Nat, NEW bound \in Nat, \A m \in counts : m <= bound,
         Cardinality(counts) > 1
  PROVE  /\ min_count(counts) \in counts /\ max_count(counts) \in counts
         /\ \A n \in counts : min_count(counts) <= n /\ n <= max_count(counts)
         /\ min_count(counts) < max_count(counts)
<1>1. IsFiniteSet(counts) BY FS_BoundedSetOfNaturals
<1>2. counts # {} BY FS_EmptySet
<1>3. max_count(counts) \in counts /\ \A n \in counts : n <= max_count(counts)
  <2>1. \E n \in counts : \A m \in counts : m <= n
    <3>1. bound \in Nat /\ \A m \in counts : m <= bound OBVIOUS
    <3>2. QED BY <1>2, <3>1, GreatestElement
  <2>2. QED BY <2>1, Zenon DEF max_count
<1>4. min_count(counts) \in counts /\ \A n \in counts : n >= min_count(counts)
  <2>1. \E n \in counts : \A m \in counts : m >= n
    <3>1. PICK n \in counts : \A m \in counts : n <= m BY <1>2, LeastElement
    <3>2. QED BY <3>1
  <2>2. QED BY <2>1, Zenon DEF min_count
<1> DEFINE low == min_count(counts)
           high == max_count(counts)
<1>5. /\ low \in counts /\ high \in counts
      /\ \A n \in counts : n \in Nat /\ low <= n /\ n <= high
  BY <1>3, <1>4
<1> HIDE DEF low, high
<1>6. ASSUME high = low PROVE FALSE
  <2>1. \A n \in counts : n = high BY <1>5, <1>6
  <2>2. counts = {high} BY <1>5, <2>1
  <2>3. Cardinality(counts) = 1 BY <1>1, <2>2, FS_Singleton
  <2>4. QED BY <2>3
<1>7. low < high BY <1>5, <1>6
<1>8. QED BY <1>5, <1>7 DEF low, high

\* What a quotient rounded up is.
LEMMA RoundedUp ==
  ASSUME NEW n \in Int, NEW d \in Nat \ {0}
  PROVE  /\ Rounded(n, d) \in Int
         /\ n <= d * Rounded(n, d) /\ d * Rounded(n, d) < n + d
<1> DEFINE q == (-n) \div d
<1>1. q \in Int /\ d * q <= -n /\ -n < d * q + d OBVIOUS
<1> HIDE DEF q
<1>2. d * (-q) = -(d * q) BY <1>1
<1>3. Rounded(n, d) = -q BY DEF Rounded, q
<1>4. QED BY <1>1, <1>2, <1>3

\* Two multiples of the same number compare as their factors do.
LEMMA FactorsCompare ==
  ASSUME NEW d \in Nat \ {0}, NEW a \in Int, NEW b \in Int, d * a < d * b + d
  PROVE  a <= b
<1>1. SUFFICES ASSUME a >= b + 1 PROVE FALSE OBVIOUS
<1>2. d * (b + 1) = d * b + d OBVIOUS
<1>3. d * (a - (b + 1)) >= 0 BY <1>1
<1>4. d * (a - (b + 1)) = d * a - d * (b + 1) BY <1>1
<1>5. QED BY <1>2, <1>3, <1>4

\* The shades rank the counts: 0 is for the least one only, 9 for the greatest.
LEMMA ShadesRank ==
  ASSUME NEW counts \in SUBSET Nat, NEW bound \in Nat, \A m \in counts : m <= bound,
         Cardinality(counts) > 1
  PROVE  /\ Shade(max_count(counts), counts) = HM_SHADES - 1
         /\ \A n, m \in counts :
               /\ Shade(n, counts) \in 0 .. HM_SHADES - 1
               /\ n < m => Shade(n, counts) <= Shade(m, counts)
               /\ Shade(n, counts) = 0 <=> n = min_count(counts)
<1> DEFINE low == min_count(counts)
           high == max_count(counts)
           d == high - low
           shade(n) == Rounded((n - low) * 9, d)
<1>1. /\ low \in counts /\ high \in counts /\ low < high
      /\ \A n \in counts : low <= n /\ n <= high
  BY CountBounds
<1>2. \A n : Shade(n, counts) = shade(n) BY DEF Shade, HM_SHADES
<1> HIDE DEF low, high
<1>3. low \in Nat /\ high \in Nat /\ d \in Nat \ {0} BY <1>1
<1>4. \A n \in counts : n \in Nat /\ n - low \in 0 .. d BY <1>1, <1>3
<1>5. ASSUME NEW n \in counts
      PROVE  /\ shade(n) \in Int
             /\ (n - low) * 9 <= d * shade(n) /\ d * shade(n) < (n - low) * 9 + d
  <2> DEFINE k == (n - low) * 9
  <2>1. k \in Int BY <1>3, <1>4
  <2>2. shade(n) = Rounded(k, d) OBVIOUS
  <2> HIDE DEF k, d
  <2>3. Rounded(k, d) \in Int /\ k <= d * Rounded(k, d) /\ d * Rounded(k, d) < k + d
    BY <1>3, <2>1, RoundedUp
  <2> HIDE DEF shade
  <2>4. QED BY <2>2, <2>3 DEF k
<1>6. high - low = d OBVIOUS
<1> HIDE DEF d, shade
<1>7. ASSUME NEW n \in counts PROVE shade(n) \in 0 .. 9
  <2>1. /\ d * shade(n) >= 0 /\ d * shade(n) < 9 * d + d /\ shade(n) \in Int
    BY <1>3, <1>4, <1>5
  <2>2. d * (-1) = -d /\ d * 0 = 0 /\ d * 9 = 9 * d BY <1>3
  <2>3. d * 0 < d * shade(n) + d /\ d * shade(n) < d * 9 + d BY <1>3, <2>1, <2>2
  <2>4. 0 <= shade(n) /\ shade(n) <= 9 BY <1>3, <2>1, <2>3, FactorsCompare
  <2>5. QED BY <2>1, <2>4
<1>8. shade(high) = 9
  <2>1. 9 * d <= d * shade(high) /\ shade(high) \in 0 .. 9
    BY <1>1, <1>3, <1>5, <1>6, <1>7
  <2>2. d * 9 < d * shade(high) + d BY <1>3, <2>1
  <2>3. 9 <= shade(high) BY <1>3, <2>1, <2>2, FactorsCompare
  <2>4. QED BY <2>1, <2>3
<1>9. ASSUME NEW n \in counts, NEW m \in counts, n < m PROVE shade(n) <= shade(m)
  <2>1. /\ d * shade(n) < (n - low) * 9 + d /\ (m - low) * 9 <= d * shade(m)
        /\ shade(n) \in Int /\ shade(m) \in Int /\ (n - low) * 9 <= (m - low) * 9
    BY <1>3, <1>4, <1>5, <1>9
  <2>2. d * shade(n) < d * shade(m) + d
    <3>1. d * shade(n) \in Int /\ d * shade(m) \in Int BY <1>3, <2>1
    <3>2. QED BY <1>3, <1>4, <2>1, <3>1
  <2>3. QED BY <1>3, <2>1, <2>2, FactorsCompare
<1>10. ASSUME NEW n \in counts PROVE shade(n) = 0 <=> n = low
  <2>1. CASE n = low
    <3>1. d * shade(n) < d /\ shade(n) \in 0 .. 9
      BY <1>3, <1>5, <1>7, <2>1
    <3>2. d * shade(n) < d * 0 + d BY <1>3, <3>1
    <3>3. shade(n) <= 0 BY <1>3, <3>1, <3>2, FactorsCompare
    <3>4. QED BY <2>1, <3>1, <3>3
  <2>2. CASE n # low
    <3>1. (n - low) * 9 > 0 BY <1>3, <1>4, <2>2
    <3>2. d * shade(n) > 0 BY <1>3, <1>4, <1>5, <3>1
    <3>3. d * 0 = 0 BY <1>3
    <3>4. QED BY <2>2, <3>2, <3>3
  <2>3. QED BY <2>1, <2>2
<1>11. \A n, m \in counts :
         /\ shade(n) \in 0 .. 9
         /\ n < m => shade(n) <= shade(m)
         /\ shade(n) = 0 <=> n = low
  BY <1>7, <1>9, <1>10
<1>12. QED BY <1>2, <1>8, <1>11 DEF HM_SHADES, high, low
-------------------------------------------------------------------------------
(* The colours of the paths.                                                *)

\* Two colours are skipped at most.
LEMMA SkipsTwo ==
  ASSUME NEW k \in Nat, NEW line, NEW background
  PROVE  Skip(k, line, background) \in k .. k + 2 /\ Skip(k, line, background) \notin {line, background}
<1> DEFINE Suits(n) == n \notin {line, background} /\ k .. n - 1 \subseteq {line, background}
<1>1. \E n \in k .. k + 2 : Suits(n)
  <2>1. CASE k \notin {line, background}
    <3>1. k .. k - 1 = {} /\ k \in k .. k + 2 OBVIOUS
    <3>2. QED BY <2>1, <3>1
  <2>2. CASE k \in {line, background} /\ k + 1 \notin {line, background}
    <3>1. k .. (k + 1) - 1 = {k} /\ k + 1 \in k .. k + 2 OBVIOUS
    <3>2. QED BY <2>2, <3>1
  <2>3. CASE k \in {line, background} /\ k + 1 \in {line, background}
    <3>1. k .. (k + 2) - 1 = {k, k + 1} /\ k + 2 \in k .. k + 2 OBVIOUS
    <3>2. k + 2 \notin {line, background} BY <2>3
    <3>3. QED BY <2>3, <3>1, <3>2
  <2>4. QED BY <2>1, <2>2, <2>3
<1>2. QED BY <1>1, Zenon DEF Skip

\* The variable color of the loop, after each of its rounds.
AfterRounds(after, sets, latest, line, background) ==
    \A i \in 0 .. sets - 1 :
        after[i] = IF i = latest THEN after[i - 1]
                   ELSE Skip(after[i - 1], line, background) + 1

LEMMA LoopColours ==
  ASSUME NEW sets \in Nat, NEW latest \in Int, NEW line, NEW background
  PROVE  \E after \in [-1 .. sets - 1 -> Nat] :
           /\ SetColours(sets, latest, line, background)
                = [i \in (0 .. sets - 1) \ {latest} |-> after[i] - 1]
           /\ AfterRounds(after, sets, latest, line, background)
<1> DEFINE next(f, i) == IF i = -1 THEN 0
                         ELSE IF i = latest THEN f[i - 1]
                         ELSE Skip(f[i - 1], line, background) + 1
           Is(f) == f = [i \in -1 .. sets - 1 |-> next(f, i)]
           after == CHOOSE f : Is(f)
<1>1. \E f : Is(f)
  <2> DEFINE step == [a \in Nat \X (1 .. sets) |->
                        IF a[2] - 1 = latest THEN a[1] ELSE Skip(a[1], line, background) + 1]
  <2>1. step \in [Nat \X (1 .. sets) -> Nat]
    <3>1. ASSUME NEW k \in Nat PROVE Skip(k, line, background) + 1 \in Nat
      BY SkipsTwo
    <3>2. QED BY <3>1
  <2> HIDE DEF step
  <2>2. PICK f \in [0 .. sets -> Nat] : IsRecursive(f, sets, 0, step)
    <3>1. 0 \in Nat /\ sets \in Nat OBVIOUS
    <3>2. QED BY <2>1, <3>1, RecursiveFunction, Zenon
  <2> DEFINE g == [i \in -1 .. sets - 1 |-> f[i + 1]]
  <2>3. ASSUME NEW i \in -1 .. sets - 1 PROVE g[i] = next(g, i)
    <3>1. CASE i = -1 BY <2>2, <3>1 DEF IsRecursive
    <3>2. CASE i # -1
      <4>1. /\ i + 1 \in 1 .. sets /\ i + 1 # 0 /\ (i + 1) - 1 = i
            /\ i \in 0 .. sets /\ i + 1 \in 0 .. sets
            /\ i - 1 \in -1 .. sets - 1 /\ (i - 1) + 1 = i
        BY <3>2
      <4>2. f[i + 1] = step[<<f[i], i + 1>>] BY <2>2, <4>1 DEF IsRecursive
      <4>3. f[i] \in Nat /\ <<f[i], i + 1>> \in Nat \X (1 .. sets) BY <4>1
      <4>4. f[i + 1] = IF i = latest THEN f[i] ELSE Skip(f[i], line, background) + 1
        BY <4>1, <4>2, <4>3 DEF step
      <4>5. g[i] = f[i + 1] /\ g[i - 1] = f[i] BY <4>1
      <4>6. QED BY <3>2, <4>4, <4>5
    <3>3. QED BY <3>1, <3>2
  <2>4. g = [i \in -1 .. sets - 1 |-> g[i]] OBVIOUS
  <2> HIDE DEF g
  <2>5. Is(g) BY <2>3, <2>4
  <2>6. QED BY <2>5
<1>2. Is(after)
  <2> HIDE DEF Is
  <2>1. QED BY <1>1, Zenon
<1>3. SetColours(sets, latest, line, background)
        = [i \in (0 .. sets - 1) \ {latest} |-> after[i] - 1]
  BY Zenon DEF SetColours
<1> HIDE DEF after
<1>4. DOMAIN after = -1 .. sets - 1 /\ \A i \in -1 .. sets - 1 : after[i] = next(after, i)
  BY <1>2
<1>5. \A i \in 0 .. sets : after[i - 1] \in Nat
  <2> DEFINE S == {i \in 0 .. sets : after[i - 1] \in Nat}
  <2>1. 0 \in S BY <1>4
  <2>2. ASSUME NEW i \in 0 .. sets - 1, i \in S PROVE i + 1 \in S
    <3>1. after[i - 1] \in Nat /\ i \in -1 .. sets - 1 /\ i # -1 BY <2>2
    <3>2. Skip(after[i - 1], line, background) \in Nat BY <3>1, SkipsTwo
    <3>3. after[i] \in Nat BY <1>4, <3>1, <3>2
    <3>4. (i + 1) - 1 = i /\ i + 1 \in 0 .. sets OBVIOUS
    <3>5. QED BY <3>3, <3>4
  <2> HIDE DEF S
  <2>3. 0 .. sets \subseteq S BY <2>1, <2>2, UpTo
  <2>4. QED BY <2>3 DEF S
<1>6. after \in [-1 .. sets - 1 -> Nat]
  <2>1. ASSUME NEW i \in -1 .. sets - 1 PROVE after[i] \in Nat
    <3>1. i + 1 \in 0 .. sets /\ (i + 1) - 1 = i OBVIOUS
    <3>2. QED BY <1>5, <3>1
  <2>2. QED BY <1>2, <1>4, <2>1
<1>7. \A i \in 0 .. sets - 1 : i \in -1 .. sets - 1 /\ i # -1 OBVIOUS
<1>8. AfterRounds(after, sets, latest, line, background) BY <1>4, <1>7 DEF AfterRounds
<1>9. QED BY <1>3, <1>6, <1>8

\* No two paths have one colour, and none that of the line or the background.
Apart(colours, line, background) ==
    /\ \A i, j \in DOMAIN colours : colours[i] = colours[j] => i = j
    /\ \A i \in DOMAIN colours : colours[i] \notin {line, background}

LEMMA PathColours ==
  ASSUME NEW sets \in Nat, NEW latest \in Int, NEW line, NEW background
  PROVE  Apart(SetColours(sets, latest, line, background), line, background)
<1> DEFINE colours == SetColours(sets, latest, line, background)
<1>1. PICK after \in [-1 .. sets - 1 -> Nat] :
           /\ colours = [i \in (0 .. sets - 1) \ {latest} |-> after[i] - 1]
           /\ AfterRounds(after, sets, latest, line, background)
  BY LoopColours, Zenon
<1> HIDE DEF colours
<1>2. ASSUME NEW i \in 0 .. sets - 1
      PROVE  /\ after[i - 1] \in Nat /\ after[i] \in Nat /\ after[i - 1] <= after[i]
             /\ i # latest => /\ after[i - 1] < after[i]
                             /\ after[i] - 1 \notin {line, background}
  <2>1. i - 1 \in -1 .. sets - 1 /\ i \in -1 .. sets - 1 OBVIOUS
  <2>2. after[i - 1] \in Nat /\ after[i] \in Nat BY <2>1
  <2> DEFINE k == after[i - 1]
             s == Skip(k, line, background)
  <2>3. s \in k .. k + 2 /\ s \notin {line, background} BY <2>2, SkipsTwo
  <2>4. after[i] = IF i = latest THEN k ELSE s + 1 BY <1>1 DEF AfterRounds
  <2>5. k \in Nat BY <2>2
  <2> HIDE DEF s, k
  <2>6. /\ k <= after[i]
        /\ i # latest => k < after[i] /\ after[i] - 1 \notin {line, background}
    <3>1. (s + 1) - 1 = s BY <2>3, <2>5
    <3>2. QED BY <2>3, <2>4, <2>5, <3>1
  <2>7. QED BY <2>2, <2>6 DEF k
<1>3. ASSUME NEW i \in -1 .. sets - 1
      PROVE  \A j \in i .. sets - 1 : after[i] <= after[j]
  <2> DEFINE n == sets - 1 - i
             S == {k \in 0 .. n : after[i] <= after[i + k]}
  <2>1. n \in Nat /\ after[i] \in Nat /\ i + 0 = i OBVIOUS
  <2>2. 0 \in S BY <2>1
  <2>3. ASSUME NEW k \in 0 .. n - 1, k \in S PROVE k + 1 \in S
    <3>1. i + (k + 1) \in 0 .. sets - 1 /\ (i + (k + 1)) - 1 = i + k OBVIOUS
    <3>2. after[i + k] <= after[i + (k + 1)] /\ after[i + k] \in Nat /\ after[i + (k + 1)] \in Nat
      BY <1>2, <3>1
    <3>3. after[i] <= after[i + k] BY <2>3
    <3>4. after[i] <= after[i + (k + 1)] BY <2>1, <3>2, <3>3
    <3>5. QED BY <3>4
  <2> HIDE DEF S
  <2>4. 0 .. n \subseteq S
    <3> HIDE DEF n
    <3>1. QED BY <2>1, <2>2, <2>3, UpTo
  <2>5. ASSUME NEW j \in i .. sets - 1 PROVE after[i] <= after[j]
    <3>1. j - i \in 0 .. n /\ i + (j - i) = j OBVIOUS
    <3>2. j - i \in S BY <2>4, <3>1
    <3>3. QED BY <3>1, <3>2 DEF S
  <2>6. QED BY <2>5
<1> DEFINE dom == (0 .. sets - 1) \ {latest}
<1>4. ASSUME NEW i \in dom, NEW j \in dom, i < j PROVE after[i] < after[j]
  <2>1. /\ i \in -1 .. sets - 1 /\ j - 1 \in i .. sets - 1
        /\ i \in 0 .. sets - 1 /\ j \in 0 .. sets - 1 /\ j # latest
    BY <1>4
  <2>2. after[i] <= after[j - 1] BY <1>3, <2>1
  <2>3. after[j - 1] < after[j] /\ after[i] \in Nat /\ after[j - 1] \in Nat /\ after[j] \in Nat
    BY <1>2, <2>1
  <2>4. QED BY <2>2, <2>3
<1>5. DOMAIN colours = dom /\ \A i \in dom : colours[i] = after[i] - 1 BY <1>1
<1>6. \A i \in dom : colours[i] \notin {line, background} BY <1>2, <1>5
<1>7. ASSUME NEW i \in dom, NEW j \in dom, colours[i] = colours[j] PROVE i = j
  <2>1. after[i] \in Nat /\ after[j] \in Nat BY <1>2
  <2>2. after[i] = after[j] BY <1>5, <1>7, <2>1
  <2>3. ~(i < j) /\ ~(j < i) BY <1>4, <2>1, <2>2
  <2>4. QED BY <2>3
<1>8. Apart(colours, line, background) BY <1>5, <1>6, <1>7 DEF Apart
<1>9. QED BY <1>8 DEF colours
===============================================================================

--------------------------- MODULE LookupGrid_proofs ---------------------------
(***************************************************************************)
(* Proofs about the cells of a grid of any size over boxes of any number,  *)
(* place and extent: a point is never in a cell that the boxes around it   *)
(* are not listed in, and no box is listed outside of the grid.            *)
(***************************************************************************)
EXTENDS LookupGrid, Raster_proofs, SequenceTheorems, FiniteSetTheorems,
        FunctionTheorems, WellFoundedInduction

\* What GridBuild() has made sure of before it lists a box in a cell.
Shaped(g) ==
  /\ g.min_x \in Int /\ g.min_y \in Int
  /\ g.span_x \in Nat \ {0} /\ g.span_y \in Nat \ {0}
  /\ g.nx \in Nat \ {0} /\ g.ny \in Nat \ {0}

-----------------------------------------------------------------------------
(* Numbers in order.                                                       *)

\* A set of numbers that is not empty has a least one.
LEMMA LeastNumber ==
  ASSUME NEW S \in SUBSET Nat, S # {}
  PROVE  \E x \in S : \A y \in S : x <= y
<1>1. PICK x \in S : \A y \in S : <<y, x>> \notin OpToRel(<, Nat)
  BY NatLessThanWellFounded, WFMin
<1>2. \A y \in S : ~(y < x)
  BY <1>1 DEF OpToRel
<1> QED  BY <1>2, SMT

\* How many numbers are below another one tells it from all others of a finite set.
LEMMA RankProperties ==
  ASSUME NEW S \in SUBSET Int, IsFiniteSet(S)
  PROVE  /\ Cardinality(S) \in Nat
         /\ \A x \in S : Cardinality(Below(S, x)) \in 0 .. Cardinality(S) - 1
         /\ \A x, y \in S : x < y => Cardinality(Below(S, x)) < Cardinality(Below(S, y))
<1>1. Cardinality(S) \in Nat
  BY FS_CardinalityType
<1>2. ASSUME NEW x \in S
      PROVE  /\ IsFiniteSet(Below(S, x)) /\ Cardinality(Below(S, x)) \in Nat
             /\ Cardinality(Below(S, x)) < Cardinality(S)
  <2>1. Below(S, x) \in SUBSET S /\ x \notin Below(S, x)
    BY DEF Below
  <2>2. Below(S, x) # S
    BY <2>1
  <2>3. IsFiniteSet(Below(S, x)) /\ Cardinality(Below(S, x)) <= Cardinality(S)
        /\ Cardinality(Below(S, x)) # Cardinality(S)
    BY <2>1, <2>2, FS_Subset
  <2>4. Cardinality(Below(S, x)) \in Nat
    BY <2>3, FS_CardinalityType
  <2> QED  BY <1>1, <2>3, <2>4
<1>3. ASSUME NEW x \in S, NEW y \in S, x < y
      PROVE  Cardinality(Below(S, x)) < Cardinality(Below(S, y))
  <2>1. x \in Below(S, y) /\ x \notin Below(S, x)
    BY <1>3 DEF Below
  <2>2. Below(S, x) \in SUBSET Below(S, y)
    <3>1. ASSUME NEW z \in S, z < x PROVE z < y
      <4>1. x \in Int /\ y \in Int /\ z \in Int
        OBVIOUS
      <4> QED  BY <1>3, <3>1, <4>1
    <3> QED  BY <3>1 DEF Below
  <2>3. Below(S, x) # Below(S, y)
    BY <2>1
  <2>4. Cardinality(Below(S, x)) <= Cardinality(Below(S, y))
        /\ Cardinality(Below(S, x)) # Cardinality(Below(S, y))
    BY <1>2, <2>2, <2>3, FS_Subset
  <2> QED  BY <1>2, <2>4
<1> QED  BY <1>1, <1>2, <1>3

\* In a list that ascends, what comes later is larger.
Ascends(s) == \A j, k \in DOMAIN s : j < k => s[j] < s[k]

\* Ascending() lists a finite set in order.
LEMMA AscendingProperties ==
  ASSUME NEW S \in SUBSET Int, IsFiniteSet(S)
  PROVE  /\ Ascending(S) \in Seq(S)
         /\ Len(Ascending(S)) = Cardinality(S)
         /\ Range(Ascending(S)) = S
         /\ Ascends(Ascending(S))
<1> DEFINE n == Cardinality(S)
           rank == [x \in S |-> Cardinality(Below(S, x))]
           s == Ascending(S)
<1>1. /\ n \in Nat
      /\ \A x \in S : rank[x] \in 0 .. n - 1
      /\ \A x, y \in S : x < y => rank[x] < rank[y]
  BY RankProperties
<1>2. \A x, y \in S : rank[x] = rank[y] => x = y
  <2> SUFFICES ASSUME NEW x \in S, NEW y \in S, rank[x] = rank[y], x # y
               PROVE  FALSE
    OBVIOUS
  <2>1. x \in Int /\ y \in Int
    OBVIOUS
  <2>2. x < y \/ y < x
    BY <2>1
  <2>3. rank[x] \in Int /\ rank[y] \in Int
    BY <1>1
  <2> HIDE DEF rank, n
  <2> QED  BY <1>1, <2>2, <2>3
<1>3. \A k \in 1 .. n : \E x \in S : rank[x] = k - 1
  <2>1. rank \in [S -> 0 .. n - 1]
    BY <1>1
  <2>2. rank \in Injection(S, 0 .. n - 1)
    BY <1>2, <2>1, Fun_IsInj
  <2>3. IsFiniteSet(0 .. n - 1) /\ Cardinality(0 .. n - 1) = n
    BY <1>1, FS_Interval
  <2>4. rank \in Surjection(S, 0 .. n - 1)
    BY <2>2, <2>3, FS_Injection
  <2> HIDE DEF rank, n
  <2>5. \A r \in 0 .. n - 1 : \E x \in S : rank[x] = r
    BY <2>4, Fun_SurjectionProperties
  <2> TAKE k \in 1 .. n
  <2>6. k - 1 \in 0 .. n - 1
    BY <1>1
  <2> QED  BY <2>5, <2>6
<1>4. s = [k \in 1 .. n |-> CHOOSE x \in S : rank[x] = k - 1]
  BY DEF Ascending
<1>5. \A x \in S : rank[x] = Cardinality(Below(S, x))
  OBVIOUS
<1> HIDE DEF n, rank, s
<1>6. DOMAIN s = 1 .. n /\ \A k \in 1 .. n : s[k] \in S /\ rank[s[k]] = k - 1
  BY <1>3, <1>4
<1>7. s \in [1 .. n -> S]
  BY <1>4, <1>6
<1>8. s \in Seq(S)
  BY <1>1, <1>7, SeqDef
<1>9. Len(s) = n
  BY <1>1, <1>6, <1>8, LenProperties
<1>10. Ascends(s)
  <2> SUFFICES ASSUME NEW j \in 1 .. n, NEW k \in 1 .. n, j < k
               PROVE  s[j] < s[k]
    BY <1>6 DEF Ascends
  <2>1. s[j] \in S /\ s[k] \in S /\ rank[s[j]] = j - 1 /\ rank[s[k]] = k - 1
    BY <1>6
  <2>2. s[j] \in Int /\ s[k] \in Int
    BY <2>1
  <2>3. ~(k - 1 < j - 1) /\ j - 1 # k - 1
    BY <1>1
  <2>4. ~(s[k] < s[j])
    BY <1>1, <2>1, <2>3
  <2>5. s[j] # s[k]
    BY <2>1, <2>3
  <2> QED  BY <2>2, <2>4, <2>5
<1>11. ASSUME NEW x \in S
       PROVE  x \in Range(s)
  <2> DEFINE k == rank[x] + 1
  <2>1. k \in 1 .. n /\ k - 1 = rank[x]
    BY <1>1
  <2> HIDE DEF k
  <2>2. s[k] \in S /\ rank[s[k]] = k - 1
    BY <1>6, <2>1
  <2>3. s[k] = x
    BY <1>2, <2>1, <2>2
  <2> QED  BY <1>6, <2>1, <2>3 DEF Range
<1>12. Range(s) \subseteq S
  BY <1>6 DEF Range
<1> QED  BY <1>8, <1>9, <1>10, <1>11, <1>12 DEF s, n

\* A finite set of integers that is not empty has a least and a greatest.
LEMMA LeastAndGreatest ==
  ASSUME NEW S \in SUBSET Int, IsFiniteSet(S), S # {}
  PROVE  /\ Min(S) \in S /\ \A y \in S : Min(S) <= y
         /\ Max(S) \in S /\ \A y \in S : Max(S) >= y
<1> DEFINE s == Ascending(S)
           n == Cardinality(S)
<1>1. /\ s \in Seq(S) /\ Len(s) = n /\ Range(s) = S /\ Ascends(s)
  BY AscendingProperties
<1>2. n \in Nat /\ DOMAIN s = 1 .. n
  BY <1>1, LenProperties
<1>3. \A y \in S : \E k \in 1 .. n : s[k] = y
  BY <1>1, <1>2 DEF Range
<1>4. n >= 1
  <2>1. PICK y \in S : TRUE
    OBVIOUS
  <2>2. PICK k \in 1 .. n : s[k] = y
    BY <1>3
  <2> HIDE DEF s, n
  <2> QED  BY <1>2, <2>2
<1> HIDE DEF s, n
<1>5. s[1] \in S /\ s[n] \in S
  BY <1>1, <1>2, <1>4, ElementOfSeq
<1>6. \A y \in S : s[1] <= y /\ s[n] >= y
  <2> TAKE y \in S
  <2>1. PICK k \in 1 .. n : s[k] = y
    BY <1>3
  <2>2. s[1] \in Int /\ s[n] \in Int /\ y \in Int
    BY <1>5
  <2>3. k = 1 \/ s[1] < y
    BY <1>1, <1>2, <1>4, <2>1 DEF Ascends
  <2>4. k = n \/ y < s[n]
    BY <1>1, <1>2, <1>4, <2>1 DEF Ascends
  <2> QED  BY <2>1, <2>2, <2>3, <2>4
<1>7. Min(S) \in S /\ \A y \in S : Min(S) <= y
  BY <1>5, <1>6 DEF Min
<1>8. Max(S) \in S /\ \A y \in S : Max(S) >= y
  BY <1>5, <1>6 DEF Max
<1> QED  BY <1>7, <1>8

\* What a list of integers holds is finite.
LEMMA RangeOfList ==
  ASSUME NEW S, NEW s \in Seq(S)
  PROVE  /\ IsFiniteSet(Range(s)) /\ Range(s) \subseteq S
         /\ IsFiniteSet(DOMAIN s) /\ DOMAIN s \subseteq Nat
         /\ s # <<>> => Range(s) # {}
<1>1. Len(s) \in Nat /\ s \in [1 .. Len(s) -> S] /\ DOMAIN s = 1 .. Len(s)
  BY LenProperties
<1>2. IsFiniteSet(1 .. Len(s))
  BY <1>1, FS_Interval
<1>3. s \in Surjection(1 .. Len(s), Range(s)) /\ Range(s) \subseteq S
  BY <1>1, Fun_RangeProperties
<1>4. IsFiniteSet(Range(s))
  BY <1>2, <1>3, FS_Surjection
<1>5. s # <<>> => 1 \in 1 .. Len(s)
  BY <1>1, EmptySeq
<1>6. s # <<>> => s[1] \in Range(s)
  BY <1>1, <1>5 DEF Range
<1> QED  BY <1>1, <1>2, <1>3, <1>4, <1>6

-----------------------------------------------------------------------------
(* One axis.                                                               *)

\* A quotient grows with its dividend.
LEMMA QuotientMonotone ==
  ASSUME NEW d \in Nat \ {0}, NEW a \in Int, NEW b \in Int, a <= b
  PROVE  a \div d <= b \div d /\ a \div d \in Int /\ b \div d \in Int
<1> DEFINE q == a \div d
           r == b \div d
<1>1. /\ q \in Int /\ d * q <= a /\ a < d * q + d
      /\ r \in Int /\ d * r <= b /\ b < d * r + d
  BY SMT
<1> HIDE DEF q, r
<1>2. q <= r
  <2> SUFFICES ASSUME r + 1 <= q
               PROVE  FALSE
    BY <1>1
  <2>1. d * (r + 1) <= d * q
    BY <1>1, TimesNonNegative, SMT
  <2>2. d * (r + 1) = d * r + d /\ d * r \in Int /\ d * q \in Int
    BY <1>1, SMT
  <2> QED
    BY <1>1, <2>1, <2>2
<1> QED
  BY <1>1, <1>2 DEF q, r

\* cellIndex() keeps within the axis ...
LEMMA CellIndexInAxis ==
  ASSUME NEW v \in Int, NEW lo \in Int, NEW span \in Nat \ {0}, NEW n \in Nat \ {0}
  PROVE  CellIndex(v, lo, span, n) \in 0 .. n - 1
<1> DEFINE d == ((v - lo) * n) \div span
<1>1. (v - lo) * n \in Int
  BY SMT
<1>2. d \in Int
  BY <1>1, QuotientMonotone
<1> HIDE DEF d
<1>3. (IF d >= n THEN n - 1 ELSE IF d > 0 THEN d ELSE 0) \in 0 .. n - 1
  BY <1>2
<1> QED
  BY <1>3 DEF CellIndex, d

\* ... and is monotone: the point between two edges is between their cells.
LEMMA CellIndexMonotone ==
  ASSUME NEW v \in Int, NEW w \in Int, v <= w,
         NEW lo \in Int, NEW span \in Nat \ {0}, NEW n \in Nat \ {0}
  PROVE  CellIndex(v, lo, span, n) <= CellIndex(w, lo, span, n)
<1> DEFINE d == ((v - lo) * n) \div span
           e == ((w - lo) * n) \div span
<1>1. /\ n * (v - lo) <= n * (w - lo)
      /\ n * (v - lo) = (v - lo) * n /\ n * (w - lo) = (w - lo) * n
      /\ (v - lo) * n \in Int /\ (w - lo) * n \in Int
  <2>1. v - lo \in Int /\ w - lo \in Int /\ v - lo <= w - lo /\ n \in Int /\ n >= 0
    OBVIOUS
  <2>2. n * (v - lo) <= n * (w - lo)
    BY <2>1, TimesNonNegative
  <2> QED
    BY <2>1, <2>2, SMT
<1>2. d <= e /\ d \in Int /\ e \in Int
  BY <1>1, QuotientMonotone
<1> HIDE DEF d, e
<1>3. (IF d >= n THEN n - 1 ELSE IF d > 0 THEN d ELSE 0)
        <= (IF e >= n THEN n - 1 ELSE IF e > 0 THEN e ELSE 0)
  BY <1>2
<1> QED
  BY <1>3 DEF CellIndex, d, e

\* The far end of what a box overlaps, also of one that is inverted.
LEMMA LargerOfTwo ==
  ASSUME NEW a \in Int, NEW b \in Int
  PROVE  Max({a, b}) \in {a, b} /\ a <= Max({a, b}) /\ b <= Max({a, b})
<1>1. \E x \in {a, b} : \A y \in {a, b} : x >= y
  <2>1. CASE a >= b
    BY <2>1
  <2>2. CASE b >= a
    BY <2>2
  <2> QED
    BY <2>1, <2>2
<1>2. Max({a, b}) \in {a, b} /\ \A y \in {a, b} : Max({a, b}) >= y
  BY <1>1 DEF Max
<1> QED
  BY <1>2

-----------------------------------------------------------------------------
(* The grid.                                                               *)

Column(g, x) == CellIndex(x, g.min_x, g.span_x, g.nx)
Row(g, y) == CellIndex(y, g.min_y, g.span_y, g.ny)

\* The cell that GridBegin() looks a point up in.
CellOf(g, p) == Row(g, p.y) * g.nx + Column(g, p.x)

\* What makes the grid a filter and not a judge: boxCells() lists a box in the cell of
\* every point it contains, points on its edges, on cells' edges and on the grid's
\* included.
THEOREM NoBoxMissed ==
  ASSUME NEW g, Shaped(g), NEW b \in Box, NEW p \in Point, DatasetContains(b, p)
  PROVE  CellOf(g, p) \in BoxCells(g, b)
<1> DEFINE x0 == Column(g, b.left)
           x1 == Column(g, b.right)
           y0 == Row(g, b.bottom)
           y1 == Row(g, b.top)
           cx == Column(g, p.x)
           cy == Row(g, p.y)
<1>1. /\ b.left \in Int /\ b.right \in Int /\ b.bottom \in Int /\ b.top \in Int
      /\ p.x \in Int /\ p.y \in Int
      /\ b.left <= p.x /\ p.x <= b.right /\ b.bottom <= p.y /\ p.y <= b.top
  BY DEF Box, Point, DatasetContains
<1>2. x0 <= cx /\ cx <= x1 /\ y0 <= cy /\ cy <= y1
  BY <1>1, CellIndexMonotone DEF Shaped, Column, Row
<1>3. /\ x0 \in 0 .. g.nx - 1 /\ x1 \in 0 .. g.nx - 1 /\ cx \in 0 .. g.nx - 1
      /\ y0 \in 0 .. g.ny - 1 /\ y1 \in 0 .. g.ny - 1 /\ cy \in 0 .. g.ny - 1
  BY <1>1, CellIndexInAxis DEF Shaped, Column, Row
<1> HIDE DEF x0, x1, y0, y1, cx, cy
<1>4. /\ x1 <= Max({x0, x1}) /\ Max({x0, x1}) \in Int
      /\ y1 <= Max({y0, y1}) /\ Max({y0, y1}) \in Int
  <2>1. x0 \in Int /\ x1 \in Int /\ y0 \in Int /\ y1 \in Int
    BY <1>3
  <2>2. x1 <= Max({x0, x1}) /\ Max({x0, x1}) \in {x0, x1}
    BY <2>1, LargerOfTwo
  <2>3. y1 <= Max({y0, y1}) /\ Max({y0, y1}) \in {y0, y1}
    BY <2>1, LargerOfTwo
  <2> QED
    BY <2>1, <2>2, <2>3
<1>5. cx \in x0 .. Max({x0, x1}) /\ cy \in y0 .. Max({y0, y1})
  BY <1>2, <1>3, <1>4 DEF Shaped
<1>6. cy * g.nx + cx = cx + cy * g.nx
  BY <1>3 DEF Shaped
<1>7. BoxCells(g, b) = {i + j * g.nx : i \in x0 .. Max({x0, x1}), j \in y0 .. Max({y0, y1})}
  BY DEF BoxCells, Column, Row, x0, x1, y0, y1
<1> QED
  BY <1>5, <1>6, <1>7 DEF CellOf, cx, cy

\* A cell of a grid, by its column and its row.
LEMMA CellInGrid ==
  ASSUME NEW nx \in Nat \ {0}, NEW ny \in Nat \ {0}, NEW i \in 0 .. nx - 1, NEW j \in 0 .. ny - 1
  PROVE  i + j * nx \in 0 .. nx * ny - 1
<1>1. nx * 0 <= nx * j /\ nx * (j + 1) <= nx * ny
  BY TimesNonNegative
<1>2. nx * (j + 1) = j * nx + nx /\ nx * j = j * nx /\ j * nx \in Int /\ nx * ny \in Int
  BY SMT
<1> QED
  BY <1>1, <1>2

\* No cell outside of the grid is counted or filled, be the box inverted, degenerate or
\* as large as the grid ("fill" in GridBuild() writes where this says).
THEOREM CellsInGrid ==
  ASSUME NEW g, Shaped(g), NEW b \in Box
  PROVE  BoxCells(g, b) \subseteq 0 .. g.nx * g.ny - 1
<1> DEFINE x0 == Column(g, b.left)
           x1 == Column(g, b.right)
           y0 == Row(g, b.bottom)
           y1 == Row(g, b.top)
<1>1. b.left \in Int /\ b.right \in Int /\ b.bottom \in Int /\ b.top \in Int
  BY DEF Box
<1>2. /\ x0 \in 0 .. g.nx - 1 /\ x1 \in 0 .. g.nx - 1
      /\ y0 \in 0 .. g.ny - 1 /\ y1 \in 0 .. g.ny - 1
  BY <1>1, CellIndexInAxis DEF Shaped, Column, Row
<1> HIDE DEF x0, x1, y0, y1
<1>3. Max({x0, x1}) \in 0 .. g.nx - 1 /\ Max({y0, y1}) \in 0 .. g.ny - 1
  <2>1. x0 \in Int /\ x1 \in Int /\ y0 \in Int /\ y1 \in Int
    BY <1>2
  <2>2. Max({x0, x1}) \in {x0, x1}
    BY <2>1, LargerOfTwo
  <2>3. Max({y0, y1}) \in {y0, y1}
    BY <2>1, LargerOfTwo
  <2> QED
    BY <1>2, <2>2, <2>3
<1> DEFINE X == x0 .. Max({x0, x1})
           Y == y0 .. Max({y0, y1})
<1>4. BoxCells(g, b) = {i + j * g.nx : i \in X, j \in Y}
  BY DEF BoxCells, Column, Row, x0, x1, y0, y1
<1>5. X \subseteq 0 .. g.nx - 1 /\ Y \subseteq 0 .. g.ny - 1
  BY <1>2, <1>3 DEF Shaped
<1> HIDE DEF X, Y
<1>6. ASSUME NEW i \in X, NEW j \in Y
      PROVE  i + j * g.nx \in 0 .. g.nx * g.ny - 1
  BY <1>5, CellInGrid DEF Shaped
<1>7. ASSUME NEW c \in BoxCells(g, b)
      PROVE  c \in 0 .. g.nx * g.ny - 1
  <2>1. c \in {i + j * g.nx : i \in X, j \in Y}
    BY <1>4
  <2>2. \E i \in X, j \in Y : c = i + j * g.nx
    BY <2>1
  <2> QED
    BY <1>6, <2>2
<1> QED
  BY <1>7

-----------------------------------------------------------------------------
(* The shape of the grid.                                                  *)

\* What the loop that halves the longer side starts from, and ends with.
Sides == (1 .. MaxSide) \X (1 .. MaxSide)
Fits(s) == s[1] * s[2] <= MaxCells
Halved(s) ==
  IF s[1] >= s[2] THEN <<s[1] \div 2 + 1, s[2]>> ELSE <<s[1], s[2] \div 2 + 1>>
Perimeter(s) == s[1] + s[2]

\* A side is only halved while it is 3 cells or more, so the grid shrinks.
LEMMA HalvedProperties ==
  ASSUME NEW s \in Sides, ~Fits(s)
  PROVE  Halved(s) \in Sides /\ Perimeter(Halved(s)) < Perimeter(s)
<1> DEFINE nx == s[1]
           ny == s[2]
<1>1. /\ nx \in 1 .. MaxSide /\ ny \in 1 .. MaxSide
      /\ MaxSide \in Nat /\ MaxCells \in Nat /\ MaxCells >= 4
  BY LookupGridAssumption DEF Sides
<1>2. nx * ny > 4
  <2>1. nx * ny \in Int
    BY <1>1
  <2> QED  BY <1>1, <2>1 DEF Fits
<1>3. Halved(s) = IF nx >= ny THEN <<nx \div 2 + 1, ny>> ELSE <<nx, ny \div 2 + 1>>
  BY DEF Halved
<1>4. Perimeter(s) = nx + ny
  BY DEF Perimeter
<1> HIDE DEF nx, ny
<1>5. CASE nx >= ny
  <2>1. nx >= 3
    <3> SUFFICES ASSUME nx <= 2 PROVE FALSE
      BY <1>1
    <3>1. nx \in {1, 2} /\ ny \in {1, 2}
      BY <1>1, <1>5
    <3> QED  BY <1>2, <3>1
  <2>2. nx \div 2 + 1 \in 1 .. nx - 1
    BY <1>1, <2>1
  <2>3. nx \div 2 + 1 \in 1 .. MaxSide
    BY <1>1, <2>2
  <2>4. Halved(s) = <<nx \div 2 + 1, ny>>
    BY <1>3, <1>5
  <2>5. Perimeter(Halved(s)) = nx \div 2 + 1 + ny
    BY <2>4 DEF Perimeter
  <2> QED  BY <1>1, <1>4, <2>2, <2>3, <2>4, <2>5 DEF Sides
<1>6. CASE ~(nx >= ny)
  <2>1. ny >= 3
    <3> SUFFICES ASSUME ny <= 2 PROVE FALSE
      BY <1>1
    <3>1. nx \in {1, 2} /\ ny \in {1, 2}
      BY <1>1, <1>6
    <3> QED  BY <1>2, <3>1
  <2>2. ny \div 2 + 1 \in 1 .. ny - 1
    BY <1>1, <2>1
  <2>3. ny \div 2 + 1 \in 1 .. MaxSide
    BY <1>1, <2>2
  <2>4. Halved(s) = <<nx, ny \div 2 + 1>>
    BY <1>3, <1>6
  <2>5. Perimeter(Halved(s)) = nx + (ny \div 2 + 1)
    BY <2>4 DEF Perimeter
  <2> QED  BY <1>1, <1>4, <2>2, <2>3, <2>4, <2>5 DEF Sides
<1> QED  BY <1>5, <1>6

LEMMA PerimeterIsNat ==
  ASSUME NEW s \in Sides
  PROVE  Perimeter(s) \in Nat /\ Perimeter(s) <= 2 * MaxSide
<1>1. s[1] \in 1 .. MaxSide /\ s[2] \in 1 .. MaxSide /\ MaxSide \in Nat
  BY LookupGridAssumption DEF Sides
<1> QED  BY <1>1 DEF Perimeter

\* h says where the loop ends from sides that come to m or less.
EndsUpTo(m, h) ==
  \A s \in Sides : Perimeter(s) <= m => h[s] = IF Fits(s) THEN s ELSE h[Halved(s)]

LEMMA EndsExist ==
  ASSUME NEW m \in Nat
  PROVE  \E h \in [Sides -> Sides] : EndsUpTo(m, h)
<1> DEFINE without == {k \in Nat : ~ \E h \in [Sides -> Sides] : EndsUpTo(k, h)}
<1>1. SUFFICES ASSUME without # {} PROVE FALSE
  OBVIOUS
<1>2. PICK k \in without : \A j \in without : k <= j
  BY <1>1, LeastNumber
<1>3. k \in Nat /\ ~ \E h \in [Sides -> Sides] : EndsUpTo(k, h)
  OBVIOUS
<1>4. k # 0
  <2>1. ASSUME NEW s \in Sides PROVE ~(Perimeter(s) <= 0)
    <3>1. s[1] \in 1 .. MaxSide /\ s[2] \in 1 .. MaxSide /\ MaxSide \in Nat
      BY LookupGridAssumption DEF Sides
    <3> QED  BY <3>1 DEF Perimeter
  <2>2. [s \in Sides |-> s] \in [Sides -> Sides] /\ EndsUpTo(0, [s \in Sides |-> s])
    BY <2>1 DEF EndsUpTo
  <2> QED  BY <1>3, <2>2
<1>5. k - 1 \in Nat /\ ~(k <= k - 1)
  BY <1>3, <1>4
<1>6. PICK h \in [Sides -> Sides] : EndsUpTo(k - 1, h)
  BY <1>2, <1>5
<1> DEFINE g == [s \in Sides |-> IF Fits(s) THEN s ELSE h[Halved(s)]]
<1>7. g \in [Sides -> Sides]
  BY HalvedProperties
<1>8. EndsUpTo(k, g)
  <2> SUFFICES ASSUME NEW s \in Sides, Perimeter(s) <= k, ~Fits(s)
               PROVE  g[s] = g[Halved(s)]
    BY DEF EndsUpTo
  <2> DEFINE t == Halved(s)
  <2>1. t \in Sides /\ Perimeter(t) < Perimeter(s)
    BY HalvedProperties
  <2>2. g[s] = h[t]
    OBVIOUS
  <2> HIDE DEF t
  <2>3. Perimeter(t) <= k - 1
    BY <1>3, <2>1, PerimeterIsNat
  <2>4. h[t] = g[t]
    BY <1>6, <2>1, <2>3 DEF EndsUpTo
  <2> QED  BY <2>2, <2>4 DEF t
<1> QED  BY <1>3, <1>7, <1>8

LEMMA FitIs ==
  \A s \in Sides : Fit[s] = IF Fits(s) THEN s ELSE Fit[Halved(s)]
<1> DEFINE body(h) == [sides \in (1 .. MaxSide) \X (1 .. MaxSide) |->
             LET nx == sides[1]
                 ny == sides[2]
             IN IF nx * ny <= MaxCells THEN sides
                ELSE IF nx >= ny THEN h[<<nx \div 2 + 1, ny>>]
                ELSE h[<<nx, ny \div 2 + 1>>]]
<1>1. ASSUME NEW h
      PROVE  body(h) = [s \in Sides |-> IF Fits(s) THEN s ELSE h[Halved(s)]]
  BY DEF Sides, Fits, Halved
<1>2. 2 * MaxSide \in Nat
  BY LookupGridAssumption
<1>3. PICK h \in [Sides -> Sides] : EndsUpTo(2 * MaxSide, h)
  BY <1>2, EndsExist
<1>4. \A s \in Sides : h[s] = IF Fits(s) THEN s ELSE h[Halved(s)]
  BY <1>3, PerimeterIsNat DEF EndsUpTo
<1>5. h = [s \in Sides |-> IF Fits(s) THEN s ELSE h[Halved(s)]]
  <2> DEFINE g == [s \in Sides |-> IF Fits(s) THEN s ELSE h[Halved(s)]]
  <2>1. h = [s \in Sides |-> h[s]] /\ g = [s \in Sides |-> g[s]]
    OBVIOUS
  <2>2. \A s \in Sides : h[s] = g[s]
    BY <1>4
  <2> QED  BY <2>1, <2>2
<1>6. h = body(h)
  BY <1>1, <1>5
<1>7. Fit = CHOOSE f : f = body(f)
  BY DEF Fit
<1> HIDE DEF body
<1>8. Fit = body(Fit)
  BY <1>6, <1>7
<1>9. Fit = [s \in Sides |-> IF Fits(s) THEN s ELSE Fit[Halved(s)]]
  BY <1>1, <1>8
<1> QED  BY <1>9

\* The loop ends, with a grid that is no larger than it may be.
LEMMA FitProperties ==
  ASSUME NEW s \in Sides
  PROVE  Fit[s] \in Sides /\ Fits(Fit[s])
<1> DEFINE bad == {m \in Nat : \E t \in Sides : Perimeter(t) = m /\ ~(Fit[t] \in Sides /\ Fits(Fit[t]))}
<1>1. SUFFICES ASSUME bad # {} PROVE FALSE
  BY PerimeterIsNat
<1>2. PICK m \in bad : \A k \in bad : m <= k
  BY <1>1, LeastNumber
<1>3. PICK t \in Sides : Perimeter(t) = m /\ ~(Fit[t] \in Sides /\ Fits(Fit[t]))
  OBVIOUS
<1>4. CASE Fits(t)
  BY <1>3, <1>4, FitIs
<1>5. CASE ~Fits(t)
  <2> DEFINE u == Halved(t)
  <2>1. u \in Sides /\ Perimeter(u) < Perimeter(t) /\ Fit[t] = Fit[u]
    BY <1>5, HalvedProperties, FitIs
  <2> HIDE DEF u
  <2>2. Perimeter(u) \in Nat /\ ~(m <= Perimeter(u))
    BY <1>3, <2>1, PerimeterIsNat
  <2>3. Fit[u] \in Sides /\ Fits(Fit[u])
    BY <1>2, <2>1, <2>2
  <2> QED  BY <1>3, <2>1, <2>3
<1> QED  BY <1>4, <1>5

\* The median is one of the extents.
LEMMA MedianIsInteger ==
  ASSUME NEW extents \in Seq(Int)
  PROVE  MedianExtent(extents) \in Int
<1> DEFINE kept == {i \in DOMAIN extents : extents[i] > 0}
           upTo(e) == {i \in kept : extents[i] <= e}
           enough == {e \in Range(extents) : Cardinality(upTo(e)) > Cardinality(kept) \div 2}
<1>1. MedianExtent(extents) = IF kept = {} THEN 0 ELSE Min(enough)
  BY DEF MedianExtent
<1>2. SUFFICES ASSUME kept # {} PROVE Min(enough) \in Int
  BY <1>1
<1>3. /\ IsFiniteSet(Range(extents)) /\ Range(extents) \in SUBSET Int
      /\ IsFiniteSet(DOMAIN extents)
  BY RangeOfList
<1>4. PICK i \in kept : TRUE
  BY <1>2
<1>5. Range(extents) # {}
  BY <1>4 DEF Range
<1> DEFINE m == Max(Range(extents))
<1>6. m \in Range(extents) /\ \A y \in Range(extents) : m >= y
  BY <1>3, <1>5, LeastAndGreatest
<1> HIDE DEF m
<1>7. upTo(m) = kept
  <2> SUFFICES ASSUME NEW k \in kept PROVE extents[k] <= m
    OBVIOUS
  <2>1. extents[k] \in Range(extents)
    BY DEF Range
  <2>2. extents[k] \in Int /\ m \in Int /\ m >= extents[k]
    BY <1>3, <1>6, <2>1
  <2> QED  BY <2>2
<1>8. IsFiniteSet(kept)
  <2>1. kept \in SUBSET DOMAIN extents
    OBVIOUS
  <2> HIDE DEF kept
  <2> QED  BY <1>3, <2>1, FS_Subset
<1>9. Cardinality(kept) \in Nat /\ Cardinality(kept) # 0
  BY <1>2, <1>8, FS_CardinalityType, FS_EmptySet
<1> DEFINE c == Cardinality(kept)
<1>10. c \in Nat /\ c # 0
  BY <1>9
<1>11. c > c \div 2
  <2> HIDE DEF c
  <2> QED  BY <1>10
<1>12. m \in enough
  BY <1>6, <1>7, <1>11
<1>13. enough \in SUBSET Range(extents)
  OBVIOUS
<1> HIDE DEF enough
<1>14. IsFiniteSet(enough) /\ enough \in SUBSET Int /\ enough # {}
  BY <1>3, <1>12, <1>13, FS_Subset
<1> QED  BY <1>14, LeastAndGreatest

\* An axis has a cell at least, and as many as it may have at most.
LEMMA SideProperties ==
  ASSUME NEW span \in Nat \ {0}, NEW median \in Int
  PROVE  Side(span, median) \in 1 .. MaxSide
<1> DEFINE extent == IF median > 0 THEN median ELSE span
           q == (span + extent - 1) \div extent
<1>1. extent \in Nat \ {0}
  OBVIOUS
<1>2. Side(span, median) = Min({MaxSide, q})
  BY DEF Side
<1>3. MaxSide \in Nat \ {0}
  BY LookupGridAssumption
<1>4. q >= 1 /\ q \in Int
  <2>1. extent \div extent = 1
    <3> HIDE DEF extent
    <3> QED  BY <1>1
  <2>2. extent \in Int /\ span + extent - 1 \in Int /\ extent <= span + extent - 1
    <3> HIDE DEF extent
    <3> QED  BY <1>1
  <2> HIDE DEF extent
  <2> QED  BY <1>1, <2>1, <2>2, QuotientMonotone
<1> HIDE DEF q
<1>5. {MaxSide, q} \in SUBSET Int /\ {MaxSide, q} # {}
  BY <1>3, <1>4
<1>6. IsFiniteSet({MaxSide, q})
  <2>1. IsFiniteSet({MaxSide}) /\ {MaxSide, q} = {MaxSide} \cup {q}
    BY FS_Singleton
  <2> QED  BY <2>1, FS_AddElement
<1>7. Min({MaxSide, q}) \in {MaxSide, q} /\ Min({MaxSide, q}) <= MaxSide
  BY <1>5, <1>6, LeastAndGreatest
<1> QED  BY <1>2, <1>3, <1>4, <1>7

\* The extent of a number of boxes on one of their sides.
LEMMA SideOfBoxes ==
  ASSUME NEW bs \in Seq(Box), bs # <<>>, NEW side \in {"left", "right", "bottom", "top"}
  PROVE  LET edges == {b[side] : b \in Range(bs)}
         IN /\ Min(edges) \in Int /\ \A b \in Range(bs) : Min(edges) <= b[side]
            /\ Max(edges) \in Int /\ \A b \in Range(bs) : b[side] <= Max(edges)
<1> DEFINE edges == {b[side] : b \in Range(bs)}
           list == [i \in 1 .. Len(bs) |-> bs[i][side]]
<1>1. Len(bs) \in Nat /\ DOMAIN bs = 1 .. Len(bs) /\ \A i \in 1 .. Len(bs) : bs[i] \in Box
  BY LenProperties, ElementOfSeq
<1>2. \A i \in 1 .. Len(bs) : bs[i][side] \in Int
  BY <1>1 DEF Box
<1>3. list \in [1 .. Len(bs) -> Int]
  BY <1>2
<1>4. list \in Seq(Int)
  BY <1>1, <1>3, SeqDef
<1>5. Range(list) = edges
  <2>1. Range(list) = {bs[i][side] : i \in 1 .. Len(bs)}
    BY DEF Range
  <2>2. Range(bs) = {bs[i] : i \in 1 .. Len(bs)}
    BY <1>1 DEF Range
  <2> QED  BY <2>1, <2>2
<1>6. edges \in SUBSET Int /\ IsFiniteSet(edges)
  BY <1>4, <1>5, RangeOfList
<1>7. edges # {}
  <2>1. Range(bs) # {}
    BY RangeOfList
  <2> QED  BY <2>1
<1>8. /\ Min(edges) \in edges /\ \A y \in edges : Min(edges) <= y
      /\ Max(edges) \in edges /\ \A y \in edges : Max(edges) >= y
  BY <1>6, <1>7, LeastAndGreatest
<1>9. \A b \in Range(bs) : b[side] \in edges
  OBVIOUS
<1> HIDE DEF edges
<1>10. \A y \in edges : y \in Int
  BY <1>6
<1>11. ASSUME NEW b \in Range(bs)
       PROVE  Min(edges) <= b[side] /\ b[side] <= Max(edges)
  <2>1. b[side] \in Int /\ Max(edges) \in Int /\ Max(edges) >= b[side] /\ Min(edges) <= b[side]
    BY <1>8, <1>9, <1>10
  <2> QED  BY <2>1
<1> QED  BY <1>8, <1>10, <1>11 DEF edges

\* The grid is as large as the boxes, has a cell at least, and not too many.
LEMMA ShapeProperties ==
  ASSUME NEW bs \in Seq(Box), bs # <<>>
  PROVE  /\ Shaped(Shape(bs))
         /\ Shape(bs).nx \in 1 .. MaxSide /\ Shape(bs).ny \in 1 .. MaxSide
         /\ Shape(bs).nx * Shape(bs).ny <= MaxCells
         /\ Shape(bs).max_x \in Int /\ Shape(bs).max_y \in Int
         /\ \A b \in Range(bs) : /\ Shape(bs).min_x <= b.left /\ b.right <= Shape(bs).max_x
                                 /\ Shape(bs).min_y <= b.bottom /\ b.top <= Shape(bs).max_y
<1> DEFINE min_x == Min({b.left : b \in Range(bs)})
           max_x == Max({b.right : b \in Range(bs)})
           min_y == Min({b.bottom : b \in Range(bs)})
           max_y == Max({b.top : b \in Range(bs)})
           span_x == Span(min_x, max_x)
           span_y == Span(min_y, max_y)
           widths == [i \in DOMAIN bs |-> bs[i].right - bs[i].left]
           heights == [i \in DOMAIN bs |-> bs[i].top - bs[i].bottom]
           start == <<Side(span_x, MedianExtent(widths)), Side(span_y, MedianExtent(heights))>>
           sides == Fit[start]
<1>1. Shape(bs) = [ min_x |-> min_x, max_x |-> max_x, min_y |-> min_y, max_y |-> max_y,
                    span_x |-> span_x, span_y |-> span_y, nx |-> sides[1], ny |-> sides[2] ]
  BY DEF Shape
<1>2. /\ min_x \in Int /\ \A b \in Range(bs) : min_x <= b.left
      /\ max_x \in Int /\ \A b \in Range(bs) : b.right <= max_x
      /\ min_y \in Int /\ \A b \in Range(bs) : min_y <= b.bottom
      /\ max_y \in Int /\ \A b \in Range(bs) : b.top <= max_y
  <2>1. min_x \in Int /\ \A b \in Range(bs) : min_x <= b.left
    BY SideOfBoxes
  <2>2. max_x \in Int /\ \A b \in Range(bs) : b.right <= max_x
    BY SideOfBoxes
  <2>3. min_y \in Int /\ \A b \in Range(bs) : min_y <= b.bottom
    BY SideOfBoxes
  <2>4. max_y \in Int /\ \A b \in Range(bs) : b.top <= max_y
    BY SideOfBoxes
  <2> QED  BY <2>1, <2>2, <2>3, <2>4
<1>3. widths \in Seq(Int) /\ heights \in Seq(Int)
  <2>1. Len(bs) \in Nat /\ DOMAIN bs = 1 .. Len(bs) /\ \A i \in 1 .. Len(bs) : bs[i] \in Box
    BY LenProperties, ElementOfSeq
  <2>2. \A i \in 1 .. Len(bs) : bs[i].right - bs[i].left \in Int /\ bs[i].top - bs[i].bottom \in Int
    <3> TAKE i \in 1 .. Len(bs)
    <3>1. bs[i] \in Box
      BY <2>1
    <3> QED  BY <3>1 DEF Box
  <2>3. widths \in [1 .. Len(bs) -> Int] /\ heights \in [1 .. Len(bs) -> Int]
    BY <2>1, <2>2
  <2> QED  BY <2>1, <2>3, SeqDef
<1>4. MedianExtent(widths) \in Int /\ MedianExtent(heights) \in Int
  BY <1>3, MedianIsInteger
<1> HIDE DEF min_x, max_x, min_y, max_y, widths, heights
<1>5. span_x \in Nat \ {0} /\ span_y \in Nat \ {0}
  BY <1>2 DEF Span
<1> HIDE DEF span_x, span_y
<1>6. start \in Sides
  BY <1>4, <1>5, SideProperties DEF Sides
<1> HIDE DEF start
<1>7. sides \in Sides /\ Fits(sides)
  BY <1>6, FitProperties
<1> HIDE DEF sides
<1>8. /\ sides[1] \in 1 .. MaxSide /\ sides[2] \in 1 .. MaxSide
      /\ sides[1] * sides[2] <= MaxCells
  BY <1>7 DEF Sides, Fits
<1>9. sides[1] \in Nat \ {0} /\ sides[2] \in Nat \ {0}
  BY <1>8, LookupGridAssumption
<1> QED  BY <1>1, <1>2, <1>5, <1>8, <1>9 DEF Shaped

-----------------------------------------------------------------------------
(* The lists of the grid.                                                  *)

LEMMA NumbersProperties ==
  ASSUME NEW S, NEW bs \in Seq(S)
  PROVE  /\ Len(bs) \in Nat /\ Numbers(bs) = 0 .. Len(bs) - 1
         /\ Numbers(bs) \subseteq Nat /\ IsFiniteSet(Numbers(bs))
         /\ \A i \in Numbers(bs) : BoxOf(bs, i) \in S /\ BoxOf(bs, i) \in Range(bs)
<1>1. Len(bs) \in Nat /\ DOMAIN bs = 1 .. Len(bs)
  BY LenProperties
<1>2. IsFiniteSet(0 .. Len(bs) - 1)
  BY <1>1, FS_Interval
<1>3. ASSUME NEW i \in 0 .. Len(bs) - 1 PROVE bs[i + 1] \in S /\ bs[i + 1] \in Range(bs)
  <2>1. i + 1 \in 1 .. Len(bs)
    BY <1>1
  <2> QED  BY <1>1, <2>1, ElementOfSeq DEF Range
<1> QED  BY <1>1, <1>2, <1>3 DEF Numbers, BoxOf

\* Every list of the grid ascends, a cell's list has the boxes that overlap it unless
\* they are too large, and the other list has those.
LEMMA GridBuilt ==
  ASSUME NEW bs \in Seq(Box), bs # <<>>
  PROVE  LET g == Shape(bs)
             built == GridBuild(bs)
         IN /\ built.shape = g
            /\ DOMAIN built.cells = 0 .. g.nx * g.ny - 1
            /\ \A c \in 0 .. g.nx * g.ny - 1 :
                 /\ built.cells[c] \in Seq(Numbers(bs)) /\ Ascends(built.cells[c])
                 /\ Range(built.cells[c]) =
                      {i \in Numbers(bs) \ Oversized(bs, g) : c \in BoxCells(g, BoxOf(bs, i))}
            /\ built.wide \in Seq(Numbers(bs)) /\ Ascends(built.wide)
            /\ Range(built.wide) = Oversized(bs, g)
<1> DEFINE g == Shape(bs)
           listed(c) == {i \in Numbers(bs) \ Oversized(bs, g) : c \in BoxCells(g, BoxOf(bs, i))}
<1>1. IsFiniteSet(Numbers(bs)) /\ Numbers(bs) \subseteq Int
  BY NumbersProperties
<1>2. ASSUME NEW S \in SUBSET Numbers(bs)
      PROVE  /\ Ascending(S) \in Seq(Numbers(bs)) /\ Ascends(Ascending(S))
             /\ Range(Ascending(S)) = S
  <2>1. S \in SUBSET Int /\ IsFiniteSet(S)
    BY <1>1, FS_Subset
  <2>2. Ascending(S) \in Seq(S)
    BY <2>1, AscendingProperties
  <2>3. Ascending(S) \in Seq(Numbers(bs))
    BY <2>2, SeqMonotonic
  <2> QED  BY <2>1, <2>3, AscendingProperties
<1>3. Oversized(bs, g) \in SUBSET Numbers(bs)
  BY DEF Oversized
<1>4. \A c : listed(c) \in SUBSET Numbers(bs)
  OBVIOUS
<1>5. GridBuild(bs) = [ shape |-> g, cells |-> CellLists(bs, g), wide |-> Ascending(Oversized(bs, g)) ]
  BY DEF GridBuild
<1>6. CellLists(bs, g) = [c \in 0 .. g.nx * g.ny - 1 |-> Ascending(listed(c))]
  BY DEF CellLists
<1> HIDE DEF g, listed
<1>7. \A c \in 0 .. g.nx * g.ny - 1 :
        /\ CellLists(bs, g)[c] \in Seq(Numbers(bs)) /\ Ascends(CellLists(bs, g)[c])
        /\ Range(CellLists(bs, g)[c]) = listed(c)
  BY <1>2, <1>4, <1>6
<1>8. /\ Ascending(Oversized(bs, g)) \in Seq(Numbers(bs)) /\ Ascends(Ascending(Oversized(bs, g)))
      /\ Range(Ascending(Oversized(bs, g))) = Oversized(bs, g)
  BY <1>2, <1>3
<1>9. DOMAIN CellLists(bs, g) = 0 .. g.nx * g.ny - 1
  BY <1>6
<1> QED  BY <1>5, <1>7, <1>8, <1>9 DEF g, listed

\* A box that is listed is in no more cells than the cap says.
LEMMA EntriesBounded ==
  ASSUME NEW bs \in Seq(Box), bs # <<>>, NEW i \in Numbers(bs)
  PROVE  LET cells == GridBuild(bs).cells
         IN Cardinality({c \in DOMAIN cells : i \in Range(cells[c])}) <= MaxCellsPerBox
<1> DEFINE g == Shape(bs)
           cells == GridBuild(bs).cells
           in == {c \in DOMAIN cells : i \in Range(cells[c])}
           over == BoxCells(g, BoxOf(bs, i))
<1> SUFFICES Cardinality(in) <= MaxCellsPerBox
  OBVIOUS
<1>1. MaxCellsPerBox \in Nat
  BY LookupGridAssumption
<1>2. /\ DOMAIN cells = 0 .. g.nx * g.ny - 1
      /\ \A c \in 0 .. g.nx * g.ny - 1 : Range(cells[c]) =
           {k \in Numbers(bs) \ Oversized(bs, g) : c \in BoxCells(g, BoxOf(bs, k))}
  BY GridBuilt
<1>3. Shaped(g)
  BY ShapeProperties
<1>4. over \subseteq 0 .. g.nx * g.ny - 1
  BY <1>3, NumbersProperties, CellsInGrid
<1>5. g.nx * g.ny - 1 \in Int
  BY <1>3 DEF Shaped
<1>6. IsFiniteSet(over)
  <2> DEFINE last == g.nx * g.ny - 1
  <2>1. last \in Int /\ over \in SUBSET (0 .. last)
    BY <1>4, <1>5
  <2> HIDE DEF over, last
  <2>2. IsFiniteSet(0 .. last)
    BY <2>1, FS_Interval
  <2> QED  BY <2>1, <2>2, FS_Subset
<1>7. in \subseteq over
  BY <1>2
<1>8. CASE i \in Oversized(bs, g)
  <2>1. in = {}
    BY <1>2, <1>8
  <2>2. Cardinality(in) = 0
    BY <2>1, FS_EmptySet
  <2> HIDE DEF in
  <2> QED  BY <1>1, <2>2
<1>9. CASE i \notin Oversized(bs, g)
  <2>1. ~(Cardinality(over) > MaxCellsPerBox)
    BY <1>9 DEF Oversized
  <2>2. Cardinality(over) \in Nat
    BY <1>6, FS_CardinalityType
  <2> HIDE DEF in, over
  <2>3. Cardinality(in) <= Cardinality(over) /\ Cardinality(in) \in Nat
    BY <1>6, <1>7, FS_Subset, FS_CardinalityType
  <2>4. Cardinality(in) <= MaxCellsPerBox
    BY <1>1, <2>1, <2>2, <2>3
  <2> QED  BY <2>4 DEF in
<1> QED  BY <1>8, <1>9

-----------------------------------------------------------------------------
(* The cursor.                                                             *)

\* Taking the first of a list that ascends leaves the larger ones.
LEMMA HeadTaken ==
  ASSUME NEW S \in SUBSET Int, NEW s \in Seq(S), s # <<>>, Ascends(s)
  PROVE  /\ Head(s) \in S /\ Head(s) \in Range(s)
         /\ Tail(s) \in Seq(S) /\ Ascends(Tail(s))
         /\ Range(s) = {Head(s)} \cup Range(Tail(s))
         /\ \A y \in Range(Tail(s)) : Head(s) < y
<1> DEFINE n == Len(s)
           t == Tail(s)
<1>1. n \in Nat /\ n # 0 /\ DOMAIN s = 1 .. n
  BY LenProperties, EmptySeq
<1>2. /\ Head(s) \in S /\ t \in Seq(S) /\ Len(t) = n - 1
      /\ \A k \in 1 .. Len(t) : t[k] = s[k + 1]
  BY HeadTailProperties
<1>3. Head(s) = s[1]
  OBVIOUS
<1>4. DOMAIN t = 1 .. n - 1
  BY <1>2, LenProperties
<1> HIDE DEF n, t
<1>5. Ascends(t)
  <2> SUFFICES ASSUME NEW j \in 1 .. n - 1, NEW k \in 1 .. n - 1, j < k
               PROVE  t[j] < t[k]
    BY <1>4 DEF Ascends
  <2>1. j + 1 \in 1 .. n /\ k + 1 \in 1 .. n /\ j + 1 < k + 1
    BY <1>1
  <2>2. s[j + 1] < s[k + 1]
    BY <1>1, <2>1 DEF Ascends
  <2>3. t[j] = s[j + 1] /\ t[k] = s[k + 1]
    BY <1>2
  <2> QED  BY <2>2, <2>3
<1>6. ASSUME NEW k \in 1 .. n - 1
      PROVE  s[1] < t[k] /\ t[k] \in Range(s)
  <2>1. k + 1 \in 1 .. n /\ 1 \in 1 .. n /\ 1 < k + 1
    BY <1>1
  <2>2. s[1] < s[k + 1]
    BY <1>1, <2>1 DEF Ascends
  <2>3. t[k] = s[k + 1]
    BY <1>2
  <2> QED  BY <1>1, <2>1, <2>2, <2>3 DEF Range
<1>7. ASSUME NEW k \in 1 .. n, k # 1
      PROVE  s[k] \in Range(t)
  <2> DEFINE j == k - 1
  <2>1. j \in 1 .. n - 1 /\ j + 1 = k
    BY <1>1, <1>7
  <2> HIDE DEF j
  <2>2. t[j] = s[j + 1]
    BY <1>2, <2>1
  <2> QED  BY <1>4, <2>1, <2>2 DEF Range
<1>8. 1 \in 1 .. n
  BY <1>1
<1>9. Head(s) \in Range(s)
  BY <1>1, <1>3, <1>8 DEF Range
<1>10. Range(s) = {Head(s)} \cup Range(t)
  BY <1>1, <1>3, <1>4, <1>6, <1>7, <1>9 DEF Range
<1>11. \A y \in Range(t) : Head(s) < y
  BY <1>3, <1>4, <1>6 DEF Range
<1> QED  BY <1>2, <1>5, <1>9, <1>10, <1>11 DEF t

\* Appending what is larger than all that is there keeps the order.
LEMMA LargerAppended ==
  ASSUME NEW S \in SUBSET Int, NEW s \in Seq(S), Ascends(s),
         NEW x \in S, \A y \in Range(s) : y < x
  PROVE  /\ Append(s, x) \in Seq(S) /\ Ascends(Append(s, x))
         /\ Range(Append(s, x)) = Range(s) \cup {x}
<1> DEFINE n == Len(s)
           t == Append(s, x)
<1>1. n \in Nat /\ DOMAIN s = 1 .. n
  BY LenProperties
<1>2. /\ t \in Seq(S) /\ Len(t) = n + 1 /\ t[n + 1] = x
      /\ \A k \in 1 .. n : t[k] = s[k]
  BY AppendProperties
<1>3. DOMAIN t = 1 .. n + 1
  BY <1>2, LenProperties
<1> HIDE DEF n, t
<1>4. \A k \in 1 .. n + 1 : k \in 1 .. n \/ k = n + 1
  BY <1>1
<1>5. Ascends(t)
  <2> SUFFICES ASSUME NEW j \in 1 .. n + 1, NEW k \in 1 .. n + 1, j < k
               PROVE  t[j] < t[k]
    BY <1>3 DEF Ascends
  <2>1. j \in 1 .. n
    BY <1>1
  <2>2. CASE k \in 1 .. n
    BY <1>1, <1>2, <2>1, <2>2 DEF Ascends
  <2>3. CASE k = n + 1
    <3>1. s[j] \in Range(s)
      BY <1>1, <2>1 DEF Range
    <3> QED  BY <1>2, <2>1, <2>3, <3>1
  <2> QED  BY <1>4, <2>2, <2>3
<1>6. n + 1 \in 1 .. n + 1 /\ \A k \in 1 .. n : k \in 1 .. n + 1
  BY <1>1
<1>7. Range(t) = Range(s) \cup {x}
  BY <1>1, <1>2, <1>3, <1>4, <1>6 DEF Range
<1> QED  BY <1>2, <1>5, <1>7 DEF t

Containing == {i \in Numbers(boxes) : DatasetContains(BoxOf(boxes, i), point)}

\* What is left of the cursor's lists comes after what it has given out.
Merging ==
  /\ cell \in Seq(Numbers(boxes)) /\ Ascends(cell)
  /\ wide \in Seq(Numbers(boxes)) /\ Ascends(wide)
  /\ given \in Seq(Numbers(boxes)) /\ Ascends(given)
  /\ Range(cell) \cap Range(wide) = {}
  /\ \A i \in Range(given), j \in Range(cell) \cup Range(wide) : i < j

\* The grid is that of the boxes, and no box that contains the point is lost.
GridInv ==
  /\ boxes \in Seq(Box)
  /\ grid = IF boxes = <<>> THEN NoGrid ELSE GridBuild(boxes)
  /\ point \in Places \cup {NoPlace}
  /\ boxes = <<>> => point = NoPlace
  /\ point = NoPlace => NoCursor
  /\ Merging
  /\ point # NoPlace => Containing \subseteq Range(given) \cup Range(cell) \cup Range(wide)

LEMMA EmptyList ==
  ASSUME NEW S
  PROVE  <<>> \in Seq(S) /\ Ascends(<<>>) /\ Range(<<>>) = {} /\ Len(<<>>) = 0
<1>1. <<>> \in Seq(S) /\ Len(<<>>) = 0 /\ DOMAIN <<>> = {}
  OBVIOUS
<1> QED  BY <1>1 DEF Ascends, Range

LEMMA NoCursorMerges ==
  ASSUME NoCursor
  PROVE  Merging
BY EmptyList DEF NoCursor, Merging

\* Nothing has been loaded or looked up.
LEMMA NoGridInv ==
  ASSUME boxes = <<>>, grid = NoGrid, NoCursor
  PROVE  GridInv
<1>1. boxes \in Seq(Box)
  BY EmptyList
<1> QED  BY <1>1, NoCursorMerges DEF GridInv, NoCursor

LEMMA BuildGridInv ==
  ASSUME GridInv, point = NoPlace, NEW bs \in Seq(Box), bs # <<>>, BuildGrid(bs)
  PROVE  GridInv'
<1>1. NoCursor' /\ boxes' = bs /\ grid' = GridBuild(bs) /\ point' = NoPlace
  BY DEF GridInv, BuildGrid, NoCursor, cursor
<1>2. Merging'
  BY <1>1, EmptyList DEF NoCursor, Merging
<1> QED  BY <1>1, <1>2 DEF GridInv

LEMMA ReturnInv ==
  ASSUME GridInv, Return
  PROVE  GridInv'
<1>1. NoCursor' /\ UNCHANGED <<boxes, grid>>
  BY DEF Return, NoCursor
<1>2. Merging'
  BY <1>1, EmptyList DEF NoCursor, Merging
<1> QED  BY <1>1, <1>2 DEF GridInv, NoCursor

\* The lists that a lookup starts with miss nothing.
LEMMA GridBeginInv ==
  ASSUME GridInv, boxes # <<>>, GridBegin
  PROVE  GridInv' /\ point' \in Places /\ point' \in Point
<1> DEFINE g == Shape(boxes)
<1>1. boxes \in Seq(Box) /\ grid = GridBuild(boxes) /\ given = <<>>
  <2>1. point = NoPlace
    BY DEF GridBegin
  <2> QED  BY <2>1 DEF GridInv, NoCursor
<1>2. /\ grid.shape = g
      /\ \A c \in 0 .. g.nx * g.ny - 1 :
           /\ grid.cells[c] \in Seq(Numbers(boxes)) /\ Ascends(grid.cells[c])
           /\ Range(grid.cells[c]) =
                {i \in Numbers(boxes) \ Oversized(boxes, g) : c \in BoxCells(g, BoxOf(boxes, i))}
      /\ grid.wide \in Seq(Numbers(boxes)) /\ Ascends(grid.wide)
      /\ Range(grid.wide) = Oversized(boxes, g)
  BY <1>1, GridBuilt
<1>3. /\ Shaped(g) /\ g.max_x \in Int /\ g.max_y \in Int
      /\ \A b \in Range(boxes) : /\ g.min_x <= b.left /\ b.right <= g.max_x
                                 /\ g.min_y <= b.bottom /\ b.top <= g.max_y
  BY <1>1, ShapeProperties
<1> HIDE DEF g
<1>4. PICK p \in Places :
        /\ point' = p
        /\ IF InExtent(g, p)
           THEN cell' = grid.cells[CellOf(g, p)] /\ wide' = grid.wide
           ELSE cell' = <<>> /\ wide' = <<>>
        /\ UNCHANGED <<boxes, grid, given>>
  BY <1>2 DEF GridBegin, CellOf, Row, Column
<1>5. p \in Point /\ p # NoPlace
  BY LookupGridAssumption
<1>6. CellOf(g, p) \in 0 .. g.nx * g.ny - 1
  <2>1. Column(g, p.x) \in 0 .. g.nx - 1 /\ Row(g, p.y) \in 0 .. g.ny - 1
    BY <1>3, <1>5, CellIndexInAxis DEF Shaped, Column, Row, Point
  <2>2. Column(g, p.x) + Row(g, p.y) * g.nx \in 0 .. g.nx * g.ny - 1
    BY <1>3, <2>1, CellInGrid DEF Shaped
  <2>3. Row(g, p.y) * g.nx + Column(g, p.x) = Column(g, p.x) + Row(g, p.y) * g.nx
    BY <1>3, <2>1 DEF Shaped
  <2> QED  BY <2>2, <2>3 DEF CellOf
<1>7. ASSUME NEW i \in Numbers(boxes), DatasetContains(BoxOf(boxes, i), p)
      PROVE  InExtent(g, p) /\ CellOf(g, p) \in BoxCells(g, BoxOf(boxes, i))
  <2> DEFINE b == BoxOf(boxes, i)
  <2>1. b \in Box /\ b \in Range(boxes)
    BY <1>1, NumbersProperties
  <2>2. DatasetContains(b, p)
    BY <1>7
  <2> HIDE DEF b
  <2>3. CellOf(g, p) \in BoxCells(g, b)
    BY <1>3, <1>5, <2>1, <2>2, NoBoxMissed
  <2>4. /\ b.left \in Int /\ b.right \in Int /\ b.bottom \in Int /\ b.top \in Int
        /\ p.x \in Int /\ p.y \in Int
        /\ g.min_x \in Int /\ g.min_y \in Int /\ g.max_x \in Int /\ g.max_y \in Int
    BY <1>3, <1>5, <2>1 DEF Box, Point, Shaped
  <2>5. /\ g.min_x <= b.left /\ b.right <= g.max_x /\ g.min_y <= b.bottom /\ b.top <= g.max_y
        /\ b.left <= p.x /\ p.x <= b.right /\ b.bottom <= p.y /\ p.y <= b.top
    BY <1>3, <2>1, <2>2 DEF DatasetContains
  <2>6. InExtent(g, p)
    BY <2>4, <2>5 DEF InExtent
  <2> QED  BY <2>3, <2>6 DEF b
<1>8. /\ cell' \in Seq(Numbers(boxes)) /\ Ascends(cell')
      /\ wide' \in Seq(Numbers(boxes)) /\ Ascends(wide')
      /\ Range(cell') \cap Range(wide') = {}
      /\ \A i \in Numbers(boxes) :
           DatasetContains(BoxOf(boxes, i), p) => i \in Range(cell') \cup Range(wide')
  <2>1. CASE InExtent(g, p)
    <3>1. cell' = grid.cells[CellOf(g, p)] /\ wide' = grid.wide
      BY <1>4, <2>1
    <3>2. /\ cell' \in Seq(Numbers(boxes)) /\ Ascends(cell')
          /\ Range(cell') = {i \in Numbers(boxes) \ Oversized(boxes, g) :
                               CellOf(g, p) \in BoxCells(g, BoxOf(boxes, i))}
      BY <1>2, <1>6, <3>1
    <3> QED  BY <1>2, <1>7, <3>1, <3>2
  <2>2. CASE ~InExtent(g, p)
    <3>1. cell' = <<>> /\ wide' = <<>>
      BY <1>4, <2>2
    <3> QED  BY <1>7, <2>2, <3>1, EmptyList
  <2> QED  BY <2>1, <2>2
<1>9. given' = <<>> /\ boxes' = boxes /\ grid' = grid
  BY <1>1, <1>4
<1>10. Merging'
  BY <1>8, <1>9, EmptyList DEF Merging
<1>11. Containing' = {i \in Numbers(boxes) : DatasetContains(BoxOf(boxes, i), p)}
  BY <1>4, <1>9 DEF Containing
<1>12. Containing' \subseteq Range(given') \cup Range(cell') \cup Range(wide')
  BY <1>8, <1>11
<1> QED  BY <1>1, <1>4, <1>5, <1>9, <1>10, <1>12 DEF GridInv

\* A candidate moves from one of the lists to those that were given out, and it is the
\* least that was left.
LEMMA GridNextInv ==
  ASSUME GridInv, GridNext
  PROVE  /\ GridInv'
         /\ point # NoPlace
         /\ \E i \in Numbers(boxes) :
              given' = Append(given, i) /\ Range(given') = Range(given) \cup {i}
<1>1. /\ Merging /\ boxes \in Seq(Box) /\ (cell # <<>> \/ wide # <<>>)
      /\ UNCHANGED <<boxes, grid, point>>
  BY DEF GridInv, GridNext
<1>2. point # NoPlace
  BY <1>1 DEF GridInv, NoCursor
<1>3. Numbers(boxes) \in SUBSET Int
  BY <1>1, NumbersProperties
<1> DEFINE N == Numbers(boxes)
           left == Range(cell) \cup Range(wide)
           leftAfter == Range(cell') \cup Range(wide')
<1>4. \E i \in N : /\ given' = Append(given, i)
                   /\ i \in left /\ left = leftAfter \cup {i}
                   /\ \A j \in leftAfter : i < j
                   /\ cell' \in Seq(N) /\ Ascends(cell')
                   /\ wide' \in Seq(N) /\ Ascends(wide')
                   /\ Range(cell') \cap Range(wide') = {}
  <2>1. CASE FromCell
    <3> DEFINE i == Head(cell)
    <3>1. cell # <<>> /\ (wide = <<>> \/ i <= Head(wide))
      BY <2>1 DEF FromCell
    <3>2. given' = Append(given, i) /\ cell' = Tail(cell) /\ wide' = wide
      BY <2>1 DEF GridNext
    <3>3. /\ i \in N /\ i \in Range(cell)
          /\ cell' \in Seq(N) /\ Ascends(cell')
          /\ Range(cell) = {i} \cup Range(cell')
          /\ \A y \in Range(cell') : i < y
      BY <1>1, <1>3, <3>1, <3>2, HeadTaken DEF Merging
    <3>4. \A y \in Range(wide) : i < y
      <4>1. CASE wide = <<>>
        BY <4>1, EmptyList
      <4>2. CASE wide # <<>>
        <5>1. /\ Head(wide) \in N /\ Head(wide) \in Range(wide)
              /\ Range(wide) = {Head(wide)} \cup Range(Tail(wide))
              /\ Tail(wide) \in Seq(N)
              /\ \A y \in Range(Tail(wide)) : Head(wide) < y
          BY <1>1, <1>3, <4>2, HeadTaken DEF Merging
        <5>2. i # Head(wide)
          BY <1>1, <3>3, <5>1 DEF Merging
        <5>3. i \in Int /\ Head(wide) \in Int
          BY <1>3, <3>3, <5>1
        <5>4. \A y \in Range(wide) : y \in Int
          BY <1>1, <1>3, RangeOfSeq DEF Merging
        <5>5. i < Head(wide)
          BY <3>1, <4>2, <5>2, <5>3
        <5> HIDE DEF i
        <5> QED  BY <5>1, <5>3, <5>4, <5>5
      <4> QED  BY <4>1, <4>2
    <3> HIDE DEF i
    <3> QED  BY <1>1, <3>2, <3>3, <3>4 DEF Merging
  <2>2. CASE ~FromCell
    <3> DEFINE i == Head(wide)
    <3>1. wide # <<>> /\ (cell = <<>> \/ ~(Head(cell) <= i))
      BY <1>1, <2>2 DEF FromCell
    <3>2. given' = Append(given, i) /\ wide' = Tail(wide) /\ cell' = cell
      BY <2>2 DEF GridNext
    <3>3. /\ i \in N /\ i \in Range(wide)
          /\ wide' \in Seq(N) /\ Ascends(wide')
          /\ Range(wide) = {i} \cup Range(wide')
          /\ \A y \in Range(wide') : i < y
      BY <1>1, <1>3, <3>1, <3>2, HeadTaken DEF Merging
    <3>4. \A y \in Range(cell) : i < y
      <4>1. CASE cell = <<>>
        BY <4>1, EmptyList
      <4>2. CASE cell # <<>>
        <5>1. /\ Head(cell) \in N /\ Head(cell) \in Range(cell)
              /\ Range(cell) = {Head(cell)} \cup Range(Tail(cell))
              /\ \A y \in Range(Tail(cell)) : Head(cell) < y
          BY <1>1, <1>3, <4>2, HeadTaken DEF Merging
        <5>2. i \in Int /\ Head(cell) \in Int
          BY <1>3, <3>3, <5>1
        <5>3. \A y \in Range(cell) : y \in Int
          BY <1>1, <1>3, RangeOfSeq DEF Merging
        <5>4. i < Head(cell)
          BY <3>1, <4>2, <5>2
        <5> HIDE DEF i
        <5> QED  BY <5>1, <5>2, <5>3, <5>4
      <4> QED  BY <4>1, <4>2
    <3> HIDE DEF i
    <3> QED  BY <1>1, <3>2, <3>3, <3>4 DEF Merging
  <2> QED  BY <2>1, <2>2
<1>5. PICK i \in N : /\ given' = Append(given, i)
                     /\ i \in left /\ left = leftAfter \cup {i}
                     /\ \A j \in leftAfter : i < j
                     /\ cell' \in Seq(N) /\ Ascends(cell')
                     /\ wide' \in Seq(N) /\ Ascends(wide')
                     /\ Range(cell') \cap Range(wide') = {}
  BY <1>4
<1>6. \A y \in Range(given) : y < i
  BY <1>1, <1>5 DEF Merging
<1>7. given' \in Seq(N) /\ Ascends(given') /\ Range(given') = Range(given) \cup {i}
  BY <1>1, <1>3, <1>5, <1>6, LargerAppended DEF Merging
<1>8. \A k \in Range(given'), j \in leftAfter : k < j
  BY <1>1, <1>5, <1>7 DEF Merging
<1>9. Merging'
  BY <1>1, <1>5, <1>7, <1>8 DEF Merging
<1>10. Containing' = Containing
  BY <1>1 DEF Containing
<1>11. Containing' \subseteq Range(given') \cup leftAfter
  BY <1>2, <1>5, <1>7, <1>10 DEF GridInv
<1>12. GridInv'
  BY <1>1, <1>2, <1>9, <1>11 DEF GridInv
<1> QED  BY <1>2, <1>5, <1>7, <1>12

-----------------------------------------------------------------------------
(* What the grid promises follows.                                         *)

LEMMA GridTyped ==
  ASSUME GridInv
  PROVE  GridTypeOK
<1>1. Range(boxes) \subseteq Box
  BY RangeOfSeq DEF GridInv
<1>2. \A list \in {cell, wide, given} : Range(list) \subseteq Numbers(boxes)
  BY RangeOfSeq DEF GridInv, Merging
<1>3. CASE boxes = <<>>
  BY <1>1, <1>2, <1>3 DEF GridInv, Merging, GridTypeOK
<1>4. CASE boxes # <<>>
  <2>1. DOMAIN grid.cells = 0 .. grid.shape.nx * grid.shape.ny - 1
    BY <1>4, GridBuilt DEF GridInv
  <2> QED  BY <1>1, <1>2, <1>4, <2>1 DEF GridInv, Merging, GridTypeOK
<1> QED  BY <1>3, <1>4

LEMMA ScanFollows ==
  ASSUME GridInv
  PROVE  SameAsScan
<1> SUFFICES ASSUME point # NoPlace
    PROVE  /\ \A j, k \in DOMAIN given : j < k => given[j] < given[k]
           /\ \A i \in Containing \ Range(given) : \A j \in Range(given) : j < i
           /\ cell = <<>> /\ wide = <<>> => Containing \subseteq Range(given)
  BY DEF SameAsScan, Containing
<1>1. Merging /\ Containing \subseteq Range(given) \cup Range(cell) \cup Range(wide)
  BY DEF GridInv
<1> QED  BY <1>1, EmptyList DEF Merging, Ascends

LEMMA BoundFollows ==
  ASSUME GridInv
  PROVE  GridBounded
<1> SUFFICES ASSUME boxes # <<>> PROVE GridBounded
  BY DEF GridBounded
<1>1. boxes \in Seq(Box) /\ grid = GridBuild(boxes)
  BY DEF GridInv
<1>2. grid.shape = Shape(boxes)
  BY <1>1, GridBuilt
<1>3. /\ grid.shape.nx * grid.shape.ny <= MaxCells
      /\ grid.shape.nx \in 1 .. MaxSide /\ grid.shape.ny \in 1 .. MaxSide
  BY <1>1, <1>2, ShapeProperties
<1>4. \A i \in Numbers(boxes) :
        Cardinality({c \in DOMAIN grid.cells : i \in Range(grid.cells[c])}) <= MaxCellsPerBox
  BY <1>1, EntriesBounded
<1> QED  BY <1>3, <1>4 DEF GridBounded
=============================================================================

----------------------------- MODULE Raster_proofs -----------------------------
(***************************************************************************)
(* Proofs about rasters of any shape, size and place: the bounds that gate *)
(* lookups, which datasetComputeBounds() takes from four corners, are wide *)
(* enough for every point that has a cell.                                 *)
(***************************************************************************)
EXTENDS Raster, TLAPS

-----------------------------------------------------------------------------
(* Products of integers.                                                   *)

\* A factor that is not negative keeps the order.
LEMMA TimesNonNegative ==
  ASSUME NEW k \in Int, NEW x \in Int, NEW y \in Int, k >= 0, x <= y
  PROVE  k * x <= k * y
<1>1. k * (y - x) >= 0
  BY SMT
<1>2. k * (y - x) = k * y - k * x
  BY SMT
<1> QED
  BY <1>1, <1>2, SMT

\* A positive factor can be taken away.
LEMMA CancelPositive ==
  ASSUME NEW k \in Int, NEW x \in Int, NEW y \in Int, k > 0, k * x <= k * y
  PROVE  x <= y
<1> SUFFICES ASSUME y + 1 <= x
             PROVE  FALSE
  BY SMT
<1>1. k * (y + 1) <= k * x
  BY TimesNonNegative, SMT
<1>2. k * (y + 1) = k * y + k
  BY SMT
<1> QED
  BY <1>1, <1>2, SMT

\* A multiple of what lies between 0 and n lies between 0 and the multiple of n.
LEMMA Between ==
  ASSUME NEW k \in Int, NEW x \in Int, NEW n \in Int, 0 <= x, x <= n
  PROVE  /\ k >= 0 => 0 <= k * x /\ k * x <= k * n
         /\ k <= 0 => k * n <= k * x /\ k * x <= 0
<1>1. CASE k >= 0
  <2>1. k * 0 <= k * x /\ k * x <= k * n
    BY <1>1, TimesNonNegative, SMT
  <2> QED
    BY <1>1, <2>1, SMT
<1>2. CASE k <= 0
  <2>1. (-k) * 0 <= (-k) * x /\ (-k) * x <= (-k) * n
    BY <1>2, TimesNonNegative, SMT
  <2>2. (-k) * x = -(k * x) /\ (-k) * n = -(k * n)
    BY SMT
  <2> QED
    BY <1>2, <2>1, <2>2, SMT
<1> QED
  BY <1>1, <1>2, SMT

\* A quotient that is a number of a cell bounds its dividend.
LEMMA FloorOfPositive ==
  ASSUME NEW a \in Int, NEW d \in Int, d > 0, NEW n \in Int, a \div d \in 0 .. n - 1
  PROVE  0 <= a /\ a <= n * d
<1> DEFINE q == a \div d
<1>1. q \in Int /\ d * q <= a /\ a < d * q + d
  BY SMT
<1> HIDE DEF q
<1>2. 0 <= q /\ q + 1 <= n
  BY DEF q
<1>3. d * 0 <= d * q /\ d * (q + 1) <= d * n
  BY <1>1, <1>2, TimesNonNegative, SMT
<1>4. d * (q + 1) = d * q + d /\ d * n = n * d
  BY <1>1, SMT
<1> QED
  BY <1>1, <1>3, <1>4, SMT

\* Floor() by a divisor of either sign.
LEMMA FloorBounds ==
  ASSUME NEW a \in Int, NEW d \in Int, d # 0, NEW n \in Int, Floor(a, d) \in 0 .. n - 1
  PROVE  IF d > 0 THEN 0 <= a /\ a <= n * d ELSE 0 <= -a /\ -a <= n * (-d)
<1>1. CASE d > 0
  BY <1>1, FloorOfPositive DEF Floor
<1>2. CASE d < 0
  <2>1. (-a) \div (-d) \in 0 .. n - 1
    BY <1>2 DEF Floor
  <2>2. -a \in Int /\ -d \in Int /\ -d > 0
    BY <1>2
  <2>3. 0 <= -a /\ -a <= n * (-d)
    BY <2>1, <2>2, FloorOfPositive
  <2> QED
    BY <1>2, <2>3
<1> QED
  BY <1>1, <1>2

-----------------------------------------------------------------------------
(* The affine map of a raster that lies north up.                          *)

\* An offset u along one coordinate, that comes of i cells of one axis and j of the
\* other, all of them e times too large, out of n and k.
Reached(e, step, slant, n, k, i, j, u) ==
  /\ e > 0 /\ step >= 0
  /\ 0 <= i /\ i <= n * e
  /\ 0 <= j /\ j <= k * e
  /\ e * u = step * i + slant * j

\* It is between those of the corners, whatever the sign of the slant.
BetweenCorners(step, slant, n, k, u) ==
  /\ slant >= 0 => 0 <= u /\ u <= step * n + slant * k
  /\ slant <= 0 => slant * k <= u /\ u <= step * n

LEMMA WithinCorners ==
  ASSUME NEW e \in Int, NEW step \in Int, NEW slant \in Int,
         NEW n \in Int, NEW k \in Int, NEW i \in Int, NEW j \in Int, NEW u \in Int,
         Reached(e, step, slant, n, k, i, j, u)
  PROVE  BetweenCorners(step, slant, n, k, u)
<1> USE DEF Reached, BetweenCorners
<1>1. n * e \in Int /\ k * e \in Int /\ step * n \in Int /\ slant * k \in Int
  BY SMT
<1>2. 0 <= step * i /\ step * i <= step * (n * e)
  BY <1>1, Between
<1>3. step * (n * e) = e * (step * n) /\ slant * (k * e) = e * (slant * k)
  BY SMT
<1>4. step * i \in Int /\ slant * j \in Int
  BY SMT
<1>5. CASE slant >= 0
  <2>1. 0 <= slant * j /\ slant * j <= slant * (k * e)
    BY <1>1, <1>5, Between
  <2>2. e * 0 <= e * u /\ e * u <= e * (step * n) + e * (slant * k)
    BY <1>2, <1>3, <1>4, <2>1, SMT
  <2>3. e * (step * n) + e * (slant * k) = e * (step * n + slant * k)
    BY SMT
  <2>4. 0 <= u /\ u <= step * n + slant * k
    BY <1>1, <2>2, <2>3, CancelPositive
  <2>5. slant = 0 => slant * k = 0
    BY SMT
  <2> QED
    BY <1>1, <1>5, <2>4, <2>5, SMT
<1>6. CASE slant <= 0
  <2>1. slant * (k * e) <= slant * j /\ slant * j <= 0
    BY <1>1, <1>6, Between
  <2>2. e * (slant * k) <= e * u /\ e * u <= e * (step * n)
    BY <1>2, <1>3, <1>4, <2>1, SMT
  <2>3. slant * k <= u /\ u <= step * n
    BY <1>1, <2>2, CancelPositive
  <2>4. slant = 0 => slant * k = 0
    BY SMT
  <2> QED
    BY <1>1, <1>6, <2>3, <2>4, SMT
<1> QED
  BY <1>5, <1>6, SMT

\* The point's offset from the upper left corner in cells, `e` times over.
LEMMA Offsets ==
  ASSUME NEW r \in Raster, NEW p \in Point, Covers(r, p)
  PROVE  \E e, i, j \in Int :
           /\ e > 0
           /\ 0 <= i /\ i <= r.width * e
           /\ 0 <= j /\ j <= r.height * e
           /\ e * (p.x - r.at[1]) = r.at[2] * i + r.at[3] * j
           /\ e * (p.y - r.at[4]) = r.at[5] * i + r.at[6] * j
<1> DEFINE a == r.at[2]  b == r.at[3]  c == r.at[5]  d == r.at[6]
           u == p.x - r.at[1]  v == p.y - r.at[4]
           D == Determinant(r)
           i == d * u - b * v
           j == a * v - c * u
<1>1. /\ a \in Int /\ b \in Int /\ c \in Int /\ d \in Int /\ u \in Int /\ v \in Int
      /\ D = a * d - b * c /\ D \in Int /\ D # 0
      /\ r.width \in Int /\ r.height \in Int
  BY SMT DEF Raster, RasterShape, Point, Determinant
<1>2. Floor(i, D) \in 0 .. r.width - 1 /\ Floor(j, D) \in 0 .. r.height - 1
  BY DEF Covers, Pixel, Line
<1> SUFFICES \E e, k, l \in Int :
               /\ e > 0
               /\ 0 <= k /\ k <= r.width * e
               /\ 0 <= l /\ l <= r.height * e
               /\ e * u = a * k + b * l
               /\ e * v = c * k + d * l
  OBVIOUS
<1> HIDE DEF a, b, c, d, u, v, D
<1>3. i \in Int /\ j \in Int
  BY <1>1, SMT
<1>4. D * u = a * i + b * j /\ D * v = c * i + d * j
  <2>1. a * i + b * j = a * (d * u) - b * (c * u)
    BY <1>1, SMT
  <2>2. c * i + d * j = d * (a * v) - c * (b * v)
    BY <1>1, SMT
  <2>3. a * (d * u) = (a * d) * u /\ b * (c * u) = (b * c) * u
    BY <1>1, SMT
  <2>4. d * (a * v) = (a * d) * v /\ c * (b * v) = (b * c) * v
    BY <1>1, SMT
  <2>5. D * u = (a * d) * u - (b * c) * u /\ D * v = (a * d) * v - (b * c) * v
    BY <1>1, SMT
  <2> QED
    BY <1>1, <2>1, <2>2, <2>3, <2>4, <2>5
<1> HIDE DEF i, j
<1>5. CASE D > 0
  <2>1. 0 <= i /\ i <= r.width * D /\ 0 <= j /\ j <= r.height * D
    BY <1>1, <1>2, <1>3, <1>5, FloorBounds
  <2> QED
    BY <1>1, <1>3, <1>4, <1>5, <2>1
<1>6. CASE D < 0
  <2>1. 0 <= -i /\ -i <= r.width * (-D) /\ 0 <= -j /\ -j <= r.height * (-D)
    BY <1>1, <1>2, <1>3, <1>6, FloorBounds
  <2>2. (-D) * u = -(D * u) /\ (-D) * v = -(D * v)
    BY <1>1, SMT
  <2>3. /\ a * (-i) = -(a * i) /\ b * (-j) = -(b * j)
        /\ c * (-i) = -(c * i) /\ d * (-j) = -(d * j)
    BY <1>1, <1>3, SMT
  <2>4. /\ a * i \in Int /\ b * j \in Int /\ c * i \in Int /\ d * j \in Int
        /\ -i \in Int /\ -j \in Int /\ -D \in Int /\ -D > 0
    BY <1>1, <1>3, <1>6, SMT
  <2>5. (-D) * u = a * (-i) + b * (-j) /\ (-D) * v = c * (-i) + d * (-j)
    BY <1>4, <2>2, <2>3, <2>4, SMT
  <2> QED
    BY <2>1, <2>4, <2>5
<1> QED
  BY <1>1, <1>5, <1>6

\* The bounds of a north-up raster contain every point that it has a cell for, whatever
\* its size, its slant and the signs of its map: the box that gates lookups
\* (dataset.cpp:195) never hides a value that the pixel arithmetic (dataset.cpp:205)
\* would find.
THEOREM BoundsCoverRaster ==
  ASSUME NEW r \in Raster, NorthUp(r), NEW p \in Point, Covers(r, p)
  PROVE  DatasetContains(ComputeBounds(r), p)
<1> DEFINE u == p.x - r.at[1]  v == p.y - r.at[4]
           bH == r.at[3] * r.height  aW == r.at[2] * r.width
           cW == r.at[5] * r.width   dH == r.at[6] * r.height
<1>1. PICK e, i, j \in Int :
        /\ e > 0
        /\ 0 <= i /\ i <= r.width * e
        /\ 0 <= j /\ j <= r.height * e
        /\ e * (p.x - r.at[1]) = r.at[2] * i + r.at[3] * j
        /\ e * (p.y - r.at[4]) = r.at[5] * i + r.at[6] * j
  BY Offsets
<1>2. /\ r.at[1] \in Int /\ r.at[2] \in Int /\ r.at[3] \in Int
      /\ r.at[4] \in Int /\ r.at[5] \in Int /\ r.at[6] \in Int
      /\ p.x \in Int /\ p.y \in Int /\ r.width \in Int /\ r.height \in Int
      /\ r.at[2] > 0 /\ r.at[6] < 0
  BY SMT DEF Raster, RasterShape, Point, NorthUp
<1>3. /\ r.at[3] >= 0 => 0 <= u /\ u <= aW + bH
      /\ r.at[3] <= 0 => bH <= u /\ u <= aW
  <2>1. u \in Int /\ Reached(e, r.at[2], r.at[3], r.width, r.height, i, j, u)
    BY <1>1, <1>2 DEF Reached
  <2> HIDE DEF u
  <2>2. BetweenCorners(r.at[2], r.at[3], r.width, r.height, u)
    BY <1>2, <2>1, WithinCorners
  <2> QED
    BY <2>2 DEF BetweenCorners
<1>4. /\ -r.at[5] >= 0 => 0 <= -v /\ -v <= (-r.at[6]) * r.height + (-r.at[5]) * r.width
      /\ -r.at[5] <= 0 => (-r.at[5]) * r.width <= -v /\ -v <= (-r.at[6]) * r.height
  <2>1. -v \in Int /\ -r.at[6] \in Int /\ -r.at[6] >= 0 /\ -r.at[5] \in Int
    BY <1>2
  <2>2. e * (-v) = -(e * v) /\ e * v = r.at[5] * i + r.at[6] * j
    BY <1>1, <1>2, SMT
  <2>3. (-r.at[6]) * j = -(r.at[6] * j) /\ (-r.at[5]) * i = -(r.at[5] * i)
    BY <1>1, <1>2, SMT
  <2>4. r.at[6] * j \in Int /\ r.at[5] * i \in Int
    BY <1>1, <1>2, SMT
  <2>5. e * (-v) = (-r.at[6]) * j + (-r.at[5]) * i
    BY <2>2, <2>3, <2>4, SMT
  <2>6. Reached(e, -r.at[6], -r.at[5], r.height, r.width, j, i, -v)
    BY <1>1, <2>1, <2>5 DEF Reached
  <2> HIDE DEF v
  <2>7. BetweenCorners(-r.at[6], -r.at[5], r.height, r.width, -v)
    BY <1>2, <2>1, <2>6, WithinCorners
  <2> QED
    BY <2>7 DEF BetweenCorners
<1>5. (-r.at[6]) * r.height = -dH /\ (-r.at[5]) * r.width = -cW
  BY <1>2, SMT
<1>6. /\ aW \in Int /\ bH \in Int /\ cW \in Int /\ dH \in Int
      /\ r.at[3] * 0 = 0 /\ r.at[2] * 0 = 0 /\ r.at[5] * 0 = 0 /\ r.at[6] * 0 = 0
  BY <1>2, SMT
<1>7. /\ Corner(r, 0, 0) = [x |-> r.at[1], y |-> r.at[4]]
      /\ Corner(r, 0, r.height) = [x |-> r.at[1] + bH, y |-> r.at[4] + dH]
      /\ Corner(r, r.width, 0) = [x |-> r.at[1] + aW, y |-> r.at[4] + cW]
      /\ Corner(r, r.width, r.height) = [x |-> r.at[1] + aW + bH, y |-> r.at[4] + cW + dH]
  BY <1>2, <1>6 DEF Corner
<1> HIDE DEF aW, bH, cW, dH
<1>8. ComputeBounds(r) =
        [ top    |-> Larger(r.at[4] + cW, r.at[4]),
          bottom |-> Smaller(r.at[4] + cW + dH, r.at[4] + dH),
          left   |-> Smaller(r.at[1], r.at[1] + bH),
          right  |-> Larger(r.at[1] + aW, r.at[1] + aW + bH) ]
  BY <1>7 DEF ComputeBounds
<1>9. Smaller(r.at[1], r.at[1] + bH) <= p.x /\ p.x <= Larger(r.at[1] + aW, r.at[1] + aW + bH)
  BY <1>2, <1>3, <1>6 DEF Smaller, Larger
<1>10. Smaller(r.at[4] + cW + dH, r.at[4] + dH) <= p.y /\ p.y <= Larger(r.at[4] + cW, r.at[4])
  BY <1>2, <1>4, <1>5, <1>6 DEF Smaller, Larger
<1> QED
  BY <1>8, <1>9, <1>10 DEF DatasetContains
===============================================================================

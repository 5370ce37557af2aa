-------------------------------- MODULE Raster --------------------------------
(***************************************************************************)
(* Where a raster lies and which of its cells a point is in.  What the     *)
(* file's geotransform and the coordinate transformation to the request    *)
(* SRS do together is one affine map `at`, from pixels and lines to the    *)
(* coordinates of requests.  Numbers are integers and arithmetic is exact. *)
(***************************************************************************)
EXTENDS Integers

Box == [left : Int, right : Int, bottom : Int, top : Int]
Point == [x : Int, y : Int]

\* `holes` are the cells with no data.
RasterShape ==
  [ at : [1 .. 6 -> Int], width : Nat \ {0}, height : Nat \ {0},
    holes : SUBSET (Nat \X Nat) ]

Determinant(r) == r.at[2] * r.at[6] - r.at[3] * r.at[5]

\* GDALInvGeoTransform() fails on a map that is flat.
Raster == {r \in RasterShape : Determinant(r) # 0}

\* Line 0 is the north edge and pixel 0 the west edge, up to a turn or a slant.
NorthUp(r) == r.at[2] > 0 /\ r.at[6] < 0

Smaller(a, b) == IF a < b THEN a ELSE b
Larger(a, b) == IF a > b THEN a ELSE b

\* datasetGetCorner().
Corner(r, pixel, line) ==
  [ x |-> r.at[1] + r.at[2] * pixel + r.at[3] * line,
    y |-> r.at[4] + r.at[5] * pixel + r.at[6] * line ]

\* Mutant: the west side is that of the upper left corner.
ComputeBounds_UpperOnly(r) ==
  [ top    |-> Larger(Corner(r, r.width, 0).y, Corner(r, 0, 0).y),
    bottom |-> Smaller(Corner(r, r.width, r.height).y, Corner(r, 0, r.height).y),
    left   |-> Corner(r, 0, 0).x,
    right  |-> Larger(Corner(r, r.width, 0).x, Corner(r, r.width, r.height).x) ]

\* datasetComputeBounds(), each side from the two corners at its ends.
ComputeBounds(r) ==
  LET upperLeft  == Corner(r, 0, 0)
      lowerLeft  == Corner(r, 0, r.height)
      upperRight == Corner(r, r.width, 0)
      lowerRight == Corner(r, r.width, r.height)
  IN [ top    |-> Larger(upperRight.y, upperLeft.y),
       bottom |-> Smaller(lowerRight.y, lowerLeft.y),
       left   |-> Smaller(upperLeft.x, lowerLeft.x),
       right  |-> Larger(upperRight.x, lowerRight.x) ]

\* DatasetContains(), the authority on what to ask a dataset for.
DatasetContains(b, p) == b.left <= p.x /\ p.x <= b.right /\ b.bottom <= p.y /\ p.y <= b.top

Floor(a, d) == IF d > 0 THEN a \div d ELSE (-a) \div (-d)

\* DatasetGetAltitude(): the cell, by the inverse of the map.
Pixel(r, p) ==
  Floor(r.at[6] * (p.x - r.at[1]) - r.at[3] * (p.y - r.at[4]), Determinant(r))
Line(r, p) ==
  Floor(r.at[2] * (p.y - r.at[4]) - r.at[5] * (p.x - r.at[1]), Determinant(r))

Covers(r, p) == Pixel(r, p) \in 0 .. r.width - 1 /\ Line(r, p) \in 0 .. r.height - 1

\* There is a value for the point.
HasValue(r, p) == Covers(r, p) /\ <<Pixel(r, p), Line(r, p)>> \notin r.holes
===============================================================================

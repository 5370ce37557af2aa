----------------------------- MODULE MCDeployment -----------------------------
(* Instances of Deployment for TLC.  Paths 1 to 3 are absolute; 4 is relative,  *)
(* and 5 is what it becomes beside the index; 6 is a gs:// URL, 7 its /vsi form, *)
(* which GDAL opens and stat(2) does not find.                                  *)
EXTENDS Deployment

SmallPaths == 1 .. 7
SmallLocal == 1 .. 5
SmallRewritten == [p \in SmallPaths |-> IF p = 6 THEN 7 ELSE p]
SmallResolved == [p \in SmallPaths |-> IF p = 4 THEN 5 ELSE p]

\* Inside, on every edge, and outside.
SmallPlaces == [x : {-1, 0, 1, 2, 3, 4, 6}, y : {0, 1, 2, 4}]

Affine(left, dx, skewX, top, skewY, dy, width, height, holes) ==
  [ at |-> <<left, dx, skewX, top, skewY, dy>>,
    width |-> width, height |-> height, holes |-> holes ]

\* Small cells with a hole, large cells around them, a slanted raster, a turned
\* one, and one that is upside down.
Fine    == Affine(1, 1, 0, 3, 0, -1, 2, 2, {<<0, 0>>})
Coarse  == Affine(0, 3, 0, 4, 0, -2, 2, 2, {<<1, 1>>})
Slanted == Affine(0, 2, 1, 3, 0, -1, 2, 3, {})
Turned  == Affine(2, 2, -1, 4, -1, -2, 2, 2, {})
SouthUp == Affine(0, 2, 0, 0, 0, 2, 2, 1, {})

Files(f) == [p \in SmallPaths |-> IF p \in DOMAIN f THEN f[p] ELSE Unreadable]
Arguments(list) == [lines |-> <<>>, arguments |-> list]

\* Deployments: a directory that may hold the index and the same files one by one, with
\* another before or behind them; files that have to be rewritten, that resolve to
\* others or that are not on this machine; lines with arguments.
Lists ==
  { Arguments(<<{1, 2, IndexName}>>), Arguments(<<{3}, {1, 2, IndexName}>>),
    Arguments(<<{1, 2, IndexName}, {3}>>), Arguments(<<{3}, {IndexName}>>),
    Arguments(<<{2}, {1}>>), [lines |-> <<2>>, arguments |-> <<{1, 3}>>] }
Names == { Arguments(<<{4}>>), Arguments(<<{5}>>), Arguments(<<{4}, {5}>>),
           Arguments(<<{7}, {5}>>), Arguments(<<{6}, {5}>>), Arguments(<<{7}, {IndexName}>>),
           [lines |-> <<6>>, arguments |-> <<{4}>>] }

\* What is there before any index is made.
Fresh(files, commands) ==
  [rasters |-> files, index |-> NoIndex, srs |-> RequestSRS, inputs |-> commands]

Deployments ==
  { Fresh(Files(<<a, b, c>>), Lists) :
      a, b \in {Fine, Coarse, Slanted, Turned, SouthUp}, c \in {Coarse, Slanted, Unreadable} }
  \cup
  { Fresh(Files((4 :> a) @@ (5 :> b) @@ (7 :> Coarse)), Names) :
      a, b \in {Fine, Slanted, Unreadable} }

\* An index of the same boxes from another -s, that may be made again.
Foreign ==
  { [ rasters |-> Files(<<Fine, Coarse, c>>), srs |-> "another", inputs |-> Lists,
      index |-> << [path |-> 1, box |-> ComputeBounds(Fine)],
                   [path |-> 2, box |-> ComputeBounds(Coarse)] >> ] : c \in {Slanted, Unreadable} }

Boxes(xs, ys) == [left : xs, right : xs, bottom : ys, top : ys]
B(left, right, bottom, top) ==
  [left |-> left, right |-> right, bottom |-> bottom, top |-> top]

\* Tiles side by side, one across them all, tall and flat ones, a point, and one far
\* from the others.
Mosaic ==
  { B(0, 1, 0, 1), B(1, 2, 0, 1), B(0, 1, 1, 2), B(0, 6, 0, 4), B(2, 3, 0, 4),
    B(0, 6, 2, 3), B(1, 1, 1, 1), B(5, 6, 3, 4) }

\* Indexes of every box, degenerate ones included, alone or with another, and of the
\* mosaics of three.  Lookups come to the candidates, and none opens.
IndexOf(bs) ==
  [ rasters |-> Files(<<>>), srs |-> RequestSRS, inputs |-> {Arguments(<<{IndexName}>>)},
    index |-> [i \in DOMAIN bs |-> [path |-> i, box |-> bs[i]]] ]
PlausibleBoxes == {b \in Boxes(0 .. 3, 0 .. 2) : Plausible(b)}
HandMade ==
  { IndexOf(<<a>>) : a \in PlausibleBoxes }
  \cup { IndexOf(<<a, b>>) : a, b \in PlausibleBoxes }
  \cup { IndexOf(<<a, b, c>>) : a, b, c \in Mosaic }

\* Every raster of one cell, inverted ones included, with each of three others.
Tile(b) == Affine(b.left, b.right - b.left, 0, b.top, 0, b.bottom - b.top, 1, 1, {})
Tiles ==
  { Fresh(Files(<<Tile(a), c>>), {Arguments(<<{1, 2}>>)}) :
      a \in {b \in Boxes(0 .. 3, 0 .. 2) : b.left # b.right /\ b.bottom # b.top},
      c \in {Fine, Coarse, SouthUp} }

Various == Deployments \cup Foreign \cup HandMade \cup Tiles

\* A source that is named twice.
Twice ==
  { Fresh(Files(<<Fine, Coarse>>), {Arguments(<<{1}, {2}>>), Arguments(<<{1}, {2}, {1}>>),
                                    Arguments(<<{2}, {1}, {2}>>)}) }

SomeReplacements == {Unreadable, Slanted}
===============================================================================

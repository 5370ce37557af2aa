------------------------------ MODULE LookupGrid ------------------------------
(***************************************************************************)
(* The grid that picks, for one point, the few datasets whose box could    *)
(* contain it, in order of precedence.  Boxes are numbered from 0, as in   *)
(* the code.  Coordinates are integers and the arithmetic is exact: what   *)
(* the code gets out of floating point is that cellIndex() is monotone,    *)
(* which rounding keeps.                                                   *)
(***************************************************************************)
EXTENDS Raster, FiniteSets, FiniteSetsExt, Functions, SequencesExt

CONSTANTS
  Places,           \* the points that may be looked up
  NoPlace,          \* point before the first lookup
  MaxCellsPerBox,   \* GRID_MAX_CELLS_PER_BOX
  MaxSide,          \* GRID_MAX_SIDE
  MaxCells          \* GRID_MAX_CELLS

\* With fewer than 4 cells, GridBuild()'s halving loop would not end.
ASSUME LookupGridAssumption ==
  /\ \A p \in Places : p \in Point
  /\ NoPlace \notin Places
  /\ MaxCellsPerBox \in Nat /\ MaxCellsPerBox > 0
  /\ MaxSide \in Nat /\ MaxSide > 0
  /\ MaxCells \in Nat /\ MaxCells >= 4

VARIABLES
  boxes,   \* the boxes of the datasets, in order of precedence
  grid,    \* what GridBuild() makes of them, NoGrid of none
  point,   \* the point that is looked up
  cell,    \* the cursor: what is left of the cell's own list ...
  wide,    \* ... and of the list of oversized boxes
  given    \* the candidates GridNext() has given out for the point

cursor == <<point, cell, wide, given>>
gridVars == <<boxes, grid, cursor>>

-----------------------------------------------------------------------------
(* GridBuild().                                                            *)

Numbers(bs) == 0 .. Len(bs) - 1
BoxOf(bs, i) == bs[i + 1]

\* The numbers in S from the least on: the k-th has k - 1 of them below it.
Below(S, x) == {y \in S : y < x}
Ascending(S) == [k \in 1 .. Cardinality(S) |-> CHOOSE x \in S : Cardinality(Below(S, x)) = k - 1]

\* The whole extent along an axis, or 1 when there is none.
Span(lo, hi) == IF hi > lo THEN hi - lo ELSE 1

\* medianExtent(): the upper median of the extents that are positive, or 0: of those
\* that half of them do not exceed, and one more, the least.
MedianExtent(extents) ==
  LET kept == {i \in DOMAIN extents : extents[i] > 0}
      upTo(e) == {i \in kept : extents[i] <= e}
  IN IF kept = {} THEN 0
     ELSE Min({e \in Range(extents) : Cardinality(upTo(e)) > Cardinality(kept) \div 2})

\* How many cells make up an axis: one for each median extent, rounded up.
Side(span, median) ==
  LET extent == IF median > 0 THEN median ELSE span
  IN Min({MaxSide, (span + extent - 1) \div extent})

\* While the grid is too large, its longer side is halved.
Fit[sides \in (1 .. MaxSide) \X (1 .. MaxSide)] ==
  LET nx == sides[1] ny == sides[2]
  IN IF nx * ny <= MaxCells THEN sides
     ELSE IF nx >= ny THEN Fit[<<nx \div 2 + 1, ny>>]
     ELSE Fit[<<nx, ny \div 2 + 1>>]

\* cellIndex(): the cell a coordinate is in along an axis, the last one for the
\* far edge and what is beyond it.
CellIndex(v, lo, span, n) ==
  LET d == ((v - lo) * n) \div span
  IN IF d >= n THEN n - 1 ELSE IF d > 0 THEN d ELSE 0

\* boxCells(): the cells a box overlaps, one at least when it is inverted.
BoxCells(g, b) ==
  LET x0 == CellIndex(b.left, g.min_x, g.span_x, g.nx)
      x1 == CellIndex(b.right, g.min_x, g.span_x, g.nx)
      y0 == CellIndex(b.bottom, g.min_y, g.span_y, g.ny)
      y1 == CellIndex(b.top, g.min_y, g.span_y, g.ny)
  IN {cx + cy * g.nx : cx \in x0 .. Max({x0, x1}), cy \in y0 .. Max({y0, y1})}

\* The extent and the shape of the grid.
Shape(bs) ==
  LET min_x == Min({b.left : b \in Range(bs)})
      max_x == Max({b.right : b \in Range(bs)})
      min_y == Min({b.bottom : b \in Range(bs)})
      max_y == Max({b.top : b \in Range(bs)})
      span_x == Span(min_x, max_x)
      span_y == Span(min_y, max_y)
      widths == [i \in DOMAIN bs |-> bs[i].right - bs[i].left]
      heights == [i \in DOMAIN bs |-> bs[i].top - bs[i].bottom]
      sides == Fit[<<Side(span_x, MedianExtent(widths)),
                     Side(span_y, MedianExtent(heights))>>]
  IN [ min_x |-> min_x, max_x |-> max_x, min_y |-> min_y, max_y |-> max_y,
       span_x |-> span_x, span_y |-> span_y, nx |-> sides[1], ny |-> sides[2] ]

\* Mutant: the cap is one side of the cells, not all of them.
Oversized_Sideways(bs, g) ==
  {i \in Numbers(bs) :
     LET b == BoxOf(bs, i)
     IN Cardinality({c % g.nx : c \in BoxCells(g, b)}) > MaxCellsPerBox}

\* The boxes that overlap too many cells to be listed in each.
Oversized(bs, g) ==
  {i \in Numbers(bs) : Cardinality(BoxCells(g, BoxOf(bs, i))) > MaxCellsPerBox}

\* Mutant: the second pass over the boxes does not skip the oversized ones.
CellLists_NoSkip(bs, g) ==
  [c \in 0 .. g.nx * g.ny - 1 |->
     Ascending({i \in Numbers(bs) : c \in BoxCells(g, BoxOf(bs, i))})]

\* The cells' lists, filled by walking the boxes in order: entries and offsets, as
\* one sequence for each cell.
CellLists(bs, g) ==
  [c \in 0 .. g.nx * g.ny - 1 |->
     Ascending({i \in Numbers(bs) \ Oversized(bs, g) : c \in BoxCells(g, BoxOf(bs, i))})]

GridBuild(bs) ==
  LET g == Shape(bs)
  IN [shape |-> g, cells |-> CellLists(bs, g), wide |-> Ascending(Oversized(bs, g))]

-----------------------------------------------------------------------------
(* The cursor.                                                             *)

\* Nothing is loaded, nothing is looked up.
NoGrid == [shape |-> <<>>, cells |-> <<>>, wide |-> <<>>]
NoCursor == point = NoPlace /\ cell = <<>> /\ wide = <<>> /\ given = <<>>

\* contextBuildGrid(), once everything is loaded.
BuildGrid(bs) ==
  /\ boxes' = bs
  /\ grid' = GridBuild(bs)
  /\ UNCHANGED cursor

\* Outside of the union of the boxes' extents no box can contain the point.
InExtent(g, p) ==
  /\ g.min_x <= p.x /\ p.x <= g.max_x
  /\ g.min_y <= p.y /\ p.y <= g.max_y

\* GridBegin(): every lookup has a cursor of its own.
GridBegin ==
  \E p \in Places :
    LET g == grid.shape
        cx == CellIndex(p.x, g.min_x, g.span_x, g.nx)
        cy == CellIndex(p.y, g.min_y, g.span_y, g.ny)
    IN /\ point = NoPlace
       /\ point' = p
       /\ IF InExtent(g, p)
          THEN cell' = grid.cells[cy * g.nx + cx] /\ wide' = grid.wide
          ELSE cell' = <<>> /\ wide' = <<>>
       /\ UNCHANGED <<boxes, grid, given>>

\* Mutant: the two lists one after the other.
FromCell_First == cell # <<>>

\* The cell's list has the next candidate of the two.
FromCell ==
  /\ cell # <<>>
  /\ wide = <<>> \/ Head(cell) <= Head(wide)

\* GridNext(): the two ascending lists are merged on the fly.
GridNext ==
  /\ cell # <<>> \/ wide # <<>>
  /\ IF FromCell
     THEN /\ given' = Append(given, Head(cell))
          /\ cell' = Tail(cell) /\ UNCHANGED wide
     ELSE /\ given' = Append(given, Head(wide))
          /\ wide' = Tail(wide) /\ UNCHANGED cell
  /\ UNCHANGED <<boxes, grid, point>>

\* The lookup has its answer, or there is none: the cursor goes.
Return ==
  /\ point # NoPlace
  /\ point' = NoPlace
  /\ cell' = <<>> /\ wide' = <<>> /\ given' = <<>>
  /\ UNCHANGED <<boxes, grid>>

-----------------------------------------------------------------------------
(* Properties.                                                             *)

GridTypeOK ==
  /\ Range(boxes) \subseteq Box
  /\ point \in Places \cup {NoPlace}
  /\ \A list \in {cell, wide, given} : Range(list) \subseteq Numbers(boxes)
  /\ Range(cell) \cap Range(wide) = {}
  /\ IF boxes = <<>> THEN grid = NoGrid /\ NoCursor
     ELSE DOMAIN grid.cells = 0 .. grid.shape.nx * grid.shape.ny - 1

\* The grid never decides the answer: the candidates that contain the point are those
\* a walk over every dataset would come to, none missed and in the same order,
\* wherever the point lies on the edges of its box, of its cell or of the grid,
\* whether boxes are oversized, degenerate or inverted (context.cpp:343, "The grid
\* narrows which datasets are asked; it never decides the answer").
SameAsScan ==
  point # NoPlace =>
    LET containing == {i \in Numbers(boxes) : DatasetContains(BoxOf(boxes, i), point)}
    IN /\ \A j, k \in DOMAIN given : j < k => given[j] < given[k]
       /\ \A i \in containing \ Range(given) : \A j \in Range(given) : j < i
       /\ cell = <<>> /\ wide = <<>> => containing \subseteq Range(given)

\* The grid is bounded whatever the boxes are: in its cells, and in the entries one
\* box may take up ("Without a cap, one raster spanning the world would be copied
\* into every cell", grid.cpp:10).
GridBounded ==
  boxes # <<>> =>
    LET g == grid.shape
    IN /\ g.nx * g.ny <= MaxCells
       /\ g.nx \in 1 .. MaxSide /\ g.ny \in 1 .. MaxSide
       /\ \A i \in Numbers(boxes) :
            Cardinality({c \in DOMAIN grid.cells : i \in Range(grid.cells[c])})
              <= MaxCellsPerBox
=============================================================================

--------------------------- MODULE DashboardGrid ---------------------------
(***************************************************************************)
(* The layout engine of the panel's dashboard (panel/lib/dashboardGrid.ts):*)
(* pure functions over a list of tiles.  A tile is a record [id, x, y, w,  *)
(* h] in cells; a layout is a sequence of tiles, in the order of the       *)
(* stored array.  Coordinates are integers (`int` and Math.round have been *)
(* applied), the `guard` counters of the loops are kept where they bound   *)
(* an iteration.                                                           *)
(***************************************************************************)
EXTENDS Integers, Sequences, SequencesExt

CONSTANTS
  GRID_COLS,        \* columns of the desktop board (12)
  TABLET_COLS,      \* columns of the tablet board (6)
  GRID_MAX_ROWS,    \* height limit of a tile (400)
  NARROW,           \* widest tile that goes two in a row on a phone (4 of 12)
  Limits,           \* tile -> [minW, minH, maxW, maxH]: the constraints of its kind
  PhoneRows         \* tile -> row limit on the phone layout (0: none)

ASSUME GridAssumption ==
  /\ GRID_COLS \in Nat \ {0} /\ TABLET_COLS \in 1 .. GRID_COLS
  /\ GRID_MAX_ROWS \in Nat \ {0} /\ NARROW \in 0 .. GRID_COLS
  /\ \A t \in DOMAIN Limits : /\ Limits[t].minW \in Nat \ {0} /\ Limits[t].minH \in Nat \ {0}
                              /\ Limits[t].maxW \in Nat \ {0} /\ Limits[t].maxH \in Nat \ {0}
                              /\ PhoneRows[t] \in Nat

---------------------------------------------------------------------------
(* Arithmetic and access *)

Lesser(a, b)  == IF a < b THEN a ELSE b
Greater(a, b) == IF a < b THEN b ELSE a
Clamp(v, lo, hi) == Lesser(Greater(v, lo), Greater(lo, hi))

\* Math.round(a / b) for a >= 0 and b > 0
Rounded(a, b) == (2 * a + b) \div (2 * b)

\* items.map(Op), as a tuple: TLC evaluates its elements once
Mapped(items, Op(_)) == <<>> \o [i \in DOMAIN items |-> Op(items[i])]

\* items.filter: the elements of `S`, in their order
Picked(items, S) ==
  FoldLeft(LAMBDA out, e : IF e \in S THEN Append(out, e) ELSE out, <<>>, items)

Ids(items)       == {items[i].id : i \in DOMAIN items}
TileOf(items, t) == items[CHOOSE i \in DOMAIN items : items[i].id = t]
Without(items, t) == Picked(items, {p \in ToSet(items) : p.id # t})
Keeping(items, S) == Picked(items, {p \in ToSet(items) : p.id \in S})

\* Constraints made consistent for a column count: min <= max <= cols.
EffectiveConstraints(t, cols) ==
  LET c    == Limits[t]
      minW == Lesser(cols, Greater(1, c.minW))
      minH == Greater(1, c.minH)
  IN  [minW |-> minW, minH |-> minH,
       maxW |-> Lesser(cols, Greater(minW, c.maxW)),
       maxH |-> Greater(minH, Lesser(GRID_MAX_ROWS, c.maxH))]

---------------------------------------------------------------------------
(* Basics *)

SharesColumns(a, b) == a.x < b.x + b.w /\ a.x + a.w > b.x

Collides(a, b) ==
  /\ a.id # b.id
  /\ SharesColumns(a, b)
  /\ a.y < b.y + b.h /\ a.y + a.h > b.y

HasOverlap(items) == \E i, j \in DOMAIN items : i < j /\ Collides(items[i], items[j])

BottomOf(items) == Max({0} \cup {p.y + p.h : p \in ToSet(items)})

\* The stable sort of `items` by a strict order on tiles.
SortedBy(items, Before(_, _)) ==
  LET Goes(i, j) == Before(items[i], items[j]) \/ (i < j /\ ~Before(items[j], items[i]))
      place == [i \in DOMAIN items |-> Cardinality({j \in DOMAIN items : Goes(j, i)}) + 1]
  IN  [k \in DOMAIN items |-> items[CHOOSE i \in DOMAIN items : place[i] = k]]

\* Reading order: top to bottom, then left to right.
SortItems(items) == SortedBy(items, LAMBDA a, b : a.y < b.y \/ (a.y = b.y /\ a.x < b.x))

FitItem(it, cols) ==
  LET k == EffectiveConstraints(it.id, cols)
      w == Clamp(it.w, k.minW, k.maxW)
  IN  [id |-> it.id, w |-> w, h |-> Clamp(it.h, k.minH, k.maxH),
       x |-> Clamp(it.x, 0, cols - w), y |-> Clamp(it.y, 0, GRID_MAX_ROWS * 4)]

Fitted(items, cols) == Mapped(items, LAMBDA it : FitItem(it, cols))

\* Fault: pushed below a collider, never floated up.
SettlePushed(placed, it) ==
  LET Free(y) == ~\E p \in ToSet(placed) : Collides(p, [it EXCEPT !.y = y])
  IN  [it EXCEPT !.y = Min({r \in {it.y} \cup {p.y + p.h : p \in ToSet(placed)} :
                              r >= it.y /\ Free(r)})]

\* Fault: a tile floats up by one row only.
SettleOneRow(placed, it) ==
  LET y == SettlePushed(placed, it).y
      Free(r) == r >= 0 /\ ~\E p \in ToSet(placed) : Collides(p, [it EXCEPT !.y = r])
  IN  [it EXCEPT !.y = IF Free(y - 1) THEN y - 1 ELSE y]

\* Pushed below whatever it collides with, then floated up to the lowest
\* bottom edge above it among the placed tiles that share its columns.
Settle(placed, it) ==
  LET Free(y) == ~\E p \in ToSet(placed) : Collides(p, [it EXCEPT !.y = y])
      y == Min({r \in {it.y} \cup {p.y + p.h : p \in ToSet(placed)} : r >= it.y /\ Free(r)})
      above == {p \in ToSet(placed) : p.id # it.id /\ SharesColumns(p, it) /\ p.y + p.h <= y}
  IN  [it EXCEPT !.y = Max({0} \cup {p.y + p.h : p \in above})]

\* `for (const it of items) placed.push(settle(placed, it))`
SettleAll(items) ==
  FoldLeft(LAMBDA placed, it : Append(placed, Settle(placed, it)), <<>>, items)

RestoreOrder(original, placed) ==
  Mapped(original, LAMBDA o : IF o.id \in Ids(placed) THEN TileOf(placed, o.id) ELSE o)

Compact(items, cols) ==
  LET once == SettleAll(SortItems(Fitted(items, cols)))
  IN  RestoreOrder(items, SettleAll(SortItems(once)))

\* A tile that `moved` is dragged down past goes above it when there is room.
Lifted(placed, moved, raw, down) ==
  LET up == [raw EXCEPT !.y = Greater(0, moved.y - raw.h)]
  IN  IF down /\ Collides(moved, raw) /\ ~\E p \in ToSet(placed) : Collides(p, up)
      THEN up ELSE raw

PlacedAround(moved, others, down) ==
  FoldLeft(LAMBDA placed, raw : Append(placed, Settle(placed, Lifted(placed, moved, raw, down))),
           << moved >>, others)

\* Fault: the moved tile is one of all, in reading order.
PlaceInOrder(items, moved, cols, down) ==
  Compact(Mapped(items, LAMBDA p : IF p.id = moved.id THEN moved ELSE p), cols)

\* The moved tile stays where it is put, every other tile makes way for it.
PlaceWithPriority(items, moved, cols, down) ==
  LET others == SortItems(Fitted(Without(items, moved.id), cols))
      all    == IF moved.id \in Ids(items) THEN items ELSE Append(items, moved)
  IN  RestoreOrder(all, Compact(PlacedAround(moved, others, down), cols))

---------------------------------------------------------------------------
(* Move, resize, add *)

MoveItem(items, t, x, y, cols) ==
  LET cur   == TileOf(items, t)
      moved == FitItem([cur EXCEPT !.x = x, !.y = y], cols)
  IN  IF t \notin Ids(items) THEN items
      ELSE PlaceWithPriority(items, moved, cols, moved.y > cur.y)

ResizeItem(items, t, rect, cols) ==
  IF t \notin Ids(items) THEN items
  ELSE PlaceWithPriority(items,
         FitItem([id |-> t, x |-> rect.x, y |-> rect.y, w |-> rect.w, h |-> rect.h], cols),
         cols, FALSE)

\* The rectangle a drag of `handle` (a set of edges) by (dx, dy) cells asks
\* for: the opposite edges stay, the size is clamped to the limits and the
\* grid.
ResizeRect(start, handle, dx, dy, cols) ==
  LET k      == EffectiveConstraints(start.id, cols)
      right  == start.x + start.w
      bottom == start.y + start.h
      dw     == IF "e" \in handle THEN dx ELSE IF "w" \in handle THEN -dx ELSE 0
      dh     == IF "s" \in handle THEN dy ELSE IF "n" \in handle THEN -dy ELSE 0
      availW == IF "w" \in handle THEN right ELSE cols - start.x
      availH == IF "n" \in handle THEN bottom ELSE GRID_MAX_ROWS
      w == Clamp(start.w + dw, k.minW, Lesser(k.maxW, Greater(k.minW, availW)))
      h == Clamp(start.h + dh, k.minH, Lesser(k.maxH, Greater(k.minH, availH)))
  IN  [x |-> Greater(0, IF "w" \in handle THEN right - w ELSE start.x),
       y |-> Greater(0, IF "n" \in handle THEN bottom - h ELSE start.y),
       w |-> w, h |-> h]

\* The first free slot, rows top to bottom and columns left to right.
FirstFit(items, w, h, cols) ==
  LET ww == Clamp(w, 1, cols)
      hh == Greater(1, h)
      limit == BottomOf(items)
      Free(x, y) == \A p \in ToSet(items) :
                      ~(/\ p.x < x + ww /\ p.x + p.w > x
                        /\ p.y < y + hh /\ p.y + p.h > y)
      slots == {s \in (0 .. cols - ww) \X (0 .. limit) : Free(s[1], s[2])}
      best == CHOOSE s \in slots : \A r \in slots : s[2] < r[2] \/ (s[2] = r[2] /\ s[1] <= r[1])
  IN  IF slots = {} THEN [x |-> 0, y |-> limit] ELSE [x |-> best[1], y |-> best[2]]

InFirstFit(items, t, w, h, cols) ==
  LET slot == FirstFit(items, w, h, cols)
  IN  Append(items, [id |-> t, x |-> slot.x, y |-> slot.y, w |-> w, h |-> h])

---------------------------------------------------------------------------
(* The layout actually shown: stored places of the wanted tiles, the others *)
(* in free slots, clamped, without overlaps and compacted.                  *)

\* A tile without a stored place, in its default size.
Inserted(placed, t, sizes, cols) ==
  LET c == EffectiveConstraints(t, cols)
  IN  InFirstFit(placed, t, Clamp(sizes[t].w, c.minW, c.maxW),
                            Clamp(sizes[t].h, c.minH, c.maxH), cols)

AllInserted(base, missing, sizes, cols) ==
  FoldLeft(LAMBDA placed, t : Inserted(placed, t, sizes, cols), base, missing)

Reconcile(stored, wanted, sizes, cols) ==
  LET known    == Picked(wanted, Ids(stored))
      missing  == Picked(wanted, ToSet(wanted) \ Ids(stored))
      base     == Compact(Mapped(known, LAMBDA t : TileOf(stored, t)), cols)
      layout   == Compact(AllInserted(base, missing, sizes, cols), cols)
  IN  Mapped(wanted, LAMBDA t : TileOf(layout, t))

RemoveItem(items, t, cols) == Compact(Without(items, t), cols)

\* A new tile at the place it asks for, the others pushed away.
AddItem(items, it, cols) ==
  PlaceWithPriority(Without(items, it.id), FitItem(it, cols), cols, FALSE)

---------------------------------------------------------------------------
(* Layouts of the smaller breakpoints, derived and never stored *)

\* A shelf is a sequence of [id, w, h, k], k the constraints in force.  One
\* round gives a free column to each tile that may grow, from right to left.
ShelfWidth(shelf) == FoldLeft(LAMBDA n, e : n + e.w, 0, shelf)

Grown(acc, e, cols) ==
  IF acc.left > 0 /\ e.w < Lesser(cols, e.k.maxW)
  THEN [left |-> acc.left - 1, row |-> << [e EXCEPT !.w = @ + 1] >> \o acc.row]
  ELSE [left |-> acc.left, row |-> << e >> \o acc.row]

GrownOnce(shelf, cols) ==
  FoldLeft(LAMBDA acc, e : Grown(acc, e, cols),
           [left |-> cols - ShelfWidth(shelf), row |-> <<>>], Reverse(shelf)).row

Justified(shelf, cols) ==
  FoldLeft(LAMBDA s, i : GrownOnce(s, cols), shelf, [i \in 1 .. cols * 2 |-> i])

\* A tile is written to the right of the one before it, in the row's height.
Put(acc, e, y, height) ==
  [x |-> acc.x + e.w,
   out |-> Append(acc.out, [id |-> e.id, x |-> acc.x, y |-> y, w |-> e.w,
                            h |-> Clamp(height, e.k.minH, e.k.maxH)])]

Written(out, y, row, height) ==
  FoldLeft(LAMBDA acc, e : Put(acc, e, y, height), [x |-> 0, out |-> out], row).out

\* Fault: a shelf is written from its last tile.
FlushedBackwards(out, y, shelf, cols) ==
  LET height == Max({e.h : e \in ToSet(shelf)})
  IN  IF shelf = <<>> THEN [out |-> out, y |-> y]
      ELSE [out |-> Written(out, y, Reverse(Justified(shelf, cols)), height), y |-> y + height]

\* The tiles of a shelf side by side from row y, all of the tallest's height.
Flushed(out, y, shelf, cols) ==
  LET height == Max({e.h : e \in ToSet(shelf)})
  IN  IF shelf = <<>> THEN [out |-> out, y |-> y]
      ELSE [out |-> Written(out, y, Justified(shelf, cols), height), y |-> y + height]

\* A tile goes on the current shelf, or on a new one when that is full.
Shelved(acc, it, cols, limits, fromCols) ==
  LET k == limits[it.id]
      w == Clamp(Rounded(it.w * cols, fromCols), k.minW, Lesser(k.maxW, cols))
      e == [id |-> it.id, w |-> w, h |-> Clamp(it.h, k.minH, k.maxH), k |-> k]
      f == Flushed(acc.out, acc.y, acc.shelf, cols)
  IN  IF acc.used + w > cols
      THEN [out |-> f.out, y |-> f.y, shelf |-> << e >>, used |-> w]
      ELSE [out |-> acc.out, y |-> acc.y, shelf |-> Append(acc.shelf, e), used |-> acc.used + w]

AllShelved(items, cols, limits, fromCols) ==
  FoldLeft(LAMBDA acc, it : Shelved(acc, it, cols, limits, fromCols),
           [out |-> <<>>, y |-> 0, shelf |-> <<>>, used |-> 0], items)

\* Reading order packed into full-width shelves of `cols` columns, within
\* `limits`, the constraints of each tile.
Reflow(items, cols, limits, fromCols) ==
  LET end == AllShelved(SortItems(items), cols, limits, fromCols)
  IN  Flushed(end.out, end.y, end.shelf, cols).out

\* Phone: narrow tiles two in a row, the others full width, with the row
\* limit of their kind below their minimum height.
PhoneConstraints(t) ==
  LET c == EffectiveConstraints(t, GRID_COLS)
      m == PhoneRows[t]
  IN  IF m = 0 THEN c
      ELSE [c EXCEPT !.minH = Lesser(@, m), !.maxH = Lesser(@, m)]

DeriveLayout(items, bp) ==
  LET order  == SortItems(items)
      phone  == [t \in Ids(items) |-> PhoneConstraints(t)]
      tablet == [t \in Ids(items) |-> EffectiveConstraints(t, TABLET_COLS)]
      Phone(it) ==
        LET k == phone[it.id]
        IN  [id |-> it.id, x |-> 0, y |-> 0,
             w |-> IF it.w > NARROW THEN GRID_COLS ELSE GRID_COLS \div 2,
             h |-> Clamp(it.h, k.minH, k.maxH)]
  IN  CASE bp = "lg" -> items
        [] bp = "sm" -> RestoreOrder(items, Reflow(Mapped(order, Phone),
                                                   GRID_COLS, phone, GRID_COLS))
        [] bp = "md" -> RestoreOrder(items, Reflow(order, TABLET_COLS, tablet, GRID_COLS))

---------------------------------------------------------------------------
(* Holes, and how they are closed *)

Cells(p)     == (p.x .. p.x + p.w - 1) \X (p.y .. p.y + p.h - 1)
Taken(items) == UNION {Cells(p) : p \in ToSet(items)}

\* Cells that are empty although something sits below them in their column.
HoleCount(items, cols) ==
  LET taken == Taken(items)
  IN  Cardinality({c \in (0 .. cols - 1) \X (0 .. BottomOf(items) - 1) :
                     c \notin taken /\ \E d \in taken : d[1] = c[1] /\ d[2] > c[2]})

EmptyCellCount(items, cols) == BottomOf(items) * cols - Cardinality(Taken(items))

\* The empty runs of the rows, in the order of the scan.
Gaps(items, cols) ==
  LET taken == Taken(items)
      Open(x, y) == x \in 0 .. cols - 1 /\ <<x, y>> \notin taken
  IN  {g \in [x : 0 .. cols - 1, end : 1 .. cols, y : 0 .. BottomOf(items) - 1] :
         /\ g.x < g.end /\ \A x \in g.x .. g.end - 1 : Open(x, g.y)
         /\ ~Open(g.x - 1, g.y) /\ ~Open(g.end, g.y)}

\* Fault: a neighbour stops one column short of its maximum width.
ClosedShort(items, g, cols) ==
  LET taken == Taken(items)
      room(p) == Lesser(g.end - g.x, EffectiveConstraints(p.id, cols).maxW - p.w - 1)
      FreeFor(p, xs) == \A x \in xs, y \in p.y .. p.y + p.h - 1 : <<x, y>> \notin taken
      Rightward(p) == Max({0} \cup {k \in 1 .. room(p) : FreeFor(p, g.x .. g.x + k - 1)})
  IN  Mapped(items, LAMBDA p : IF <<g.x - 1, g.y>> \in Cells(p)
                              THEN [p EXCEPT !.w = @ + Rightward(p)] ELSE p)

\* A gap is closed by its left neighbour, else by its right one, as far as
\* the neighbour's maximum width and the free cells of its rows allow.
Closed(items, g, cols) ==
  LET taken == Taken(items)
      room(p) == Lesser(g.end - g.x, EffectiveConstraints(p.id, cols).maxW - p.w)
      FreeFor(p, xs) == \A x \in xs, y \in p.y .. p.y + p.h - 1 : <<x, y>> \notin taken
      Rightward(p) == Max({0} \cup {k \in 1 .. room(p) : FreeFor(p, g.x .. g.x + k - 1)})
      Leftward(p)  == Max({0} \cup {k \in 1 .. room(p) : FreeFor(p, g.end - k .. g.end - 1)})
      left  == {p \in ToSet(items) : <<g.x - 1, g.y>> \in Cells(p) /\ Rightward(p) > 0}
      right == {p \in ToSet(items) : <<g.end, g.y>> \in Cells(p) /\ Leftward(p) > 0}
      Widened(p) == IF p \in left THEN [p EXCEPT !.w = @ + Rightward(p)]
                    ELSE IF left = {} /\ p \in right
                         THEN [p EXCEPT !.x = @ - Leftward(p), !.w = @ + Leftward(p)]
                         ELSE p
  IN  Mapped(items, Widened)

\* One pass: the first gap of the scan that can be closed at all.
FillPass(items, cols) ==
  LET closable == {g \in Gaps(items, cols) : Closed(items, g, cols) # items}
      First(g) == \A f \in closable : g.y < f.y \/ (g.y = f.y /\ g.x <= f.x)
  IN  IF closable = {} THEN items
      ELSE Closed(items, CHOOSE g \in closable : First(g), cols)

\* Passes until nothing changes.  A pass takes an empty cell, so the limit
\* of 400 passes is reached only by boards with more of them.
Passes(items, n, cols) ==
  FoldLeft(LAMBDA list, i : FillPass(list, cols), items, [i \in 1 .. n |-> i])

FillGaps(items, cols) == Passes(items, Lesser(400, EmptyCellCount(items, cols)), cols)

\* The neighbours of a removed tile grow into its rows; the columns of the
\* tiles outside those rows are given back.
RemoveAndFill(items, t, cols) ==
  LET gone   == TileOf(items, t)
      rest   == Without(items, t)
      filled == FillGaps(Compact(rest, cols), cols)
      InItsRows(p) == p.y < gone.y + gone.h /\ p.y + p.h > gone.y
      Kept(p) == IF InItsRows(p) THEN p
                 ELSE [p EXCEPT !.x = TileOf(rest, p.id).x, !.w = TileOf(rest, p.id).w]
  IN  IF t \notin Ids(items) THEN Compact(rest, cols)
      ELSE Compact(Mapped(filled, Kept), cols)

\* Re-packing in three orders: each of them into the first free slots.
Packed(order, cols) ==
  FoldLeft(LAMBDA placed, p : InFirstFit(placed, p.id, p.w, p.h, cols), <<>>, order)

TallestFirst(items) == SortedBy(items, LAMBDA a, b : a.h > b.h)
LowestFirst(items)  == SortedBy(items, LAMBDA a, b : a.h < b.h)

Repacked(reading, cols) ==
  Mapped(<< reading, TallestFirst(reading), LowestFirst(reading) >>,
         LAMBDA order : Compact(FillGaps(Compact(Packed(order, cols), cols), cols), cols))

Score(l, cols) == EmptyCellCount(l, cols) + HoleCount(l, cols) * 1000

\* The first best one, unless it is worse than the board it starts from.
BestOf(tried, score, fitted, cols) ==
  LET best == CHOOSE i \in DOMAIN tried : \A j \in DOMAIN tried :
                score[i] < score[j] \/ (score[i] = score[j] /\ i <= j)
  IN  IF score[best] <= Score(fitted, cols) THEN tried[best] ELSE FillGaps(fitted, cols)

BestRepacking(tried, fitted, cols) ==
  BestOf(tried, Mapped(tried, LAMBDA l : Score(l, cols)), fitted, cols)

Rearranged(fitted, cols) == BestRepacking(Repacked(SortItems(fitted), cols), fitted, cols)

AutoArrange(items, cols) == RestoreOrder(items, Rearranged(Compact(items, cols), cols))

\* For generated layouts: re-flowed when compaction leaves a hole.
TidyGrid(items) ==
  LET packed == Compact(items, GRID_COLS)
      limits == [t \in Ids(items) |-> EffectiveConstraints(t, GRID_COLS)]
  IN  IF HoleCount(packed, GRID_COLS) > 0
      THEN Compact(Reflow(packed, GRID_COLS, limits, GRID_COLS), GRID_COLS) ELSE packed

\* Inside the grid, within the limits of the tile, no two on a cell.
ValidateGrid(items, cols) ==
  /\ \A i, j \in DOMAIN items : items[i].id = items[j].id => i = j
  /\ \A p \in ToSet(items) :
       LET k == EffectiveConstraints(p.id, cols)
       IN  /\ p.x >= 0 /\ p.y >= 0 /\ p.x + p.w <= cols
           /\ p.w \in k.minW .. k.maxW /\ p.h \in k.minH .. k.maxH
  /\ ~HasOverlap(items)

=============================================================================

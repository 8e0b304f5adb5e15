---------------------------- MODULE GridPacking ----------------------------
(***************************************************************************)
(* `compact` and `settle` of panel/lib/dashboardGrid.ts, loop by loop: two *)
(* sweeps over the tiles in reading order; each tile is pushed below what  *)
(* it collides with, at most |placed| + 2 times, then floats up to the     *)
(* lowest bottom edge above it.  A `for` over the placed tiles is a scan   *)
(* that takes them one at a time.                                          *)
(***************************************************************************)
EXTENDS Integers, FiniteSets

CONSTANTS
  Ids,        \* tile ids
  Layouts,    \* the layouts to compact: sets of tiles [id, x, y, w, h]
  Infinity,   \* the `next` of a scan that has met no collider
  NoTile      \* `it` before the first tile

Tile == [id : Ids, x : Nat, y : Nat, w : Nat \ {0}, h : Nat \ {0}]

IsLayout(L) ==
  /\ L \subseteq Tile /\ IsFiniteSet(L)
  /\ \A t, u \in L : t.id = u.id => t = u

ASSUME LayoutsAssumption ==
  /\ Infinity \notin Nat /\ NoTile \notin Tile
  /\ \A L \in Layouts : IsLayout(L)

VARIABLES
  layout,     \* the tiles given to `compact`, fitted
  sweep,      \* first or second sweep
  todo,       \* tiles of the sweep that are still to be settled
  placed,     \* tiles it has settled
  pc,         \* "next", "push", "float" or "done"
  cur,        \* `it`: the tile being settled
  y,          \* its row so far
  tries,      \* `guard`
  scan,       \* placed tiles the current `for` has not looked at yet
  edge        \* `next` of a push, `floor` of the float

vars == << layout, sweep, todo, placed, pc, cur, y, tries, scan, edge >>

---------------------------------------------------------------------------
SharesColumns(a, b) == a.x < b.x + b.w /\ a.x + a.w > b.x

Collides(a, b) ==
  /\ a.id # b.id
  /\ SharesColumns(a, b)
  /\ a.y < b.y + b.h /\ a.y + a.h > b.y

\* The order of sortItems; tiles at the same place come in any order.
Before(a, b) == a.y < b.y \/ (a.y = b.y /\ a.x < b.x)

At(t, row) == [t EXCEPT !.y = row]

Init ==
  /\ layout \in Layouts
  /\ sweep = 1 /\ todo = layout /\ placed = {}
  /\ pc = "next" /\ cur = NoTile /\ y = 0 /\ tries = 0 /\ scan = {} /\ edge = 0

\* Fault: the tiles are settled in any order.
TakeUnsorted(t) ==
  /\ pc = "next" /\ t \in todo
  /\ cur' = t /\ todo' = todo \ {t} /\ y' = t.y /\ tries' = 0
  /\ pc' = "push" /\ scan' = placed /\ edge' = Infinity
  /\ UNCHANGED << layout, sweep, placed >>

\* The next tile in reading order.
Take(t) ==
  /\ pc = "next" /\ t \in todo
  /\ \A u \in todo : ~Before(u, t)
  /\ cur' = t /\ todo' = todo \ {t}
  /\ y' = t.y /\ tries' = 0
  /\ pc' = "push" /\ scan' = placed /\ edge' = Infinity
  /\ UNCHANGED << layout, sweep, placed >>

\* `if (collides(p, { ...it, y })) next = Math.min(next, p.y + p.h)`
LookForCollider(p) ==
  /\ pc = "push" /\ p \in scan
  /\ scan' = scan \ {p}
  /\ edge' = IF Collides(p, At(cur, y)) /\ (edge = Infinity \/ p.y + p.h < edge)
             THEN p.y + p.h ELSE edge
  /\ UNCHANGED << layout, sweep, todo, placed, pc, cur, y, tries >>

\* The `for` starts again below the collider, or ends: without a collider,
\* or with the last try.
Jump ==
  /\ pc = "push" /\ scan = {} /\ edge # Infinity
  /\ y' = edge /\ tries' = tries + 1
  /\ scan' = placed
  /\ IF tries + 1 < Cardinality(placed) + 2
     THEN pc' = "push" /\ edge' = Infinity
     ELSE pc' = "float" /\ edge' = 0
  /\ UNCHANGED << layout, sweep, todo, placed, cur >>

NoCollider ==
  /\ pc = "push" /\ scan = {} /\ edge = Infinity
  /\ pc' = "float" /\ scan' = placed /\ edge' = 0
  /\ UNCHANGED << layout, sweep, todo, placed, cur, y, tries >>

\* Fault: every placed tile above is an obstacle.
LookForAnyFloor(p) ==
  /\ pc = "float" /\ p \in scan
  /\ scan' = scan \ {p}
  /\ edge' = IF p.id # cur.id /\ p.y + p.h <= y /\ p.y + p.h > edge THEN p.y + p.h ELSE edge
  /\ UNCHANGED << layout, sweep, todo, placed, pc, cur, y, tries >>

\* The first obstacle above among the placed tiles that share its columns.
LookForFloor(p) ==
  /\ pc = "float" /\ p \in scan
  /\ scan' = scan \ {p}
  /\ edge' = IF /\ p.id # cur.id /\ SharesColumns(p, cur) /\ p.y + p.h <= y
                /\ p.y + p.h > edge
             THEN p.y + p.h ELSE edge
  /\ UNCHANGED << layout, sweep, todo, placed, pc, cur, y, tries >>

\* `placed.push({ ...it, y: floor })`
Float ==
  /\ pc = "float" /\ scan = {}
  /\ placed' = placed \cup {At(cur, edge)}
  /\ pc' = "next"
  /\ UNCHANGED << layout, sweep, todo, cur, y, tries, scan, edge >>

\* The second sweep begins with the tiles where the first has put them.
SweepAgain ==
  /\ pc = "next" /\ todo = {} /\ sweep = 1
  /\ sweep' = 2 /\ todo' = placed /\ placed' = {}
  /\ UNCHANGED << layout, pc, cur, y, tries, scan, edge >>

Return ==
  /\ pc = "next" /\ todo = {} /\ sweep = 2
  /\ pc' = "done"
  /\ UNCHANGED << layout, sweep, todo, placed, cur, y, tries, scan, edge >>

Next ==
  \/ \E t \in todo : Take(t)
  \/ \E p \in scan : LookForCollider(p) \/ LookForFloor(p)
  \/ Jump \/ NoCollider \/ Float \/ SweepAgain \/ Return

Spec == Init /\ [][Next]_vars

---------------------------------------------------------------------------
(* Properties *)

\* The layout the engine returns if it stopped here: in the second sweep,
\* what it has settled and the tiles where the first sweep has put them.
Busy  == pc \in {"push", "float"}
board == IF sweep = 1 THEN placed
         ELSE placed \cup todo \cup (IF Busy THEN {cur} ELSE {})

Rests(t, S) == t.y = 0 \/ \E p \in S : SharesColumns(p, t) /\ p.y + p.h = t.y

TypeOK ==
  /\ IsLayout(layout) /\ sweep \in {1, 2}
  /\ todo \subseteq Tile /\ placed \subseteq Tile /\ cur \in Tile \cup {NoTile}
  /\ pc \in {"next", "push", "float", "done"}
  /\ y \in Nat /\ tries \in Nat /\ scan \subseteq placed
  /\ edge \in Nat \cup {Infinity} /\ (pc = "float" => edge \in Nat)
  /\ IF Busy THEN cur \in Tile ELSE scan = {}

\* Between two tiles and after the last one no two of the settled tiles
\* overlap and none of them could float up.
Compacted ==
  /\ \A p, q \in placed : ~Collides(p, q)
  /\ \A p \in placed : Rests(p, placed)

\* The guard of the push loop never ends it: a tile floats only when it has
\* no collider left, so |placed| + 2 tries are enough for any layout.
GuardNeverBinds == pc = "float" => \A p \in placed : ~Collides(p, At(cur, y))

\* Every tile of the layout comes back once, with its column and its size.
NothingLost ==
  pc = "done" => /\ \A t \in layout : \E p \in placed : At(p, t.y) = t
                 /\ \A p \in placed : \E t \in layout : At(p, t.y) = t

\* The sweeps implement the promise of TilePacking: each settled tile is put
\* in a free place where it rests, and the second sweep, called "cheap
\* insurance" in the code, moves no tile at all: compaction is idempotent.
Promise == INSTANCE TilePacking WITH layout <- layout, board <- board
RefinesPacking == Promise!Spec

=============================================================================

---------------------------- MODULE TilePacking ----------------------------
(***************************************************************************)
(* What the compaction of a dashboard promises (panel/lib/dashboardGrid.ts,*)
(* header): the tiles of a layout are put one after the other on a board   *)
(* where no two of them share a cell and none could move up, each with the *)
(* column and the size it has in the layout; and a tile that was put stays.*)
(***************************************************************************)
EXTENDS Integers

CONSTANTS Layouts    \* the layouts to compact: sets of tiles [id, x, y, w, h]

VARIABLES layout, board

SharesColumns(a, b) == a.x < b.x + b.w /\ a.x + a.w > b.x

Collides(a, b) ==
  /\ a.id # b.id
  /\ SharesColumns(a, b)
  /\ a.y < b.y + b.h /\ a.y + a.h > b.y

\* `t` lies on the top edge of the board or on a tile of `S`.
Rests(t, S) == t.y = 0 \/ \E p \in S : SharesColumns(p, t) /\ p.y + p.h = t.y

\* The rows where a tile may come to rest.
Ledges == {0} \cup {p.y + p.h : p \in board}

Init == layout \in Layouts /\ board = {}

Put(t, y) ==
  LET put == [t EXCEPT !.y = y]
  IN  /\ \A p \in board : p.id # t.id /\ ~Collides(p, put)
      /\ Rests(put, board)
      /\ board' = board \cup {put}
      /\ UNCHANGED layout

Next == \E t \in layout, y \in Ledges : Put(t, y)

Spec == Init /\ [][Next]_<< layout, board >>

=============================================================================

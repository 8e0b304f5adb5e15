------------------------- MODULE GridPacking_proofs -------------------------
(***************************************************************************)
(* Compaction of any layout, of any number of tiles of any size: nothing   *)
(* overlaps, nothing can float up, the guard of the push loop never binds, *)
(* and the two sweeps implement TilePacking.                               *)
(***************************************************************************)
EXTENDS GridPacking, FiniteSetTheorems, TLAPS

Apart(S)    == \A p, q \in S : ~Collides(p, q)
Resting(S)  == \A p \in S : Rests(p, S)
Named(S)    == \A p, q \in S : p.id = q.id => p = q

\* The tile being settled, if there is one.
Current == IF Busy THEN {cur} ELSE {}

\* No two tiles in hand are the same one.
OneEach ==
  /\ IsFiniteSet(placed) /\ IsFiniteSet(todo)
  /\ Named(placed) /\ Named(todo)
  /\ \A p \in placed, u \in todo : p.id # u.id
  /\ Busy => \A p \in placed \cup todo : p.id # cur.id

\* What the push scan knows so far.  Every jump has passed a tile for good.
Pushing ==
  pc = "push" =>
    /\ edge = Infinity => \A p \in placed \ scan : ~Collides(p, At(cur, y))
    /\ edge # Infinity => \E p \in placed : Collides(p, At(cur, y)) /\ p.y + p.h = edge
    /\ tries <= Cardinality({p \in placed : p.y + p.h <= y})

\* What the float scan knows so far.
Floating ==
  pc = "float" =>
    /\ \A p \in placed : ~Collides(p, At(cur, y))
    /\ edge <= y
    /\ \A p \in placed \ scan : SharesColumns(p, cur) /\ p.y + p.h <= y => p.y + p.h <= edge
    /\ edge = 0 \/ \E p \in placed : SharesColumns(p, cur) /\ p.y + p.h = edge

\* The first sweep has the tiles of the layout; the second has them where
\* the first has put them, and takes what a tile rests on before the tile.
FirstSweep == sweep = 1 => todo \subseteq layout /\ (Busy => cur \in layout)
SecondSweep ==
  sweep = 2 =>
    /\ Apart(placed \cup todo \cup Current) /\ Resting(placed \cup todo \cup Current)
    /\ Busy => y = cur.y /\ \A u \in todo : ~Before(u, cur)

IInv == TypeOK /\ OneEach /\ Compacted /\ Pushing /\ Floating /\ FirstSweep /\ SecondSweep

---------------------------------------------------------------------------
(* Tiles *)

LEMMA TileFields ==
  ASSUME NEW t \in Tile
  PROVE  t.id \in Ids /\ t.x \in Nat /\ t.y \in Nat /\ t.w \in Nat \ {0} /\ t.h \in Nat \ {0}
BY DEF Tile

LEMMA AtTile ==
  ASSUME NEW t \in Tile, NEW r \in Nat
  PROVE  /\ At(t, r) \in Tile /\ At(t, r).y = r
         /\ At(t, r).id = t.id /\ At(t, r).x = t.x /\ At(t, r).w = t.w /\ At(t, r).h = t.h
BY DEF At, Tile

LEMMA AtOwnRow == ASSUME NEW t \in Tile PROVE At(t, t.y) = t
BY DEF At, Tile

LEMMA CollidesBothWays ==
  ASSUME NEW a \in Tile, NEW b \in Tile, Collides(a, b)
  PROVE  Collides(b, a)
BY TileFields DEF Collides, SharesColumns

\* The lemma behind the guard: a jump to the bottom edge of a collider
\* leaves one more tile behind.
LEMMA JumpPassesOne ==
  ASSUME NEW S, S \subseteq Tile, IsFiniteSet(S), NEW row \in Nat, NEW q \in S, q.y + q.h > row
  PROVE  Cardinality({p \in S : p.y + p.h <= row}) + 1
           <= Cardinality({p \in S : p.y + p.h <= q.y + q.h})
<1> DEFINE Passed(r) == {p \in S : p.y + p.h <= r}
<1>1. q \in Tile /\ q.y \in Nat /\ q.h \in Nat
  BY TileFields
<1>2. IsFiniteSet(Passed(row)) /\ IsFiniteSet(Passed(q.y + q.h))
  BY FS_Subset
<1>3. q \notin Passed(row)
  BY <1>1
<1>4. IsFiniteSet(Passed(row) \cup {q})
      /\ Cardinality(Passed(row) \cup {q}) = Cardinality(Passed(row)) + 1
  BY <1>2, <1>3, FS_AddElement
<1>5. Passed(row) \cup {q} \subseteq Passed(q.y + q.h)
  <2> SUFFICES ASSUME NEW p \in Passed(row) PROVE p \in Passed(q.y + q.h)
    BY <1>1
  <2>1. p \in S /\ p \in Tile /\ p.y + p.h <= row
    OBVIOUS
  <2>2. p.y \in Nat /\ p.h \in Nat
    BY <2>1, TileFields
  <2> QED BY <2>1, <2>2, <1>1
<1> QED BY <1>2, <1>4, <1>5, FS_Subset

---------------------------------------------------------------------------
(* The invariant holds at the start *)

LEMMA InitIInv == Init => IInv
<1> SUFFICES ASSUME Init PROVE IInv
  OBVIOUS
<1>1. IsLayout(layout)
  BY LayoutsAssumption DEF Init
<1>2. TypeOK
  BY <1>1 DEF Init, TypeOK, IsLayout, Busy
<1>3. OneEach
  BY <1>1, FS_EmptySet DEF Init, OneEach, IsLayout, Named, Busy
<1>4. Compacted /\ Pushing /\ Floating /\ FirstSweep /\ SecondSweep
  BY DEF Init, Compacted, Pushing, Floating, FirstSweep, SecondSweep, Busy
<1> QED BY <1>2, <1>3, <1>4 DEF IInv

---------------------------------------------------------------------------
(* One lemma per action *)

LEMMA TakeIInv ==
  ASSUME IInv, NEW t \in todo, Take(t)
  PROVE  IInv'
<1> USE DEF IInv
<1>1. t \in Tile /\ t.y \in Nat
  BY TileFields DEF TypeOK
<1>2. TypeOK'
  BY <1>1 DEF Take, TypeOK, Busy
<1>3. OneEach'
  <2>1. IsFiniteSet(todo')
    BY FS_RemoveElement DEF Take, OneEach
  <2> QED BY <2>1 DEF Take, OneEach, Named, Busy
<1>4. Compacted'
  BY DEF Take, Compacted, Rests
<1>5. Pushing'
  <2>1. IsFiniteSet({p \in placed : p.y + p.h <= t.y})
    BY FS_Subset DEF OneEach
  <2>2. Cardinality({p \in placed : p.y + p.h <= t.y}) \in Nat
    BY <2>1, FS_CardinalityType
  <2> QED BY <2>2 DEF Take, Pushing
<1>6. Floating'
  BY DEF Take, Floating
<1>7. FirstSweep'
  BY DEF Take, FirstSweep, Busy
<1>8. SecondSweep'
  <2> SUFFICES ASSUME sweep = 2 PROVE SecondSweep'
    BY DEF Take, SecondSweep
  <2>1. (placed \cup todo \cup Current)' = placed \cup todo \cup Current
    BY DEF Take, Current, Busy
  <2>2. Apart(placed \cup todo \cup Current)' /\ Resting(placed \cup todo \cup Current)'
    BY <2>1 DEF SecondSweep, Apart, Resting, Rests
  <2> QED BY <2>2 DEF Take, SecondSweep, Busy
<1> QED BY <1>2, <1>3, <1>4, <1>5, <1>6, <1>7, <1>8

LEMMA LookForColliderIInv ==
  ASSUME IInv, NEW p \in scan, LookForCollider(p)
  PROVE  IInv'
<1> USE DEF IInv
<1>1. p \in placed /\ p \in Tile /\ p.y \in Nat /\ p.h \in Nat
  BY TileFields DEF TypeOK
<1>2. edge' \in Nat \cup {Infinity}
  BY <1>1 DEF LookForCollider, TypeOK
<1>3. TypeOK'
  BY <1>2 DEF LookForCollider, TypeOK, Busy
<1>4. OneEach' /\ Compacted' /\ FirstSweep'
  BY DEF LookForCollider, OneEach, Compacted, FirstSweep, Busy, Named, Rests
<1>5. Pushing'
  <2>1. Infinity # p.y + p.h
    BY <1>1, LayoutsAssumption
  <2>2. ASSUME edge' = Infinity, NEW q \in placed \ scan' PROVE ~Collides(q, At(cur, y))
    BY <2>1, <2>2 DEF LookForCollider, Pushing
  <2>3. ASSUME edge' # Infinity
        PROVE  \E q \in placed : Collides(q, At(cur, y)) /\ q.y + q.h = edge'
    BY <1>1, <2>3 DEF LookForCollider, Pushing
  <2> QED BY <2>2, <2>3 DEF LookForCollider, Pushing
<1>6. Floating'
  BY DEF LookForCollider, Floating
<1>7. SecondSweep'
  BY DEF LookForCollider, SecondSweep, Apart, Resting, Rests, Current, Busy
<1> QED BY <1>3, <1>4, <1>5, <1>6, <1>7

\* A tile with a collider is not in the second sweep, and one more tile is
\* behind it than it has made jumps: the tries are never used up.
LEMMA JumpFacts ==
  ASSUME IInv, Jump
  PROVE  /\ sweep = 1 /\ edge \in Nat
         /\ tries + 1 <= Cardinality({p \in placed : p.y + p.h <= edge})
         /\ tries + 1 < Cardinality(placed) + 2
<1> USE DEF IInv
<1>1. PICK q \in placed : Collides(q, At(cur, y)) /\ q.y + q.h = edge
  BY DEF Jump, Pushing
<1>2. cur \in Tile /\ q \in Tile /\ y \in Nat
  BY DEF Jump, TypeOK, Busy
<1>3. edge \in Nat
  BY DEF Jump, TypeOK
<1>4. q.y + q.h > y
  BY <1>1, <1>2, AtTile, TileFields DEF Collides
<1>5. sweep = 1
  <2> SUFFICES ASSUME sweep = 2 PROVE FALSE
    BY DEF TypeOK
  <2>1. y = cur.y /\ Apart(placed \cup todo \cup Current) /\ cur \in Current
    BY DEF Jump, SecondSweep, Busy, Current
  <2>2. At(cur, y) = cur
    BY <2>1, <1>2, AtOwnRow
  <2> QED BY <1>1, <2>1, <2>2 DEF Apart
<1>6. /\ tries <= Cardinality({p \in placed : p.y + p.h <= y})
      /\ tries \in Nat /\ placed \subseteq Tile /\ IsFiniteSet(placed)
  BY DEF Jump, Pushing, TypeOK, OneEach
<1>7. Cardinality({p \in placed : p.y + p.h <= y}) + 1
        <= Cardinality({p \in placed : p.y + p.h <= edge})
  BY <1>1, <1>2, <1>4, <1>6, JumpPassesOne
<1>8. /\ Cardinality({p \in placed : p.y + p.h <= edge}) <= Cardinality(placed)
      /\ Cardinality({p \in placed : p.y + p.h <= edge}) \in Nat
      /\ Cardinality({p \in placed : p.y + p.h <= y}) \in Nat
      /\ Cardinality(placed) \in Nat
  BY <1>6, FS_Subset, FS_CardinalityType
<1>9. tries + 1 <= Cardinality({p \in placed : p.y + p.h <= edge})
  BY <1>6, <1>7, <1>8
<1> QED BY <1>3, <1>5, <1>6, <1>8, <1>9

LEMMA JumpIInv ==
  ASSUME IInv, Jump
  PROVE  IInv'
<1> USE DEF IInv
<1>1. /\ sweep = 1 /\ edge \in Nat
      /\ tries + 1 <= Cardinality({p \in placed : p.y + p.h <= edge})
      /\ tries + 1 < Cardinality(placed) + 2
  BY JumpFacts
<1>2. pc' = "push" /\ edge' = Infinity /\ scan' = placed
  BY <1>1 DEF Jump
<1>3. TypeOK'
  BY <1>1, <1>2 DEF Jump, TypeOK, Busy
<1>4. OneEach' /\ Compacted' /\ FirstSweep' /\ SecondSweep'
  BY <1>1, <1>2 DEF Jump, OneEach, Compacted, FirstSweep, SecondSweep, Busy, Named, Rests
<1>5. Pushing'
  BY <1>1, <1>2 DEF Jump, Pushing
<1>6. Floating'
  BY <1>2 DEF Floating
<1> QED BY <1>3, <1>4, <1>5, <1>6

LEMMA NoColliderIInv ==
  ASSUME IInv, NoCollider
  PROVE  IInv'
<1> USE DEF IInv
<1>1. TypeOK'
  BY DEF NoCollider, TypeOK, Busy
<1>2. OneEach' /\ Compacted' /\ FirstSweep'
  BY DEF NoCollider, OneEach, Compacted, FirstSweep, Busy, Named, Rests
<1>3. Pushing'
  BY DEF NoCollider, Pushing
<1>4. Floating'
  BY DEF NoCollider, Pushing, Floating, TypeOK
<1>5. SecondSweep'
  BY DEF NoCollider, SecondSweep, Apart, Resting, Rests, Current, Busy
<1> QED BY <1>1, <1>2, <1>3, <1>4, <1>5

LEMMA LookForFloorIInv ==
  ASSUME IInv, NEW p \in scan, LookForFloor(p)
  PROVE  IInv'
<1> USE DEF IInv
<1>1. p \in placed /\ p \in Tile /\ p.y \in Nat /\ p.h \in Nat /\ p.id # cur.id
  BY TileFields DEF TypeOK, OneEach, LookForFloor, Busy
<1>2. edge \in Nat /\ edge' \in Nat /\ edge <= edge' /\ edge' <= y /\ y \in Nat
  BY <1>1 DEF LookForFloor, TypeOK, Floating
<1>3. TypeOK'
  BY <1>2 DEF LookForFloor, TypeOK, Busy
<1>4. OneEach' /\ Compacted' /\ FirstSweep' /\ Pushing'
  BY DEF LookForFloor, OneEach, Compacted, FirstSweep, Pushing, Busy, Named, Rests
<1>5. Floating'
  <2>1. ASSUME NEW q \in placed \ scan', SharesColumns(q, cur), q.y + q.h <= y
        PROVE  q.y + q.h <= edge'
    <3>1. q \in Tile /\ q.y \in Nat /\ q.h \in Nat
      BY TileFields DEF TypeOK
    <3>2. CASE q = p
      BY <1>1, <2>1, <3>2, <1>2 DEF LookForFloor
    <3>3. CASE q # p
      <4>1. q.y + q.h <= edge
        BY <2>1, <3>3 DEF LookForFloor, Floating
      <4> QED BY <4>1, <1>2, <3>1
    <3> QED BY <3>2, <3>3
  <2>2. edge' = 0 \/ \E q \in placed : SharesColumns(q, cur) /\ q.y + q.h = edge'
    BY <1>1 DEF LookForFloor, Floating
  <2> QED BY <1>2, <2>1, <2>2 DEF LookForFloor, Floating
<1>6. SecondSweep'
  BY DEF LookForFloor, SecondSweep, Apart, Resting, Rests, Current, Busy
<1> QED BY <1>3, <1>4, <1>5, <1>6

\* A tile that floats up to the highest floor below its row collides with
\* nothing there either, and rests.
LEMMA FloatFacts ==
  ASSUME IInv, Float
  PROVE  /\ cur \in Tile /\ edge \in Nat /\ At(cur, edge) \in Tile
         /\ \A p \in placed : ~Collides(p, At(cur, edge))
         /\ Rests(At(cur, edge), placed)
<1> USE DEF IInv
<1>1. cur \in Tile /\ edge \in Nat /\ y \in Nat /\ edge <= y
  BY DEF Float, TypeOK, Busy, Floating
<1>2. At(cur, edge) \in Tile
  BY <1>1, AtTile
<1>3. ASSUME NEW p \in placed PROVE ~Collides(p, At(cur, edge))
  <2>1. p \in Tile /\ ~Collides(p, At(cur, y))
    BY DEF TypeOK, Float, Floating
  <2>2. SharesColumns(p, cur) /\ p.y + p.h <= y => p.y + p.h <= edge
    BY DEF Float, Floating
  <2>3. /\ At(cur, y).y = y /\ At(cur, edge).y = edge
        /\ At(cur, y).id = cur.id /\ At(cur, edge).id = cur.id
        /\ At(cur, y).x = cur.x /\ At(cur, edge).x = cur.x
        /\ At(cur, y).w = cur.w /\ At(cur, edge).w = cur.w
        /\ At(cur, y).h = cur.h /\ At(cur, edge).h = cur.h
    BY <1>1, AtTile
  <2>4. /\ p.x \in Nat /\ p.y \in Nat /\ p.w \in Nat /\ p.h \in Nat
        /\ cur.x \in Nat /\ cur.w \in Nat /\ cur.h \in Nat
    BY <2>1, <1>1, TileFields
  <2> QED BY <2>1, <2>2, <2>3, <2>4, <1>1 DEF Collides, SharesColumns
<1>4. Rests(At(cur, edge), placed)
  <2>1. At(cur, edge).y = edge /\ At(cur, edge).x = cur.x /\ At(cur, edge).w = cur.w
    BY <1>1, AtTile
  <2>2. edge = 0 \/ \E p \in placed : SharesColumns(p, cur) /\ p.y + p.h = edge
    BY DEF Float, Floating
  <2> QED BY <2>1, <2>2 DEF Rests, SharesColumns
<1> QED BY <1>1, <1>2, <1>3, <1>4

\* In the second sweep the floor is the row the tile already has.
LEMMA SecondFloat ==
  ASSUME IInv, Float, sweep = 2
  PROVE  At(cur, edge) = cur
<1> USE DEF IInv
<1>1. cur \in Tile /\ edge \in Nat /\ edge <= y /\ y = cur.y /\ cur.y \in Nat
  BY TileFields DEF Float, TypeOK, Busy, Floating, SecondSweep
<1>2. Rests(cur, placed \cup todo \cup Current)
  BY DEF SecondSweep, Resting, Current, Busy, Float
<1>3. CASE cur.y = 0
  BY <1>1, <1>3, AtOwnRow
<1>4. ASSUME NEW p \in placed \cup todo \cup Current, SharesColumns(p, cur), p.y + p.h = cur.y
      PROVE  edge = cur.y
  <2>1. p \in Tile /\ p.y \in Nat /\ p.h \in Nat \ {0}
    BY <1>1, TileFields DEF TypeOK, Current
  <2>2. p.y < cur.y
    BY <1>1, <1>4, <2>1
  <2>3. p # cur /\ p \notin todo
    BY <2>2, <1>1 DEF SecondSweep, Float, Busy, Before
  <2>4. p \in placed
    BY <2>3 DEF Current
  <2>5. p.y + p.h <= edge
    BY <2>4, <1>1, <1>4 DEF Float, Floating
  <2> QED BY <2>5, <1>1, <1>4
<1> QED BY <1>1, <1>2, <1>3, <1>4, AtOwnRow DEF Rests

LEMMA FloatIInv ==
  ASSUME IInv, Float
  PROVE  IInv'
<1> DEFINE put == At(cur, edge)
<1> USE DEF IInv
<1>1. /\ cur \in Tile /\ edge \in Nat /\ put \in Tile
      /\ \A p \in placed : ~Collides(p, put)
      /\ Rests(put, placed)
  BY FloatFacts
<1>2. placed' = placed \cup {put} /\ pc' = "next" /\ placed \subseteq Tile
  BY DEF Float, TypeOK
<1>3. put.id = cur.id /\ \A p \in placed : p.id # put.id
  BY <1>1, AtTile DEF Float, OneEach, Busy
<1> HIDE DEF put
<1>4. TypeOK'
  <2>1. placed' \subseteq Tile /\ scan' \subseteq placed'
    BY <1>1, <1>2 DEF Float
  <2>2. layout' = layout /\ sweep' = sweep /\ todo' = todo /\ cur' = cur /\ y' = y
        /\ tries' = tries /\ edge' = edge /\ scan' = {}
    BY DEF Float
  <2> QED BY <1>2, <2>1, <2>2 DEF TypeOK, Busy
<1>5. OneEach'
  <2>1. IsFiniteSet(placed')
    BY <1>2, FS_AddElement DEF OneEach
  <2>2. Named(placed')
    BY <1>2, <1>3 DEF Named, OneEach
  <2>3. ASSUME NEW p \in placed', NEW u \in todo' PROVE p.id # u.id
    BY <1>2, <1>3 DEF Float, OneEach, Busy
  <2> QED BY <1>2, <2>1, <2>2, <2>3 DEF Float, OneEach, Busy
<1>6. Compacted'
  <2>1. ASSUME NEW p \in placed', NEW q \in placed' PROVE ~Collides(p, q)
    <3>1. CASE p \in placed /\ q \in placed
      BY <3>1 DEF Compacted
    <3>2. CASE p \in placed /\ q = put
      BY <3>2, <1>1
    <3>3. CASE p = put /\ q \in placed
      BY <3>3, <1>1, <1>2, CollidesBothWays
    <3>4. CASE p = put /\ q = put
      BY <3>4 DEF Collides
    <3> QED BY <1>2, <3>1, <3>2, <3>3, <3>4
  <2>2. ASSUME NEW p \in placed' PROVE Rests(p, placed')
    BY <1>1, <1>2 DEF Compacted, Rests
  <2> QED BY <2>1, <2>2 DEF Compacted
<1>7. Pushing' /\ Floating' /\ FirstSweep'
  BY <1>2 DEF Float, Pushing, Floating, FirstSweep, Busy
<1>8. SecondSweep'
  <2> SUFFICES ASSUME sweep = 2 PROVE SecondSweep'
    BY DEF Float, SecondSweep
  <2>1. put = cur
    BY SecondFloat DEF put
  <2>2. (placed \cup todo \cup Current)' = placed \cup todo \cup Current
    BY <1>2, <2>1 DEF Float, Current, Busy
  <2>3. Apart(placed \cup todo \cup Current)' /\ Resting(placed \cup todo \cup Current)'
    BY <2>2 DEF SecondSweep, Apart, Resting, Rests
  <2> QED BY <1>2, <2>3 DEF Float, SecondSweep, Busy
<1> QED BY <1>4, <1>5, <1>6, <1>7, <1>8

LEMMA SweepAgainIInv ==
  ASSUME IInv, SweepAgain
  PROVE  IInv'
<1> USE DEF IInv
<1>1. TypeOK'
  <2>1. scan = {} /\ pc = "next"
    BY DEF SweepAgain, TypeOK, Busy
  <2> QED BY <2>1 DEF SweepAgain, TypeOK, Busy
<1>2. OneEach'
  BY FS_EmptySet DEF SweepAgain, OneEach, Named, Busy
<1>3. Compacted' /\ Pushing' /\ Floating' /\ FirstSweep'
  BY DEF SweepAgain, Compacted, Pushing, Floating, FirstSweep, Busy
<1>4. SecondSweep'
  <2>1. (placed \cup todo \cup Current)' = placed
    BY DEF SweepAgain, Current, Busy
  <2>2. Apart(placed \cup todo \cup Current)' /\ Resting(placed \cup todo \cup Current)'
    BY <2>1 DEF Compacted, Apart, Resting, Rests
  <2> QED BY <2>2 DEF SweepAgain, SecondSweep, Busy
<1> QED BY <1>1, <1>2, <1>3, <1>4

LEMMA ReturnIInv ==
  ASSUME IInv, Return
  PROVE  IInv'
<1> USE DEF IInv
<1>1. TypeOK' /\ OneEach' /\ Compacted'
  BY DEF Return, TypeOK, OneEach, Compacted, Busy, Named, Rests
<1>2. Pushing' /\ Floating' /\ FirstSweep'
  BY DEF Return, Pushing, Floating, FirstSweep
<1>3. SecondSweep'
  BY DEF Return, SecondSweep, Apart, Resting, Rests, Current, Busy
<1> QED BY <1>1, <1>2, <1>3

LEMMA NextIInv == IInv /\ [Next]_vars => IInv'
<1> SUFFICES ASSUME IInv, [Next]_vars PROVE IInv'
  OBVIOUS
<1>1. ASSUME NEW t \in todo, Take(t) PROVE IInv'
  BY <1>1, TakeIInv
<1>2. ASSUME NEW p \in scan, LookForCollider(p) PROVE IInv'
  BY <1>2, LookForColliderIInv
<1>3. ASSUME NEW p \in scan, LookForFloor(p) PROVE IInv'
  BY <1>3, LookForFloorIInv
<1>4. CASE Jump
  BY <1>4, JumpIInv
<1>5. CASE NoCollider
  BY <1>5, NoColliderIInv
<1>6. CASE Float
  BY <1>6, FloatIInv
<1>7. CASE SweepAgain
  BY <1>7, SweepAgainIInv
<1>8. CASE Return
  BY <1>8, ReturnIInv
<1>9. CASE UNCHANGED vars
  <2>1. TypeOK' /\ OneEach' /\ Compacted'
    BY <1>9 DEF IInv, vars, TypeOK, OneEach, Compacted, Busy, Named, Rests
  <2>2. Pushing' /\ Floating' /\ FirstSweep'
    BY <1>9 DEF IInv, vars, Pushing, Floating, FirstSweep, Busy
  <2>3. SecondSweep'
    BY <1>9 DEF IInv, vars, SecondSweep, Apart, Resting, Rests, Current, Busy
  <2> QED BY <2>1, <2>2, <2>3 DEF IInv
<1> QED BY <1>1, <1>2, <1>3, <1>4, <1>5, <1>6, <1>7, <1>8, <1>9 DEF Next

\* The invariant of the two sweeps, for every layout.
THEOREM Invariance == Spec => []IInv
<1>1. Init => IInv
  BY InitIInv
<1>2. IInv /\ [Next]_vars => IInv'
  BY NextIInv
<1> QED BY <1>1, <1>2, PTL DEF Spec

\* Types (settle and compact, dashboardGrid.ts:147-178).
THEOREM TypeCorrect == Spec => []TypeOK
BY Invariance, PTL DEF IInv

\* Whatever layout it is given, compaction has nothing overlapping and
\* nothing that could float up, after every tile it settles.
THEOREM CompactionIsCompact == Spec => []Compacted
BY Invariance, PTL DEF IInv

\* |placed| + 2 tries always suffice to push a tile free of its colliders.
THEOREM GuardIsEnough == Spec => []GuardNeverBinds
<1>1. IInv => GuardNeverBinds
  BY DEF IInv, Floating, GuardNeverBinds
<1> QED BY <1>1, Invariance, PTL

---------------------------------------------------------------------------
(* Refinement *)

\* A settled tile of the first sweep is put as TilePacking promises.
LEMMA FloatPuts ==
  ASSUME IInv, Float, sweep = 1
  PROVE  Promise!Next
<1> DEFINE put == At(cur, edge)
<1>1. /\ cur \in Tile /\ edge \in Nat /\ put \in Tile
      /\ \A p \in placed : ~Collides(p, put)
      /\ Rests(put, placed)
  BY FloatFacts
<1>2. cur \in layout /\ \A p \in placed : p.id # cur.id
  BY DEF IInv, FirstSweep, OneEach, Busy, Float
<1>3. board = placed /\ board' = board \cup {put} /\ layout' = layout
  BY DEF board, Float
<1>4. edge \in Promise!Ledges
  BY <1>3 DEF IInv, Float, Floating, Promise!Ledges
<1>5. put.y = edge
  BY <1>1, AtTile
<1>6. Promise!Put(cur, edge)
  <2>1. put = [cur EXCEPT !.y = edge]
    BY DEF At
  <2>2. Promise!Rests(put, board)
    BY <1>1, <1>3 DEF Rests, Promise!Rests, SharesColumns, Promise!SharesColumns
  <2>3. \A p \in board : p.id # cur.id /\ ~Promise!Collides(p, put)
    BY <1>1, <1>2, <1>3 DEF Collides, Promise!Collides, SharesColumns, Promise!SharesColumns
  <2> QED BY <1>3, <2>1, <2>2, <2>3 DEF Promise!Put
<1> QED BY <1>2, <1>4, <1>6 DEF Promise!Next

\* Every other step leaves the board as it is; so does all of the second
\* sweep.
LEMMA StepRefines ==
  ASSUME IInv, [Next]_vars
  PROVE  [Promise!Next]_<< layout, board >>
<1>1. ASSUME NEW t \in todo, Take(t) PROVE UNCHANGED << layout, board >>
  BY <1>1 DEF Take, board, Busy
<1>2. ASSUME NEW p \in scan, LookForCollider(p) PROVE UNCHANGED << layout, board >>
  BY <1>2 DEF LookForCollider, board, Busy
<1>3. ASSUME NEW p \in scan, LookForFloor(p) PROVE UNCHANGED << layout, board >>
  BY <1>3 DEF LookForFloor, board, Busy
<1>4. CASE Jump
  BY <1>4 DEF Jump, board, Busy
<1>5. CASE NoCollider
  BY <1>5 DEF NoCollider, board, Busy
<1>6. CASE Float /\ sweep = 1
  BY <1>6, FloatPuts
<1>7. CASE Float /\ sweep # 1
  <2>1. At(cur, edge) = cur
    BY <1>7, SecondFloat DEF IInv, TypeOK
  <2> QED BY <1>7, <2>1 DEF Float, board, Busy
<1>8. CASE SweepAgain
  BY <1>8 DEF SweepAgain, board, Busy
<1>9. CASE Return
  BY <1>9 DEF Return, board, Busy
<1>10. CASE UNCHANGED vars
  BY <1>10 DEF vars, board, Busy
<1> QED BY <1>1, <1>2, <1>3, <1>4, <1>5, <1>6, <1>7, <1>8, <1>9, <1>10 DEF Next

\* The loops of compact and settle implement TilePacking, for every layout:
\* each tile is put once, in a free place where it rests, and stays there;
\* in particular the second sweep is idempotence, not insurance.
THEOREM PackingRefines == Spec => RefinesPacking
<1>1. Init => Promise!Init
  BY DEF Init, Promise!Init, board
<1>2. IInv /\ [Next]_vars => [Promise!Next]_<< layout, board >>
  BY StepRefines
<1> QED BY <1>1, <1>2, Invariance, PTL DEF Spec, RefinesPacking, Promise!Spec

---------------------------------------------------------------------------
(* Nothing is lost *)

Hand == placed \cup todo \cup Current

\* Whatever rows they have by now, the tiles in hand are those of the layout.
Matched ==
  /\ \A t \in layout : \E p \in Hand : At(p, t.y) = t
  /\ \A p \in Hand : \E t \in layout : At(p, t.y) = t
  /\ pc = "done" => todo = {}

LEMMA AtAgain == ASSUME NEW t \in Tile, NEW r, NEW q PROVE At(At(t, r), q) = At(t, q)
BY DEF At, Tile

\* A tile in hand that gets another row is still the same tile.
LEMMA MovedMatched ==
  ASSUME Matched, NEW c \in Hand, c \in Tile, NEW r, layout' = layout, pc' # "done",
         Hand' = (Hand \ {c}) \cup {At(c, r)}
  PROVE  Matched'
<1>1. ASSUME NEW t \in layout PROVE \E p \in Hand' : At(p, t.y) = t
  <2>1. PICK p \in Hand : At(p, t.y) = t
    BY DEF Matched
  <2>2. CASE p = c
    BY <2>1, <2>2, AtAgain
  <2> QED BY <2>1, <2>2
<1>2. ASSUME NEW p \in Hand' PROVE \E t \in layout : At(p, t.y) = t
  <2>1. CASE p = At(c, r)
    BY <2>1, AtAgain DEF Matched
  <2> QED BY <2>1 DEF Matched
<1> QED BY <1>1, <1>2 DEF Matched

LEMMA NextMatched == IInv /\ Matched /\ [Next]_vars => Matched'
<1> SUFFICES ASSUME IInv, Matched, [Next]_vars PROVE Matched'
  OBVIOUS
<1>1. ASSUME layout' = layout, Hand' = Hand, pc' # "done" PROVE Matched'
  BY <1>1 DEF Matched
<1>2. ASSUME NEW t \in todo, Take(t) PROVE Matched'
  BY <1>1, <1>2 DEF Take, Hand, Current, Busy
<1>3. ASSUME NEW p \in scan, LookForCollider(p) \/ LookForFloor(p) PROVE Matched'
  BY <1>1, <1>3 DEF LookForCollider, LookForFloor, Hand, Current, Busy
<1>4. CASE Jump \/ NoCollider
  BY <1>1, <1>4 DEF Jump, NoCollider, Hand, Current, Busy
<1>5. CASE Float
  <2>1. cur \in Tile /\ cur \in Hand /\ pc' # "done" /\ layout' = layout
    BY <1>5 DEF IInv, TypeOK, Float, Hand, Current, Busy
  <2>2. cur \notin placed /\ cur \notin todo
    BY <1>5 DEF IInv, OneEach, Float, Busy
  <2>3. Hand' = (Hand \ {cur}) \cup {At(cur, edge)}
    BY <1>5, <2>2 DEF Float, Hand, Current, Busy
  <2> QED BY <2>1, <2>3, MovedMatched
<1>6. CASE SweepAgain
  BY <1>1, <1>6 DEF SweepAgain, Hand, Current, Busy
<1>7. CASE Return
  <2>1. layout' = layout /\ Hand' = Hand /\ todo' = {}
    BY <1>7 DEF Return, Hand, Current, Busy
  <2> QED BY <2>1 DEF Matched
<1>8. CASE UNCHANGED vars
  <2>1. layout' = layout /\ Hand' = Hand /\ todo' = todo /\ pc' = pc
    BY <1>8 DEF vars, Hand, Current, Busy
  <2> QED BY <2>1 DEF Matched
<1> QED BY <1>2, <1>3, <1>4, <1>5, <1>6, <1>7, <1>8 DEF Next

\* Every tile given to `compact` comes back once, with its column and size,
\* and no other does.
THEOREM TilesReturn == Spec => []NothingLost
<1>1. Init => Matched
  <2> SUFFICES ASSUME Init PROVE Matched
    OBVIOUS
  <2>1. layout \subseteq Tile /\ Hand = layout /\ pc # "done"
    BY LayoutsAssumption DEF Init, IsLayout, Hand, Current, Busy
  <2>2. \A t \in layout : At(t, t.y) = t
    BY <2>1, AtOwnRow
  <2> QED BY <2>1, <2>2 DEF Matched
<1>2. Matched => NothingLost
  BY DEF Matched, NothingLost, Hand, Current, Busy
<1> QED BY <1>1, <1>2, NextMatched, Invariance, PTL DEF Spec

=============================================================================

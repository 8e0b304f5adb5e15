------------------------ MODULE GridBoard_proofs ------------------------
(***************************************************************************)
(* The board and its layout engine, for every board, every set of tiles    *)
(* with any limits, and any number of columns: what is drawn is always a   *)
(* layout (BoardAlwaysValid), the smaller boards read in the order of the  *)
(* desktop board (OrderAlwaysKept), a dragged tile ends where it was aimed *)
(* (MovedWhereAskedAbove) and the write-back settles (ShallowSettles).     *)
(*                                                                         *)
(* The engine is a chain of folds over lists of tiles.  FoldExists gives   *)
(* the intermediate results of a fold as a function on 0 .. Len, the       *)
(* ...Fold lemmas do so for each fold of the engine, and every operation   *)
(* is then followed step by step along that function (InductionUpTo).      *)
(***************************************************************************)
EXTENDS GridBoard, FiniteSetTheorems, NaturalsInduction, WellFoundedInduction, TLAPS

LEMMA Induction ==
  ASSUME NEW S, 0 \in S, \A n \in Nat : n \in S => n + 1 \in S
  PROVE  Nat \subseteq S
<1> DEFINE R == OpToRel(<, Nat)
           T == Nat \ S
<1>1. IsWellFoundedOn(R, Nat)
  BY NatLessThanWellFounded
<1>2. SUFFICES ASSUME T # {} PROVE FALSE
  OBVIOUS
<1>3. PICK x \in T : \A y \in T : ~(<<y, x>> \in R)
  BY <1>1, <1>2, WFMin
<1>4. x \in Nat /\ x # 0 /\ x \notin S
  OBVIOUS
<1>5. x - 1 \in Nat /\ (x - 1) + 1 = x
  BY <1>4
<1>6. x - 1 \in S => x \in S
  BY <1>5
<1>7. <<x - 1, x>> \in R
  BY <1>4, <1>5 DEF OpToRel
<1> QED
  BY <1>3, <1>4, <1>5, <1>6, <1>7

LEMMA InductionUpTo ==
  ASSUME NEW n \in Nat, NEW S, 0 \in S, \A k \in 0 .. n - 1 : k \in S => k + 1 \in S
  PROVE  0 .. n \subseteq S
<1> DEFINE U == {k \in Nat : k <= n => k \in S}
<1>1. 0 \in U
  OBVIOUS
<1>2. ASSUME NEW k \in Nat, k \in U PROVE k + 1 \in U
  BY <1>2
<1>3. Nat \subseteq U
  <2> HIDE DEF U
  <2> QED BY <1>1, <1>2, Induction
<1> QED
  BY <1>3

\* A finite, nonempty set of numbers has a greatest.
LEMMA Greatest ==
  ASSUME NEW n \in Nat \ {0}, NEW f, \A k \in 1 .. n : f[k] \in Int
  PROVE  \E i \in 1 .. n : \A j \in 1 .. n : f[j] <= f[i]
<1> DEFINE S == {k \in Nat : k = 0 \/ \E i \in 1 .. k : \A j \in 1 .. k : f[j] <= f[i]}
<1>1. 0 \in S
  OBVIOUS
<1>2. ASSUME NEW k \in 0 .. n - 1, k \in S PROVE k + 1 \in S
  <2>0. k + 1 \in 1 .. n /\ f[k + 1] \in Int
    OBVIOUS
  <2>1. CASE k = 0
    <3>1. \A j \in 1 .. k + 1 : f[j] <= f[k + 1]
      BY <2>1, <2>0
    <3> QED BY <3>1, <2>0
  <2>2. CASE k # 0
    <3>1. PICK i \in 1 .. k : \A j \in 1 .. k : f[j] <= f[i]
      BY <1>2, <2>2
    <3>2. f[i] \in Int /\ i \in 1 .. k + 1
      OBVIOUS
    <3>3. CASE f[k + 1] <= f[i]
      <4>1. \A j \in 1 .. k + 1 : f[j] <= f[i]
        BY <3>1, <3>2, <3>3
      <4> QED BY <4>1, <3>2
    <3>4. CASE f[i] <= f[k + 1]
      <4>1. \A j \in 1 .. k + 1 : f[j] <= f[k + 1]
        <5> SUFFICES ASSUME NEW j \in 1 .. k + 1 PROVE f[j] <= f[k + 1]
          OBVIOUS
        <5>1. f[j] \in Int /\ (j \in 1 .. k \/ j = k + 1)
          OBVIOUS
        <5> QED BY <3>1, <3>2, <3>4, <2>0, <5>1
      <4> QED BY <4>1
    <3> QED BY <3>2, <2>0, <3>3, <3>4
  <2> QED BY <2>1, <2>2
<1>3. 0 .. n \subseteq S
  <2> HIDE DEF S
  <2> QED BY <1>1, <1>2, InductionUpTo
<1> QED
  BY <1>3

LEMMA MaxIsGreatest ==
  ASSUME NEW n \in Nat, NEW t \in SUBSET (1 .. n), t # {}
  PROVE  Max(t) \in t /\ \A y \in t : y <= Max(t)
<1>0. PICK z \in t : TRUE
  OBVIOUS
<1> DEFINE f == [k \in 1 .. n |-> IF k \in t THEN k ELSE 0]
<1>1. n # 0 /\ \A k \in 1 .. n : f[k] \in Int
  BY <1>0
<1>2. PICK i \in 1 .. n : \A j \in 1 .. n : f[j] <= f[i]
  BY <1>1, Greatest
<1>3. f[z] = z /\ z >= 1 /\ z \in 1 .. n
  BY <1>0
<1>4. i \in t
  BY <1>2, <1>3
<1>5. \A y \in t : y <= i
  BY <1>2, <1>4
<1> QED
  BY <1>4, <1>5 DEF Max

LEMMA SubsetsAreFinite ==
  ASSUME NEW n \in Nat, NEW t \in SUBSET (1 .. n)
  PROVE  IsFiniteSet(t) /\ Cardinality(t) \in Nat /\ Cardinality(t) <= n
<1>1. IsFiniteSet(1 .. n) /\ Cardinality(1 .. n) = n
  BY FS_Interval
<1>2. IsFiniteSet(t) /\ Cardinality(t) <= Cardinality(1 .. n)
  BY <1>1, FS_Subset
<1> QED
  BY <1>1, <1>2, FS_CardinalityType

\* What g the recursion behind FoldLeft (module Folds) finds, for a step that stays in T.
Iterates(g, n, T, base, step) ==
  /\ g \in [SUBSET (1 .. n) -> T]
  /\ \A t \in SUBSET (1 .. n) :
       g[t] = IF t = {} THEN base ELSE step[<< g[t \ {Max(t)}], Max(t) >>]

\* The recursion behind FoldLeft (module Folds), for a step that stays in T.
LEMMA FoldExists ==
  ASSUME NEW T, NEW base \in T, NEW n \in Nat, NEW step \in [T \X (1 .. n) -> T]
  PROVE  \E g : Iterates(g, n, T, base, step)
<1> DEFINE X(k) == {t \in SUBSET (1 .. n) : Cardinality(t) <= k}
           Body(g, t) == IF t = {} THEN base ELSE step[<< g[t \ {Max(t)}], Max(t) >>]
           P(k) == \E g \in [X(k) -> T] : g = [t \in X(k) |-> Body(g, t)]
           S == {k \in Nat : P(k)}
<1>1. ASSUME NEW t \in SUBSET (1 .. n)
      PROVE  IsFiniteSet(t) /\ Cardinality(t) \in Nat /\ Cardinality(t) <= n
  BY SubsetsAreFinite
<1>2. 0 \in S
  <2>1. \A t \in X(0) : t = {}
    BY <1>1, FS_EmptySet
  <2> DEFINE g == [t \in X(0) |-> base]
  <2>2. g \in [X(0) -> T] /\ g = [t \in X(0) |-> Body(g, t)]
    BY <2>1
  <2>3. P(0)
    <3> HIDE DEF g
    <3> QED BY <2>2
  <2> QED BY <2>3
<1>3. ASSUME NEW k \in Nat, k \in S PROVE k + 1 \in S
  <2>1. PICK g \in [X(k) -> T] : g = [t \in X(k) |-> Body(g, t)]
    BY <1>3
  <2> DEFINE h == [t \in X(k + 1) |-> Body(g, t)]
  <2>2. ASSUME NEW t \in X(k + 1), t # {}
        PROVE  t \ {Max(t)} \in X(k) /\ Max(t) \in 1 .. n
    <3>1. t \in SUBSET (1 .. n) /\ IsFiniteSet(t) /\ Cardinality(t) <= k + 1 /\ Cardinality(t) \in Nat
      BY <1>1
    <3>2. Max(t) \in t
      BY <2>2, <3>1, MaxIsGreatest
    <3>3. Cardinality(t \ {Max(t)}) = Cardinality(t) - 1
      BY <3>1, <3>2, FS_RemoveElement
    <3>4. t \ {Max(t)} \in SUBSET (1 .. n) /\ Max(t) \in 1 .. n
      BY <3>1, <3>2
    <3>5. Cardinality(t \ {Max(t)}) <= k
      BY <3>1, <3>3
    <3> QED
      BY <3>4, <3>5
  <2>3. ASSUME NEW t \in X(k) PROVE h[t] = g[t] /\ t \in X(k + 1)
    <3>1. t \in X(k + 1)
      BY <1>1
    <3>2. h[t] = Body(g, t)
      BY <3>1
    <3>3. g[t] = Body(g, t)
      BY <2>1
    <3> QED BY <3>1, <3>2, <3>3
  <2>4. ASSUME NEW t \in X(k + 1) PROVE Body(h, t) = Body(g, t) /\ Body(g, t) \in T
    <3>1. CASE t = {}
      BY <3>1
    <3>2. CASE t # {}
      <4>1. t \ {Max(t)} \in X(k) /\ Max(t) \in 1 .. n
        BY <2>2, <3>2
      <4>2. h[t \ {Max(t)}] = g[t \ {Max(t)}] /\ g[t \ {Max(t)}] \in T
        <5> HIDE DEF h
        <5> QED BY <4>1, <2>3
      <4> HIDE DEF h, X
      <4> QED BY <3>2, <4>1, <4>2
    <3> QED BY <3>1, <3>2
  <2>5. h \in [X(k + 1) -> T] /\ h = [t \in X(k + 1) |-> Body(h, t)]
    <3>1. h \in [X(k + 1) -> T]
      <4> HIDE DEF X, Body
      <4> QED BY <2>4
    <3>2. h = [t \in X(k + 1) |-> Body(h, t)]
      <4>1. \A t \in X(k + 1) : h[t] = Body(h, t)
        <5> HIDE DEF X, Body
        <5> QED BY <2>4
      <4> HIDE DEF X, Body, h
      <4> QED BY <3>1, <4>1
    <3> QED BY <3>1, <3>2
  <2>6. P(k + 1)
    <3> HIDE DEF h
    <3> QED BY <2>5
  <2> HIDE DEF P
  <2> QED BY <2>6
<1>4. n \in S
  <2> HIDE DEF S
  <2> QED BY <1>2, <1>3, Induction
<1>5. X(n) = SUBSET (1 .. n)
  BY <1>1
<1>6. PICK g \in [SUBSET (1 .. n) -> T] : g = [t \in SUBSET (1 .. n) |-> Body(g, t)]
  BY <1>4, <1>5
<1>7. Iterates(g, n, T, base, step)
  BY <1>6 DEF Iterates
<1> QED
  BY <1>7

LEMMA PrefixOfRange ==
  ASSUME NEW n \in Nat, NEW k \in 1 .. n
  PROVE  /\ 1 .. k \subseteq 1 .. n
         /\ 1 .. k # {}
         /\ Max(1 .. k) = k
         /\ (1 .. k) \ {k} = 1 .. (k - 1)
<1>1. /\ 1 .. k \subseteq 1 .. n
      /\ 1 .. k # {}
      /\ k \in 1 .. k
      /\ (1 .. k) \ {k} = 1 .. (k - 1)
  OBVIOUS
<1>2. Max(1 .. k) \in 1 .. k /\ \A y \in 1 .. k : y <= Max(1 .. k)
  BY <1>1, MaxIsGreatest
<1>3. Max(1 .. k) = k
  BY <1>1, <1>2
<1> QED
  BY <1>1, <1>3

TileIds == DOMAIN Limits
Tile == [id : TileIds, x : Int, y : Int, w : Int, h : Int]

Distinct(s) == \A i, j \in DOMAIN s : s[i].id = s[j].id => i = j
Layouts == {s \in Seq(Tile) : Distinct(s)}

\* A piece of a shelf; the states of the loops of `reflow`.
Range4 == [minW : Int, minH : Int, maxW : Int, maxH : Int]
Piece == [id : TileIds, w : Int, h : Int, k : Range4]
Growing == [left : Int, row : Seq(Piece)]
Writing == [x : Int, out : Seq(Tile)]
Shelving == [out : Seq(Tile), y : Int, shelf : Seq(Piece), used : Int]


\* The values I of that recursion on the prefixes of 1 .. n, and the same as
\* a function f of their length.
Unrolls(I, n, T, base, step) ==
  /\ I[{}] = base
  /\ \A k \in 1 .. n : I[1 .. (k - 1)] \in T => I[1 .. k] = step[<< I[1 .. (k - 1)], k >>]

Runs(f, I, n, T, base, step) ==
  /\ f \in [0 .. n -> T] /\ f[n] = I[1 .. n] /\ f[0] = base
  /\ \A k \in 1 .. n : f[k] = step[<< f[k - 1], k >>]

LEMMA FoldSteps ==
  ASSUME NEW T, NEW base \in T, NEW n \in Nat, NEW step \in [T \X (1 .. n) -> T], NEW I,
         Unrolls(I, n, T, base, step)
  PROVE  \E f : Runs(f, I, n, T, base, step)
<1> USE DEF Unrolls
<1> DEFINE S == {k \in 0 .. n : I[1 .. k] \in T}
           f == [k \in 0 .. n |-> I[1 .. k]]
<1>1. 0 \in S /\ 1 .. 0 = {}
  OBVIOUS
<1>2. ASSUME NEW k \in 0 .. n - 1, k \in S PROVE k + 1 \in S
  <2>1. k + 1 \in 1 .. n /\ (k + 1) - 1 = k
    OBVIOUS
  <2>2. I[1 .. ((k + 1) - 1)] \in T => I[1 .. (k + 1)] = step[<< I[1 .. ((k + 1) - 1)], k + 1 >>]
    BY <2>1
  <2>3. I[1 .. k] \in T
    BY <1>2
  <2>4. step[<< I[1 .. k], k + 1 >>] \in T
    BY <2>1, <2>3
  <2>5. I[1 .. (k + 1)] \in T
    BY <2>1, <2>2, <2>3, <2>4
  <2> QED BY <2>1, <2>5
<1>3. 0 .. n \subseteq S
  <2> HIDE DEF S
  <2> QED BY <1>1, <1>2, InductionUpTo
<1>4. f \in [0 .. n -> T] /\ f[n] = I[1 .. n] /\ f[0] = base
  BY <1>1, <1>3
<1>5. \A k \in 1 .. n : f[k] = I[1 .. k] /\ f[k - 1] = I[1 .. (k - 1)] /\ I[1 .. (k - 1)] \in T
  BY <1>3
<1>6. \A k \in 1 .. n : f[k] = step[<< f[k - 1], k >>]
  BY <1>5
<1> QED
  BY <1>4, <1>6 DEF Runs

LEMMA SettleFold ==
  ASSUME NEW s \in Seq(Tile), \A p \in Seq(Tile), k \in 1 .. Len(s) : Settle(p, s[k]) \in Tile
  PROVE  \E f \in [0 .. Len(s) -> Seq(Tile)] :
           /\ SettleAll(s) = f[Len(s)]
           /\ f[0] = <<>>
           /\ \A k \in 1 .. Len(s) : f[k] = Append(f[k - 1], Settle(f[k - 1], s[k]))
<1> DEFINE n == Len(s)
           T == Seq(Tile)
           Op(a, k) == Append(a, Settle(a, s[k]))
           step == [b \in T \X (1 .. n) |-> Op(b[1], b[2])]
           I == CHOOSE iter : iter = [t \in SUBSET (DOMAIN s) |->
                  IF t = {} THEN <<>> ELSE Op(iter[t \ {Max(t)}], Max(t))]
<1>1. SettleAll(s) = I[DOMAIN s]
  BY DEF SettleAll, FoldLeft, MapThenFoldSet
<1>2. DOMAIN s = 1 .. n /\ n \in Nat /\ <<>> \in T
  OBVIOUS
<1>3. \A a \in T, k \in 1 .. n : Op(a, k) \in T
  OBVIOUS
<1> HIDE DEF T, Op, n
<1>4. step \in [T \X (1 .. n) -> T]
  BY <1>3
<1>5. PICK g : Iterates(g, n, T, <<>>, step)
  <2> HIDE DEF step
  <2> QED BY <1>2, <1>4, FoldExists
<1>6. g = [t \in SUBSET (1 .. n) |-> IF t = {} THEN <<>> ELSE Op(g[t \ {Max(t)}], Max(t))]
  BY <1>2, <1>5, MaxIsGreatest DEF Iterates
<1>7. I = [t \in SUBSET (1 .. n) |-> IF t = {} THEN <<>> ELSE Op(I[t \ {Max(t)}], Max(t))]
  BY <1>2, <1>6
<1>8. Unrolls(I, n, T, <<>>, step)
  <2>1. I[{}] = <<>>
    <3> HIDE DEF I
    <3> QED BY <1>2, <1>7
  <2>2. ASSUME NEW k \in 1 .. n, I[1 .. (k - 1)] \in T
        PROVE  I[1 .. k] = step[<< I[1 .. (k - 1)], k >>]
    <3>1. /\ 1 .. k \in SUBSET (1 .. n) /\ 1 .. k # {}
          /\ Max(1 .. k) = k /\ (1 .. k) \ {k} = 1 .. (k - 1)
      BY <1>2, PrefixOfRange
    <3>2. I[1 .. k] = Op(I[1 .. (k - 1)], k)
      <4> HIDE DEF I, step
      <4> QED BY <1>7, <3>1
    <3> HIDE DEF I
    <3> QED BY <2>2, <3>2
  <2> HIDE DEF I, step
  <2> QED BY <2>1, <2>2 DEF Unrolls
<1>9. PICK f : Runs(f, I, n, T, <<>>, step)
  <2> HIDE DEF I, step
  <2> QED BY <1>2, <1>4, <1>8, FoldSteps
<1>10. f \in [0 .. n -> T] /\ f[n] = I[1 .. n] /\ f[0] = <<>>
  <2> HIDE DEF I, step
  <2> QED BY <1>9 DEF Runs
<1>11. ASSUME NEW k \in 1 .. n PROVE f[k] = Op(f[k - 1], k)
  <2>1. f[k] = step[<< f[k - 1], k >>] /\ f[k - 1] \in T
    <3> HIDE DEF I, step
    <3> QED BY <1>2, <1>9, <1>10 DEF Runs
  <2> QED BY <2>1
<1>12. SettleAll(s) = f[n]
  BY <1>1, <1>2, <1>10
<1> QED
  BY <1>10, <1>11, <1>12 DEF n, T, Op

LEMMA PickedFold ==
  ASSUME NEW E, NEW s \in Seq(E), NEW S
  PROVE  \E f \in [0 .. Len(s) -> Seq(E)] :
           /\ Picked(s, S) = f[Len(s)]
           /\ f[0] = <<>>
           /\ \A k \in 1 .. Len(s) : f[k] = IF s[k] \in S THEN Append(f[k - 1], s[k]) ELSE f[k - 1]
<1> DEFINE n == Len(s)
           T == Seq(E)
           Op(a, k) == IF s[k] \in S THEN Append(a, s[k]) ELSE a
           step == [b \in T \X (1 .. n) |-> Op(b[1], b[2])]
           I == CHOOSE iter : iter = [t \in SUBSET (DOMAIN s) |->
                  IF t = {} THEN <<>> ELSE Op(iter[t \ {Max(t)}], Max(t))]
<1>1. Picked(s, S) = I[DOMAIN s]
  BY DEF Picked, FoldLeft, MapThenFoldSet
<1>2. DOMAIN s = 1 .. n /\ n \in Nat /\ <<>> \in T
  OBVIOUS
<1>3. \A a \in T, k \in 1 .. n : Op(a, k) \in T
  OBVIOUS
<1> HIDE DEF T, Op, n
<1>4. step \in [T \X (1 .. n) -> T]
  BY <1>3
<1>5. PICK g : Iterates(g, n, T, <<>>, step)
  <2> HIDE DEF step
  <2> QED BY <1>2, <1>4, FoldExists
<1>6. g = [t \in SUBSET (1 .. n) |-> IF t = {} THEN <<>> ELSE Op(g[t \ {Max(t)}], Max(t))]
  BY <1>2, <1>5, MaxIsGreatest DEF Iterates
<1>7. I = [t \in SUBSET (1 .. n) |-> IF t = {} THEN <<>> ELSE Op(I[t \ {Max(t)}], Max(t))]
  BY <1>2, <1>6
<1>8. Unrolls(I, n, T, <<>>, step)
  <2>1. I[{}] = <<>>
    <3> HIDE DEF I
    <3> QED BY <1>2, <1>7
  <2>2. ASSUME NEW k \in 1 .. n, I[1 .. (k - 1)] \in T
        PROVE  I[1 .. k] = step[<< I[1 .. (k - 1)], k >>]
    <3>1. /\ 1 .. k \in SUBSET (1 .. n) /\ 1 .. k # {}
          /\ Max(1 .. k) = k /\ (1 .. k) \ {k} = 1 .. (k - 1)
      BY <1>2, PrefixOfRange
    <3>2. I[1 .. k] = Op(I[1 .. (k - 1)], k)
      <4> HIDE DEF I, step
      <4> QED BY <1>7, <3>1
    <3> HIDE DEF I
    <3> QED BY <2>2, <3>2
  <2> HIDE DEF I, step
  <2> QED BY <2>1, <2>2 DEF Unrolls
<1>9. PICK f : Runs(f, I, n, T, <<>>, step)
  <2> HIDE DEF I, step
  <2> QED BY <1>2, <1>4, <1>8, FoldSteps
<1>10. f \in [0 .. n -> T] /\ f[n] = I[1 .. n] /\ f[0] = <<>>
  <2> HIDE DEF I, step
  <2> QED BY <1>9 DEF Runs
<1>11. ASSUME NEW k \in 1 .. n PROVE f[k] = Op(f[k - 1], k)
  <2>1. f[k] = step[<< f[k - 1], k >>] /\ f[k - 1] \in T
    <3> HIDE DEF I, step
    <3> QED BY <1>2, <1>9, <1>10 DEF Runs
  <2> QED BY <2>1
<1>12. Picked(s, S) = f[n]
  BY <1>1, <1>2, <1>10
<1> QED
  BY <1>10, <1>11, <1>12 DEF n, T, Op

LEMMA PlacedFold ==
  ASSUME NEW s \in Seq(Tile), NEW moved \in Tile, NEW down,
         \A p \in Seq(Tile), k \in 1 .. Len(s) : Settle(p, Lifted(p, moved, s[k], down)) \in Tile
  PROVE  \E f \in [0 .. Len(s) -> Seq(Tile)] :
           /\ PlacedAround(moved, s, down) = f[Len(s)]
           /\ f[0] = << moved >>
           /\ \A k \in 1 .. Len(s) : f[k] = Append(f[k - 1], Settle(f[k - 1], Lifted(f[k - 1], moved, s[k], down)))
<1> DEFINE n == Len(s)
           T == Seq(Tile)
           Op(a, k) == Append(a, Settle(a, Lifted(a, moved, s[k], down)))
           step == [b \in T \X (1 .. n) |-> Op(b[1], b[2])]
           I == CHOOSE iter : iter = [t \in SUBSET (DOMAIN s) |->
                  IF t = {} THEN << moved >> ELSE Op(iter[t \ {Max(t)}], Max(t))]
<1>1. PlacedAround(moved, s, down) = I[DOMAIN s]
  BY DEF PlacedAround, FoldLeft, MapThenFoldSet
<1>2. DOMAIN s = 1 .. n /\ n \in Nat /\ << moved >> \in T
  OBVIOUS
<1>3. \A a \in T, k \in 1 .. n : Op(a, k) \in T
  OBVIOUS
<1> HIDE DEF T, Op, n
<1>4. step \in [T \X (1 .. n) -> T]
  BY <1>3
<1>5. PICK g : Iterates(g, n, T, << moved >>, step)
  <2> HIDE DEF step
  <2> QED BY <1>2, <1>4, FoldExists
<1>6. g = [t \in SUBSET (1 .. n) |-> IF t = {} THEN << moved >> ELSE Op(g[t \ {Max(t)}], Max(t))]
  BY <1>2, <1>5, MaxIsGreatest DEF Iterates
<1>7. I = [t \in SUBSET (1 .. n) |-> IF t = {} THEN << moved >> ELSE Op(I[t \ {Max(t)}], Max(t))]
  BY <1>2, <1>6
<1>8. Unrolls(I, n, T, << moved >>, step)
  <2>1. I[{}] = << moved >>
    <3> HIDE DEF I
    <3> QED BY <1>2, <1>7
  <2>2. ASSUME NEW k \in 1 .. n, I[1 .. (k - 1)] \in T
        PROVE  I[1 .. k] = step[<< I[1 .. (k - 1)], k >>]
    <3>1. /\ 1 .. k \in SUBSET (1 .. n) /\ 1 .. k # {}
          /\ Max(1 .. k) = k /\ (1 .. k) \ {k} = 1 .. (k - 1)
      BY <1>2, PrefixOfRange
    <3>2. I[1 .. k] = Op(I[1 .. (k - 1)], k)
      <4> HIDE DEF I, step
      <4> QED BY <1>7, <3>1
    <3> HIDE DEF I
    <3> QED BY <2>2, <3>2
  <2> HIDE DEF I, step
  <2> QED BY <2>1, <2>2 DEF Unrolls
<1>9. PICK f : Runs(f, I, n, T, << moved >>, step)
  <2> HIDE DEF I, step
  <2> QED BY <1>2, <1>4, <1>8, FoldSteps
<1>10. f \in [0 .. n -> T] /\ f[n] = I[1 .. n] /\ f[0] = << moved >>
  <2> HIDE DEF I, step
  <2> QED BY <1>9 DEF Runs
<1>11. ASSUME NEW k \in 1 .. n PROVE f[k] = Op(f[k - 1], k)
  <2>1. f[k] = step[<< f[k - 1], k >>] /\ f[k - 1] \in T
    <3> HIDE DEF I, step
    <3> QED BY <1>2, <1>9, <1>10 DEF Runs
  <2> QED BY <2>1
<1>12. PlacedAround(moved, s, down) = f[n]
  BY <1>1, <1>2, <1>10
<1> QED
  BY <1>10, <1>11, <1>12 DEF n, T, Op

Insertions(base, s, sizes, cols) ==
  \E f \in [0 .. Len(s) -> Seq(Tile)] :
    /\ AllInserted(base, s, sizes, cols) = f[Len(s)]
    /\ f[0] = base
    /\ \A k \in 1 .. Len(s) : f[k] = Inserted(f[k - 1], s[k], sizes, cols)

LEMMA InsertedFold ==
  ASSUME NEW base \in Seq(Tile), NEW s \in Seq(TileIds), NEW sizes, NEW cols,
         \A p \in Seq(Tile), k \in 1 .. Len(s) : Inserted(p, s[k], sizes, cols) \in Seq(Tile)
  PROVE  Insertions(base, s, sizes, cols)
<1> DEFINE n == Len(s)
           T == Seq(Tile)
           Op(a, k) == Inserted(a, s[k], sizes, cols)
           step == [b \in T \X (1 .. n) |-> Op(b[1], b[2])]
           I == CHOOSE iter : iter = [t \in SUBSET (DOMAIN s) |->
                  IF t = {} THEN base ELSE Op(iter[t \ {Max(t)}], Max(t))]
<1>1. AllInserted(base, s, sizes, cols) = I[DOMAIN s]
  BY DEF AllInserted, FoldLeft, MapThenFoldSet
<1>2. DOMAIN s = 1 .. n /\ n \in Nat /\ base \in T
  OBVIOUS
<1>3. \A a \in T, k \in 1 .. n : Op(a, k) \in T
  OBVIOUS
<1> HIDE DEF T, Op, n
<1>4. step \in [T \X (1 .. n) -> T]
  BY <1>3
<1>5. PICK g : Iterates(g, n, T, base, step)
  <2> HIDE DEF step
  <2> QED BY <1>2, <1>4, FoldExists
<1>6. g = [t \in SUBSET (1 .. n) |-> IF t = {} THEN base ELSE Op(g[t \ {Max(t)}], Max(t))]
  BY <1>2, <1>5, MaxIsGreatest DEF Iterates
<1>7. I = [t \in SUBSET (1 .. n) |-> IF t = {} THEN base ELSE Op(I[t \ {Max(t)}], Max(t))]
  BY <1>2, <1>6
<1>8. Unrolls(I, n, T, base, step)
  <2>1. I[{}] = base
    <3> HIDE DEF I
    <3> QED BY <1>2, <1>7
  <2>2. ASSUME NEW k \in 1 .. n, I[1 .. (k - 1)] \in T
        PROVE  I[1 .. k] = step[<< I[1 .. (k - 1)], k >>]
    <3>1. /\ 1 .. k \in SUBSET (1 .. n) /\ 1 .. k # {}
          /\ Max(1 .. k) = k /\ (1 .. k) \ {k} = 1 .. (k - 1)
      BY <1>2, PrefixOfRange
    <3>2. I[1 .. k] = Op(I[1 .. (k - 1)], k)
      <4> HIDE DEF I, step
      <4> QED BY <1>7, <3>1
    <3> HIDE DEF I
    <3> QED BY <2>2, <3>2
  <2> HIDE DEF I, step
  <2> QED BY <2>1, <2>2 DEF Unrolls
<1>9. PICK f : Runs(f, I, n, T, base, step)
  <2> HIDE DEF I, step
  <2> QED BY <1>2, <1>4, <1>8, FoldSteps
<1>10. f \in [0 .. n -> T] /\ f[n] = I[1 .. n] /\ f[0] = base
  <2> HIDE DEF I, step
  <2> QED BY <1>9 DEF Runs
<1>11. ASSUME NEW k \in 1 .. n PROVE f[k] = Op(f[k - 1], k)
  <2>1. f[k] = step[<< f[k - 1], k >>] /\ f[k - 1] \in T
    <3> HIDE DEF I, step
    <3> QED BY <1>2, <1>9, <1>10 DEF Runs
  <2> QED BY <2>1
<1>12. AllInserted(base, s, sizes, cols) = f[n]
  BY <1>1, <1>2, <1>10
<1> QED
  BY <1>10, <1>11, <1>12 DEF n, T, Op, Insertions

Packings(s, cols) ==
  \E f \in [0 .. Len(s) -> Seq(Tile)] :
    /\ Packed(s, cols) = f[Len(s)]
    /\ f[0] = <<>>
    /\ \A k \in 1 .. Len(s) : f[k] = InFirstFit(f[k - 1], s[k].id, s[k].w, s[k].h, cols)

LEMMA PackedFold ==
  ASSUME NEW s \in Seq(Tile), NEW cols,
         \A p \in Seq(Tile), k \in 1 .. Len(s) :
           InFirstFit(p, s[k].id, s[k].w, s[k].h, cols) \in Seq(Tile)
  PROVE  Packings(s, cols)
<1> DEFINE n == Len(s)
           T == Seq(Tile)
           Op(a, k) == InFirstFit(a, s[k].id, s[k].w, s[k].h, cols)
           step == [b \in T \X (1 .. n) |-> Op(b[1], b[2])]
           I == CHOOSE iter : iter = [t \in SUBSET (DOMAIN s) |->
                  IF t = {} THEN <<>> ELSE Op(iter[t \ {Max(t)}], Max(t))]
<1>1. Packed(s, cols) = I[DOMAIN s]
  BY DEF Packed, FoldLeft, MapThenFoldSet
<1>2. DOMAIN s = 1 .. n /\ n \in Nat /\ <<>> \in T
  OBVIOUS
<1>3. \A a \in T, k \in 1 .. n : Op(a, k) \in T
  OBVIOUS
<1> HIDE DEF T, Op, n
<1>4. step \in [T \X (1 .. n) -> T]
  BY <1>3
<1>5. PICK g : Iterates(g, n, T, <<>>, step)
  <2> HIDE DEF step
  <2> QED BY <1>2, <1>4, FoldExists
<1>6. g = [t \in SUBSET (1 .. n) |-> IF t = {} THEN <<>> ELSE Op(g[t \ {Max(t)}], Max(t))]
  BY <1>2, <1>5, MaxIsGreatest DEF Iterates
<1>7. I = [t \in SUBSET (1 .. n) |-> IF t = {} THEN <<>> ELSE Op(I[t \ {Max(t)}], Max(t))]
  BY <1>2, <1>6
<1>8. Unrolls(I, n, T, <<>>, step)
  <2>1. I[{}] = <<>>
    <3> HIDE DEF I
    <3> QED BY <1>2, <1>7
  <2>2. ASSUME NEW k \in 1 .. n, I[1 .. (k - 1)] \in T
        PROVE  I[1 .. k] = step[<< I[1 .. (k - 1)], k >>]
    <3>1. /\ 1 .. k \in SUBSET (1 .. n) /\ 1 .. k # {}
          /\ Max(1 .. k) = k /\ (1 .. k) \ {k} = 1 .. (k - 1)
      BY <1>2, PrefixOfRange
    <3>2. I[1 .. k] = Op(I[1 .. (k - 1)], k)
      <4> HIDE DEF I, step
      <4> QED BY <1>7, <3>1
    <3> HIDE DEF I
    <3> QED BY <2>2, <3>2
  <2> HIDE DEF I, step
  <2> QED BY <2>1, <2>2 DEF Unrolls
<1>9. PICK f : Runs(f, I, n, T, <<>>, step)
  <2> HIDE DEF I, step
  <2> QED BY <1>2, <1>4, <1>8, FoldSteps
<1>10. f \in [0 .. n -> T] /\ f[n] = I[1 .. n] /\ f[0] = <<>>
  <2> HIDE DEF I, step
  <2> QED BY <1>9 DEF Runs
<1>11. ASSUME NEW k \in 1 .. n PROVE f[k] = Op(f[k - 1], k)
  <2>1. f[k] = step[<< f[k - 1], k >>] /\ f[k - 1] \in T
    <3> HIDE DEF I, step
    <3> QED BY <1>2, <1>9, <1>10 DEF Runs
  <2> QED BY <2>1
<1>12. Packed(s, cols) = f[n]
  BY <1>1, <1>2, <1>10
<1> QED
  BY <1>10, <1>11, <1>12 DEF n, T, Op, Packings

Removals(items, s) ==
  \E f \in [0 .. Len(s) -> Layouts] :
    /\ AllRemoved(items, s) = f[Len(s)]
    /\ f[0] = items
    /\ \A k \in 1 .. Len(s) : f[k] = RemoveAndFill(f[k - 1], s[k].id, GRID_COLS)

LEMMA RemovedFold ==
  ASSUME NEW items \in Layouts, NEW s \in Seq(Tile),
         \A p \in Layouts, k \in 1 .. Len(s) : RemoveAndFill(p, s[k].id, GRID_COLS) \in Layouts
  PROVE  Removals(items, s)
<1> DEFINE n == Len(s)
           T == Layouts
           Op(a, k) == RemoveAndFill(a, s[k].id, GRID_COLS)
           step == [b \in T \X (1 .. n) |-> Op(b[1], b[2])]
           I == CHOOSE iter : iter = [t \in SUBSET (DOMAIN s) |->
                  IF t = {} THEN items ELSE Op(iter[t \ {Max(t)}], Max(t))]
<1>1. AllRemoved(items, s) = I[DOMAIN s]
  BY DEF AllRemoved, FoldLeft, MapThenFoldSet
<1>2. DOMAIN s = 1 .. n /\ n \in Nat /\ items \in T
  OBVIOUS
<1>3. \A a \in T, k \in 1 .. n : Op(a, k) \in T
  OBVIOUS
<1> HIDE DEF T, Op, n
<1>4. step \in [T \X (1 .. n) -> T]
  BY <1>3
<1>5. PICK g : Iterates(g, n, T, items, step)
  <2> HIDE DEF step
  <2> QED BY <1>2, <1>4, FoldExists
<1>6. g = [t \in SUBSET (1 .. n) |-> IF t = {} THEN items ELSE Op(g[t \ {Max(t)}], Max(t))]
  BY <1>2, <1>5, MaxIsGreatest DEF Iterates
<1>7. I = [t \in SUBSET (1 .. n) |-> IF t = {} THEN items ELSE Op(I[t \ {Max(t)}], Max(t))]
  BY <1>2, <1>6
<1>8. Unrolls(I, n, T, items, step)
  <2>1. I[{}] = items
    <3> HIDE DEF I
    <3> QED BY <1>2, <1>7
  <2>2. ASSUME NEW k \in 1 .. n, I[1 .. (k - 1)] \in T
        PROVE  I[1 .. k] = step[<< I[1 .. (k - 1)], k >>]
    <3>1. /\ 1 .. k \in SUBSET (1 .. n) /\ 1 .. k # {}
          /\ Max(1 .. k) = k /\ (1 .. k) \ {k} = 1 .. (k - 1)
      BY <1>2, PrefixOfRange
    <3>2. I[1 .. k] = Op(I[1 .. (k - 1)], k)
      <4> HIDE DEF I, step
      <4> QED BY <1>7, <3>1
    <3> HIDE DEF I
    <3> QED BY <2>2, <3>2
  <2> HIDE DEF I, step
  <2> QED BY <2>1, <2>2 DEF Unrolls
<1>9. PICK f : Runs(f, I, n, T, items, step)
  <2> HIDE DEF I, step
  <2> QED BY <1>2, <1>4, <1>8, FoldSteps
<1>10. f \in [0 .. n -> T] /\ f[n] = I[1 .. n] /\ f[0] = items
  <2> HIDE DEF I, step
  <2> QED BY <1>9 DEF Runs
<1>11. ASSUME NEW k \in 1 .. n PROVE f[k] = Op(f[k - 1], k)
  <2>1. f[k] = step[<< f[k - 1], k >>] /\ f[k - 1] \in T
    <3> HIDE DEF I, step
    <3> QED BY <1>2, <1>9, <1>10 DEF Runs
  <2> QED BY <2>1
<1>12. AllRemoved(items, s) = f[n]
  BY <1>1, <1>2, <1>10
<1> QED
  BY <1>10, <1>11, <1>12 DEF n, T, Op, Removals

FillPasses(items, m, cols) ==
  \E f \in [0 .. m -> Seq(Tile)] :
    /\ Passes(items, m, cols) = f[m]
    /\ f[0] = items
    /\ \A k \in 1 .. m : f[k] = FillPass(f[k - 1], cols)

LEMMA PassesFold ==
  ASSUME NEW items \in Seq(Tile), NEW m \in Nat, NEW cols,
         \A p \in Seq(Tile) : FillPass(p, cols) \in Seq(Tile)
  PROVE  FillPasses(items, m, cols)
<1> DEFINE n == m
           T == Seq(Tile)
           Op(a, k) == FillPass(a, cols)
           step == [b \in T \X (1 .. n) |-> Op(b[1], b[2])]
           I == CHOOSE iter : iter = [t \in SUBSET (DOMAIN [i \in 1 .. m |-> i]) |->
                  IF t = {} THEN items ELSE Op(iter[t \ {Max(t)}], Max(t))]
<1>1. Passes(items, m, cols) = I[DOMAIN [i \in 1 .. m |-> i]]
  BY DEF Passes, FoldLeft, MapThenFoldSet
<1>2. DOMAIN [i \in 1 .. m |-> i] = 1 .. n /\ n \in Nat /\ items \in T
  OBVIOUS
<1>3. \A a \in T, k \in 1 .. n : Op(a, k) \in T
  OBVIOUS
<1> HIDE DEF T, Op, n
<1>4. step \in [T \X (1 .. n) -> T]
  BY <1>3
<1>5. PICK g : Iterates(g, n, T, items, step)
  <2> HIDE DEF step
  <2> QED BY <1>2, <1>4, FoldExists
<1>6. g = [t \in SUBSET (1 .. n) |-> IF t = {} THEN items ELSE Op(g[t \ {Max(t)}], Max(t))]
  BY <1>2, <1>5, MaxIsGreatest DEF Iterates
<1>7. I = [t \in SUBSET (1 .. n) |-> IF t = {} THEN items ELSE Op(I[t \ {Max(t)}], Max(t))]
  BY <1>2, <1>6
<1>8. Unrolls(I, n, T, items, step)
  <2>1. I[{}] = items
    <3> HIDE DEF I
    <3> QED BY <1>2, <1>7
  <2>2. ASSUME NEW k \in 1 .. n, I[1 .. (k - 1)] \in T
        PROVE  I[1 .. k] = step[<< I[1 .. (k - 1)], k >>]
    <3>1. /\ 1 .. k \in SUBSET (1 .. n) /\ 1 .. k # {}
          /\ Max(1 .. k) = k /\ (1 .. k) \ {k} = 1 .. (k - 1)
      BY <1>2, PrefixOfRange
    <3>2. I[1 .. k] = Op(I[1 .. (k - 1)], k)
      <4> HIDE DEF I, step
      <4> QED BY <1>7, <3>1
    <3> HIDE DEF I
    <3> QED BY <2>2, <3>2
  <2> HIDE DEF I, step
  <2> QED BY <2>1, <2>2 DEF Unrolls
<1>9. PICK f : Runs(f, I, n, T, items, step)
  <2> HIDE DEF I, step
  <2> QED BY <1>2, <1>4, <1>8, FoldSteps
<1>10. f \in [0 .. n -> T] /\ f[n] = I[1 .. n] /\ f[0] = items
  <2> HIDE DEF I, step
  <2> QED BY <1>9 DEF Runs
<1>11. ASSUME NEW k \in 1 .. n PROVE f[k] = Op(f[k - 1], k)
  <2>1. f[k] = step[<< f[k - 1], k >>] /\ f[k - 1] \in T
    <3> HIDE DEF I, step
    <3> QED BY <1>2, <1>9, <1>10 DEF Runs
  <2> QED BY <2>1
<1>12. Passes(items, m, cols) = f[n]
  BY <1>1, <1>2, <1>10
<1> QED
  BY <1>10, <1>11, <1>12 DEF n, T, Op, FillPasses

LEMMA WidthFold ==
  ASSUME NEW s \in Seq(Piece)
  PROVE  \E f \in [0 .. Len(s) -> Int] :
           /\ ShelfWidth(s) = f[Len(s)]
           /\ f[0] = 0
           /\ \A k \in 1 .. Len(s) : f[k] = f[k - 1] + s[k].w
<1> DEFINE n == Len(s)
           T == Int
           Op(a, k) == a + s[k].w
           step == [b \in T \X (1 .. n) |-> Op(b[1], b[2])]
           I == CHOOSE iter : iter = [t \in SUBSET (DOMAIN s) |->
                  IF t = {} THEN 0 ELSE Op(iter[t \ {Max(t)}], Max(t))]
<1>1. ShelfWidth(s) = I[DOMAIN s]
  BY DEF ShelfWidth, FoldLeft, MapThenFoldSet
<1>2. DOMAIN s = 1 .. n /\ n \in Nat /\ 0 \in T
  OBVIOUS
<1>3. \A a \in T, k \in 1 .. n : Op(a, k) \in T
  <2>1. \A k \in 1 .. n : s[k] \in Piece
    OBVIOUS
  <2> QED BY <2>1 DEF Piece
<1> HIDE DEF T, Op, n
<1>4. step \in [T \X (1 .. n) -> T]
  BY <1>3
<1>5. PICK g : Iterates(g, n, T, 0, step)
  <2> HIDE DEF step
  <2> QED BY <1>2, <1>4, FoldExists
<1>6. g = [t \in SUBSET (1 .. n) |-> IF t = {} THEN 0 ELSE Op(g[t \ {Max(t)}], Max(t))]
  BY <1>2, <1>5, MaxIsGreatest DEF Iterates
<1>7. I = [t \in SUBSET (1 .. n) |-> IF t = {} THEN 0 ELSE Op(I[t \ {Max(t)}], Max(t))]
  BY <1>2, <1>6
<1>8. Unrolls(I, n, T, 0, step)
  <2>1. I[{}] = 0
    <3> HIDE DEF I
    <3> QED BY <1>2, <1>7
  <2>2. ASSUME NEW k \in 1 .. n, I[1 .. (k - 1)] \in T
        PROVE  I[1 .. k] = step[<< I[1 .. (k - 1)], k >>]
    <3>1. /\ 1 .. k \in SUBSET (1 .. n) /\ 1 .. k # {}
          /\ Max(1 .. k) = k /\ (1 .. k) \ {k} = 1 .. (k - 1)
      BY <1>2, PrefixOfRange
    <3>2. I[1 .. k] = Op(I[1 .. (k - 1)], k)
      <4> HIDE DEF I, step
      <4> QED BY <1>7, <3>1
    <3> HIDE DEF I
    <3> QED BY <2>2, <3>2
  <2> HIDE DEF I, step
  <2> QED BY <2>1, <2>2 DEF Unrolls
<1>9. PICK f : Runs(f, I, n, T, 0, step)
  <2> HIDE DEF I, step
  <2> QED BY <1>2, <1>4, <1>8, FoldSteps
<1>10. f \in [0 .. n -> T] /\ f[n] = I[1 .. n] /\ f[0] = 0
  <2> HIDE DEF I, step
  <2> QED BY <1>9 DEF Runs
<1>11. ASSUME NEW k \in 1 .. n PROVE f[k] = Op(f[k - 1], k)
  <2>1. f[k] = step[<< f[k - 1], k >>] /\ f[k - 1] \in T
    <3> HIDE DEF I, step
    <3> QED BY <1>2, <1>9, <1>10 DEF Runs
  <2> QED BY <2>1
<1>12. ShelfWidth(s) = f[n]
  BY <1>1, <1>2, <1>10
<1> QED
  BY <1>10, <1>11, <1>12 DEF n, T, Op

Growths(s, cols) ==
  \E f \in [0 .. Len(s) -> Growing] :
    /\ GrownOnce(s, cols) = f[Len(s)].row
    /\ f[0] = [left |-> cols - ShelfWidth(s), row |-> <<>>]
    /\ \A k \in 1 .. Len(s) : f[k] = Grown(f[k - 1], Reverse(s)[k], cols)

LEMMA GrownFold ==
  ASSUME NEW s \in Seq(Piece), NEW cols \in Int, ShelfWidth(s) \in Int,
         \A a \in Growing, k \in 1 .. Len(s) : Grown(a, Reverse(s)[k], cols) \in Growing
  PROVE  Growths(s, cols)
<1> DEFINE n == Len(s)
           T == Growing
           Op(a, k) == Grown(a, Reverse(s)[k], cols)
           step == [b \in T \X (1 .. n) |-> Op(b[1], b[2])]
           I == CHOOSE iter : iter = [t \in SUBSET (DOMAIN Reverse(s)) |->
                  IF t = {} THEN [left |-> cols - ShelfWidth(s), row |-> <<>>] ELSE Op(iter[t \ {Max(t)}], Max(t))]
<1>1. GrownOnce(s, cols) = I[DOMAIN Reverse(s)].row
  BY DEF GrownOnce, FoldLeft, MapThenFoldSet
<1>2. DOMAIN Reverse(s) = 1 .. n /\ n \in Nat /\ [left |-> cols - ShelfWidth(s), row |-> <<>>] \in T
  BY DEF Reverse, Growing
<1>3. \A a \in T, k \in 1 .. n : Op(a, k) \in T
  OBVIOUS
<1> HIDE DEF T, Op, n
<1>4. step \in [T \X (1 .. n) -> T]
  BY <1>3
<1>5. PICK g : Iterates(g, n, T, [left |-> cols - ShelfWidth(s), row |-> <<>>], step)
  <2> HIDE DEF step
  <2> QED BY <1>2, <1>4, FoldExists
<1>6. g = [t \in SUBSET (1 .. n) |-> IF t = {} THEN [left |-> cols - ShelfWidth(s), row |-> <<>>] ELSE Op(g[t \ {Max(t)}], Max(t))]
  BY <1>2, <1>5, MaxIsGreatest DEF Iterates
<1>7. I = [t \in SUBSET (1 .. n) |-> IF t = {} THEN [left |-> cols - ShelfWidth(s), row |-> <<>>] ELSE Op(I[t \ {Max(t)}], Max(t))]
  BY <1>2, <1>6
<1>8. Unrolls(I, n, T, [left |-> cols - ShelfWidth(s), row |-> <<>>], step)
  <2>1. I[{}] = [left |-> cols - ShelfWidth(s), row |-> <<>>]
    <3> HIDE DEF I
    <3> QED BY <1>2, <1>7
  <2>2. ASSUME NEW k \in 1 .. n, I[1 .. (k - 1)] \in T
        PROVE  I[1 .. k] = step[<< I[1 .. (k - 1)], k >>]
    <3>1. /\ 1 .. k \in SUBSET (1 .. n) /\ 1 .. k # {}
          /\ Max(1 .. k) = k /\ (1 .. k) \ {k} = 1 .. (k - 1)
      BY <1>2, PrefixOfRange
    <3>2. I[1 .. k] = Op(I[1 .. (k - 1)], k)
      <4> HIDE DEF I, step
      <4> QED BY <1>7, <3>1
    <3> HIDE DEF I
    <3> QED BY <2>2, <3>2
  <2> HIDE DEF I, step
  <2> QED BY <2>1, <2>2 DEF Unrolls
<1>9. PICK f : Runs(f, I, n, T, [left |-> cols - ShelfWidth(s), row |-> <<>>], step)
  <2> HIDE DEF I, step
  <2> QED BY <1>2, <1>4, <1>8, FoldSteps
<1>10. f \in [0 .. n -> T] /\ f[n] = I[1 .. n] /\ f[0] = [left |-> cols - ShelfWidth(s), row |-> <<>>]
  <2> HIDE DEF I, step
  <2> QED BY <1>9 DEF Runs
<1>11. ASSUME NEW k \in 1 .. n PROVE f[k] = Op(f[k - 1], k)
  <2>1. f[k] = step[<< f[k - 1], k >>] /\ f[k - 1] \in T
    <3> HIDE DEF I, step
    <3> QED BY <1>2, <1>9, <1>10 DEF Runs
  <2> QED BY <2>1
<1>12. GrownOnce(s, cols) = f[n].row
  BY <1>1, <1>2, <1>10
<1> QED
  BY <1>10, <1>11, <1>12 DEF n, T, Op, Growths

Justifications(s, cols) ==
  \E f \in [0 .. cols * 2 -> Seq(Piece)] :
    /\ Justified(s, cols) = f[cols * 2]
    /\ f[0] = s
    /\ \A k \in 1 .. cols * 2 : f[k] = GrownOnce(f[k - 1], cols)

LEMMA JustifiedFold ==
  ASSUME NEW s \in Seq(Piece), NEW cols \in Nat,
         \A p \in Seq(Piece) : GrownOnce(p, cols) \in Seq(Piece)
  PROVE  Justifications(s, cols)
<1> DEFINE n == cols * 2
           T == Seq(Piece)
           Op(a, k) == GrownOnce(a, cols)
           step == [b \in T \X (1 .. n) |-> Op(b[1], b[2])]
           I == CHOOSE iter : iter = [t \in SUBSET (DOMAIN [i \in 1 .. cols * 2 |-> i]) |->
                  IF t = {} THEN s ELSE Op(iter[t \ {Max(t)}], Max(t))]
<1>1. Justified(s, cols) = I[DOMAIN [i \in 1 .. cols * 2 |-> i]]
  BY DEF Justified, FoldLeft, MapThenFoldSet
<1>2. DOMAIN [i \in 1 .. cols * 2 |-> i] = 1 .. n /\ n \in Nat /\ s \in T
  OBVIOUS
<1>3. \A a \in T, k \in 1 .. n : Op(a, k) \in T
  OBVIOUS
<1> HIDE DEF T, Op, n
<1>4. step \in [T \X (1 .. n) -> T]
  BY <1>3
<1>5. PICK g : Iterates(g, n, T, s, step)
  <2> HIDE DEF step
  <2> QED BY <1>2, <1>4, FoldExists
<1>6. g = [t \in SUBSET (1 .. n) |-> IF t = {} THEN s ELSE Op(g[t \ {Max(t)}], Max(t))]
  BY <1>2, <1>5, MaxIsGreatest DEF Iterates
<1>7. I = [t \in SUBSET (1 .. n) |-> IF t = {} THEN s ELSE Op(I[t \ {Max(t)}], Max(t))]
  BY <1>2, <1>6
<1>8. Unrolls(I, n, T, s, step)
  <2>1. I[{}] = s
    <3> HIDE DEF I
    <3> QED BY <1>2, <1>7
  <2>2. ASSUME NEW k \in 1 .. n, I[1 .. (k - 1)] \in T
        PROVE  I[1 .. k] = step[<< I[1 .. (k - 1)], k >>]
    <3>1. /\ 1 .. k \in SUBSET (1 .. n) /\ 1 .. k # {}
          /\ Max(1 .. k) = k /\ (1 .. k) \ {k} = 1 .. (k - 1)
      BY <1>2, PrefixOfRange
    <3>2. I[1 .. k] = Op(I[1 .. (k - 1)], k)
      <4> HIDE DEF I, step
      <4> QED BY <1>7, <3>1
    <3> HIDE DEF I
    <3> QED BY <2>2, <3>2
  <2> HIDE DEF I, step
  <2> QED BY <2>1, <2>2 DEF Unrolls
<1>9. PICK f : Runs(f, I, n, T, s, step)
  <2> HIDE DEF I, step
  <2> QED BY <1>2, <1>4, <1>8, FoldSteps
<1>10. f \in [0 .. n -> T] /\ f[n] = I[1 .. n] /\ f[0] = s
  <2> HIDE DEF I, step
  <2> QED BY <1>9 DEF Runs
<1>11. ASSUME NEW k \in 1 .. n PROVE f[k] = Op(f[k - 1], k)
  <2>1. f[k] = step[<< f[k - 1], k >>] /\ f[k - 1] \in T
    <3> HIDE DEF I, step
    <3> QED BY <1>2, <1>9, <1>10 DEF Runs
  <2> QED BY <2>1
<1>12. Justified(s, cols) = f[n]
  BY <1>1, <1>2, <1>10
<1> QED
  BY <1>10, <1>11, <1>12 DEF n, T, Op, Justifications

Writings(row, out, y, height) ==
  \E f \in [0 .. Len(row) -> Writing] :
    /\ Written(out, y, row, height) = f[Len(row)].out
    /\ f[0] = [x |-> 0, out |-> out]
    /\ \A k \in 1 .. Len(row) : f[k] = Put(f[k - 1], row[k], y, height)

LEMMA WrittenFold ==
  ASSUME NEW row \in Seq(Piece), NEW out \in Seq(Tile), NEW y, NEW height,
         \A a \in Writing, k \in 1 .. Len(row) : Put(a, row[k], y, height) \in Writing
  PROVE  Writings(row, out, y, height)
<1> DEFINE n == Len(row)
           T == Writing
           Op(a, k) == Put(a, row[k], y, height)
           step == [b \in T \X (1 .. n) |-> Op(b[1], b[2])]
           I == CHOOSE iter : iter = [t \in SUBSET (DOMAIN row) |->
                  IF t = {} THEN [x |-> 0, out |-> out] ELSE Op(iter[t \ {Max(t)}], Max(t))]
<1>1. Written(out, y, row, height) = I[DOMAIN row].out
  BY DEF Written, FoldLeft, MapThenFoldSet
<1>2. DOMAIN row = 1 .. n /\ n \in Nat /\ [x |-> 0, out |-> out] \in T
  BY DEF Writing
<1>3. \A a \in T, k \in 1 .. n : Op(a, k) \in T
  OBVIOUS
<1> HIDE DEF T, Op, n
<1>4. step \in [T \X (1 .. n) -> T]
  BY <1>3
<1>5. PICK g : Iterates(g, n, T, [x |-> 0, out |-> out], step)
  <2> HIDE DEF step
  <2> QED BY <1>2, <1>4, FoldExists
<1>6. g = [t \in SUBSET (1 .. n) |-> IF t = {} THEN [x |-> 0, out |-> out] ELSE Op(g[t \ {Max(t)}], Max(t))]
  BY <1>2, <1>5, MaxIsGreatest DEF Iterates
<1>7. I = [t \in SUBSET (1 .. n) |-> IF t = {} THEN [x |-> 0, out |-> out] ELSE Op(I[t \ {Max(t)}], Max(t))]
  BY <1>2, <1>6
<1>8. Unrolls(I, n, T, [x |-> 0, out |-> out], step)
  <2>1. I[{}] = [x |-> 0, out |-> out]
    <3> HIDE DEF I
    <3> QED BY <1>2, <1>7
  <2>2. ASSUME NEW k \in 1 .. n, I[1 .. (k - 1)] \in T
        PROVE  I[1 .. k] = step[<< I[1 .. (k - 1)], k >>]
    <3>1. /\ 1 .. k \in SUBSET (1 .. n) /\ 1 .. k # {}
          /\ Max(1 .. k) = k /\ (1 .. k) \ {k} = 1 .. (k - 1)
      BY <1>2, PrefixOfRange
    <3>2. I[1 .. k] = Op(I[1 .. (k - 1)], k)
      <4> HIDE DEF I, step
      <4> QED BY <1>7, <3>1
    <3> HIDE DEF I
    <3> QED BY <2>2, <3>2
  <2> HIDE DEF I, step
  <2> QED BY <2>1, <2>2 DEF Unrolls
<1>9. PICK f : Runs(f, I, n, T, [x |-> 0, out |-> out], step)
  <2> HIDE DEF I, step
  <2> QED BY <1>2, <1>4, <1>8, FoldSteps
<1>10. f \in [0 .. n -> T] /\ f[n] = I[1 .. n] /\ f[0] = [x |-> 0, out |-> out]
  <2> HIDE DEF I, step
  <2> QED BY <1>9 DEF Runs
<1>11. ASSUME NEW k \in 1 .. n PROVE f[k] = Op(f[k - 1], k)
  <2>1. f[k] = step[<< f[k - 1], k >>] /\ f[k - 1] \in T
    <3> HIDE DEF I, step
    <3> QED BY <1>2, <1>9, <1>10 DEF Runs
  <2> QED BY <2>1
<1>12. Written(out, y, row, height) = f[n].out
  BY <1>1, <1>2, <1>10
<1> QED
  BY <1>10, <1>11, <1>12 DEF n, T, Op, Writings

Shelvings(s, cols, limits, from) ==
  \E f \in [0 .. Len(s) -> Shelving] :
    /\ AllShelved(s, cols, limits, from) = f[Len(s)]
    /\ f[0] = [out |-> <<>>, y |-> 0, shelf |-> <<>>, used |-> 0]
    /\ \A k \in 1 .. Len(s) : f[k] = Shelved(f[k - 1], s[k], cols, limits, from)

LEMMA ShelvedFold ==
  ASSUME NEW s \in Seq(Tile), NEW cols, NEW limits, NEW from,
         \A a \in Shelving, k \in 1 .. Len(s) : Shelved(a, s[k], cols, limits, from) \in Shelving
  PROVE  Shelvings(s, cols, limits, from)
<1> DEFINE n == Len(s)
           T == Shelving
           Op(a, k) == Shelved(a, s[k], cols, limits, from)
           step == [b \in T \X (1 .. n) |-> Op(b[1], b[2])]
           I == CHOOSE iter : iter = [t \in SUBSET (DOMAIN s) |->
                  IF t = {} THEN [out |-> <<>>, y |-> 0, shelf |-> <<>>, used |-> 0] ELSE Op(iter[t \ {Max(t)}], Max(t))]
<1>1. AllShelved(s, cols, limits, from) = I[DOMAIN s]
  BY DEF AllShelved, FoldLeft, MapThenFoldSet
<1>2. DOMAIN s = 1 .. n /\ n \in Nat /\ [out |-> <<>>, y |-> 0, shelf |-> <<>>, used |-> 0] \in T
  BY DEF Shelving
<1>3. \A a \in T, k \in 1 .. n : Op(a, k) \in T
  OBVIOUS
<1> HIDE DEF T, Op, n
<1>4. step \in [T \X (1 .. n) -> T]
  BY <1>3
<1>5. PICK g : Iterates(g, n, T, [out |-> <<>>, y |-> 0, shelf |-> <<>>, used |-> 0], step)
  <2> HIDE DEF step
  <2> QED BY <1>2, <1>4, FoldExists
<1>6. g = [t \in SUBSET (1 .. n) |-> IF t = {} THEN [out |-> <<>>, y |-> 0, shelf |-> <<>>, used |-> 0] ELSE Op(g[t \ {Max(t)}], Max(t))]
  BY <1>2, <1>5, MaxIsGreatest DEF Iterates
<1>7. I = [t \in SUBSET (1 .. n) |-> IF t = {} THEN [out |-> <<>>, y |-> 0, shelf |-> <<>>, used |-> 0] ELSE Op(I[t \ {Max(t)}], Max(t))]
  BY <1>2, <1>6
<1>8. Unrolls(I, n, T, [out |-> <<>>, y |-> 0, shelf |-> <<>>, used |-> 0], step)
  <2>1. I[{}] = [out |-> <<>>, y |-> 0, shelf |-> <<>>, used |-> 0]
    <3> HIDE DEF I
    <3> QED BY <1>2, <1>7
  <2>2. ASSUME NEW k \in 1 .. n, I[1 .. (k - 1)] \in T
        PROVE  I[1 .. k] = step[<< I[1 .. (k - 1)], k >>]
    <3>1. /\ 1 .. k \in SUBSET (1 .. n) /\ 1 .. k # {}
          /\ Max(1 .. k) = k /\ (1 .. k) \ {k} = 1 .. (k - 1)
      BY <1>2, PrefixOfRange
    <3>2. I[1 .. k] = Op(I[1 .. (k - 1)], k)
      <4> HIDE DEF I, step
      <4> QED BY <1>7, <3>1
    <3> HIDE DEF I
    <3> QED BY <2>2, <3>2
  <2> HIDE DEF I, step
  <2> QED BY <2>1, <2>2 DEF Unrolls
<1>9. PICK f : Runs(f, I, n, T, [out |-> <<>>, y |-> 0, shelf |-> <<>>, used |-> 0], step)
  <2> HIDE DEF I, step
  <2> QED BY <1>2, <1>4, <1>8, FoldSteps
<1>10. f \in [0 .. n -> T] /\ f[n] = I[1 .. n] /\ f[0] = [out |-> <<>>, y |-> 0, shelf |-> <<>>, used |-> 0]
  <2> HIDE DEF I, step
  <2> QED BY <1>9 DEF Runs
<1>11. ASSUME NEW k \in 1 .. n PROVE f[k] = Op(f[k - 1], k)
  <2>1. f[k] = step[<< f[k - 1], k >>] /\ f[k - 1] \in T
    <3> HIDE DEF I, step
    <3> QED BY <1>2, <1>9, <1>10 DEF Runs
  <2> QED BY <2>1
<1>12. AllShelved(s, cols, limits, from) = f[n]
  BY <1>1, <1>2, <1>10
<1> QED
  BY <1>10, <1>11, <1>12 DEF n, T, Op, Shelvings

---------------------------------------------------------------------------
(* Greatest and least elements *)

LEMMA MaxOf ==
  ASSUME NEW S \in SUBSET Int, IsFiniteSet(S), S # {}
  PROVE  Max(S) \in S /\ \A y \in S : y <= Max(S)
<1>1. PICK n \in Nat : ExistsSurjection(1 .. n, S)
  BY FS_NatSurjection
<1>2. PICK f \in [1 .. n -> S] : \A t \in S : \E s \in 1 .. n : f[s] = t
  BY <1>1 DEF ExistsSurjection, Surjection
<1>3. n # 0 /\ \A k \in 1 .. n : f[k] \in Int
  <2>1. PICK z \in S : TRUE
    OBVIOUS
  <2>2. PICK s \in 1 .. n : f[s] = z
    BY <1>2, <2>1
  <2>3. \A k \in 1 .. n : f[k] \in Int
    BY <1>2
  <2> QED BY <2>2, <2>3
<1>4. PICK i \in 1 .. n : \A j \in 1 .. n : f[j] <= f[i]
  BY <1>3, Greatest
<1>5. f[i] \in S /\ \A y \in S : f[i] >= y
  BY <1>2, <1>4
<1>6. \E x \in S : \A y \in S : x >= y
  BY <1>5
<1>7. Max(S) \in S /\ \A y \in S : Max(S) >= y
  BY <1>6 DEF Max
<1>8. \A y \in S : y \in Int /\ Max(S) \in Int
  BY <1>7
<1> QED
  BY <1>7, <1>8

LEMMA MinOf ==
  ASSUME NEW S \in SUBSET Int, IsFiniteSet(S), S # {}
  PROVE  Min(S) \in S /\ \A y \in S : Min(S) <= y
<1>1. PICK n \in Nat : ExistsSurjection(1 .. n, S)
  BY FS_NatSurjection
<1>2. PICK f \in [1 .. n -> S] : \A t \in S : \E s \in 1 .. n : f[s] = t
  BY <1>1 DEF ExistsSurjection, Surjection
<1> DEFINE g == [k \in 1 .. n |-> -f[k]]
<1>3. n # 0 /\ \A k \in 1 .. n : f[k] \in Int /\ g[k] = -f[k] /\ g[k] \in Int
  <2>1. PICK z \in S : TRUE
    OBVIOUS
  <2>2. PICK s \in 1 .. n : f[s] = z
    BY <1>2, <2>1
  <2>3. \A k \in 1 .. n : f[k] \in Int /\ g[k] = -f[k]
    BY <1>2
  <2> HIDE DEF g
  <2> QED BY <2>2, <2>3
<1>4. PICK i \in 1 .. n : \A j \in 1 .. n : g[j] <= g[i]
  <2> HIDE DEF g
  <2> QED BY <1>3, Greatest
<1>5. \A j \in 1 .. n : f[i] <= f[j]
  BY <1>3, <1>4
<1>6. \E x \in S : \A y \in S : x <= y
  BY <1>2, <1>5
<1> QED
  BY <1>6 DEF Min

---------------------------------------------------------------------------
(* Ranks.  `before` is a strict total order of the indices of a list. *)

Orders(before, n) ==
  /\ before \in SUBSET ((1 .. n) \X (1 .. n))
  /\ \A i \in 1 .. n : << i, i >> \notin before
  /\ \A i, j \in 1 .. n : i # j => << i, j >> \in before \/ << j, i >> \in before
  /\ \A i, j, k \in 1 .. n : << i, j >> \in before /\ << j, k >> \in before => << i, k >> \in before

Rank(before, n) == [i \in 1 .. n |-> Cardinality({j \in 1 .. n : << j, i >> \in before}) + 1]

LEMMA RankGrows ==
  ASSUME NEW n \in Nat, NEW before, Orders(before, n), NEW i \in 1 .. n, NEW j \in 1 .. n,
         << i, j >> \in before
  PROVE  Rank(before, n)[i] < Rank(before, n)[j]
<1> DEFINE Below(k) == {l \in 1 .. n : << l, k >> \in before}
<1>1. Below(i) \subseteq Below(j) /\ i \in Below(j) /\ i \notin Below(i)
  BY DEF Orders
<1>2. IsFiniteSet(Below(j)) /\ IsFiniteSet(Below(i)) /\ Cardinality(Below(i)) \in Nat
      /\ Cardinality(Below(j)) \in Nat
  <2>1. Below(i) \in SUBSET (1 .. n) /\ Below(j) \in SUBSET (1 .. n)
    OBVIOUS
  <2> HIDE DEF Below
  <2> QED BY <2>1, SubsetsAreFinite
<1>3. Below(i) \subseteq Below(j) \ {i}
  BY <1>1
<1>4. IsFiniteSet(Below(j) \ {i}) /\ Cardinality(Below(j) \ {i}) = Cardinality(Below(j)) - 1
  <2> HIDE DEF Below
  <2> QED BY <1>1, <1>2, FS_RemoveElement
<1>5. Cardinality(Below(i)) <= Cardinality(Below(j) \ {i})
  <2> HIDE DEF Below
  <2> QED BY <1>3, <1>4, FS_Subset
<1>6. Rank(before, n)[i] = Cardinality(Below(i)) + 1 /\ Rank(before, n)[j] = Cardinality(Below(j)) + 1
  BY DEF Rank
<1> QED
  <2> HIDE DEF Below
  <2> QED BY <1>2, <1>4, <1>5, <1>6

LEMMA RanksAreIndices ==
  ASSUME NEW n \in Nat, NEW before, Orders(before, n)
  PROVE  /\ Rank(before, n) \in [1 .. n -> 1 .. n]
         /\ \A i, j \in 1 .. n : Rank(before, n)[i] = Rank(before, n)[j] => i = j
         /\ \A k \in 1 .. n : \E i \in 1 .. n : Rank(before, n)[i] = k
<1> DEFINE r == Rank(before, n)
<1>1. ASSUME NEW i \in 1 .. n PROVE r[i] \in 1 .. n
  <2> DEFINE B == {j \in 1 .. n : << j, i >> \in before}
  <2>1. B \in SUBSET (1 .. n) /\ B \subseteq (1 .. n) \ {i}
    BY DEF Orders
  <2>2. IsFiniteSet(1 .. n) /\ Cardinality(1 .. n) = n
    BY FS_Interval
  <2>3. IsFiniteSet((1 .. n) \ {i}) /\ Cardinality((1 .. n) \ {i}) = n - 1
    BY <2>2, FS_RemoveElement
  <2>4. Cardinality(B) <= n - 1 /\ Cardinality(B) \in Nat
    <3> HIDE DEF B
    <3>1. Cardinality(B) <= Cardinality((1 .. n) \ {i})
      BY <2>1, <2>3, FS_Subset
    <3>2. Cardinality(B) \in Nat
      BY <2>1, SubsetsAreFinite
    <3> QED BY <2>3, <3>1, <3>2
  <2>5. r[i] = Cardinality(B) + 1
    BY DEF Rank
  <2> HIDE DEF B, r
  <2> QED BY <2>4, <2>5
<1>2. r \in [1 .. n -> 1 .. n]
  <2>1. r = [i \in 1 .. n |-> r[i]]
    BY DEF Rank
  <2> HIDE DEF r
  <2> QED BY <1>1, <2>1
<1>3. \A i, j \in 1 .. n : r[i] = r[j] => i = j
  <2> SUFFICES ASSUME NEW i \in 1 .. n, NEW j \in 1 .. n, i # j PROVE r[i] # r[j]
    OBVIOUS
  <2>1. r[i] \in Int /\ r[j] \in Int
    BY <1>1
  <2>2. << i, j >> \in before \/ << j, i >> \in before
    BY DEF Orders
  <2>3. r[i] < r[j] \/ r[j] < r[i]
    BY <2>2, RankGrows
  <2> HIDE DEF r
  <2> QED BY <2>1, <2>3
<1>4. \A k \in 1 .. n : \E i \in 1 .. n : r[i] = k
  <2> HIDE DEF r
  <2>1. r \in Injection(1 .. n, 1 .. n)
    BY <1>2, <1>3 DEF Injection, IsInjective
  <2>2. IsFiniteSet(1 .. n)
    BY FS_Interval
  <2>3. r \in Surjection(1 .. n, 1 .. n)
    BY <2>1, <2>2, FS_Injection
  <2> QED BY <2>3 DEF Surjection
<1> QED
  BY <1>2, <1>3, <1>4

---------------------------------------------------------------------------
(* Tiles and lists of tiles *)

\* `r` has the elements of `s` in another order.
Permutes(p, n) ==
  /\ p \in [1 .. n -> 1 .. n]
  /\ \A i, j \in 1 .. n : p[i] = p[j] => i = j
  /\ \A k \in 1 .. n : \E i \in 1 .. n : p[i] = k

LEMMA MappedIs ==
  ASSUME NEW n \in Nat, NEW T, NEW f \in [1 .. n -> T]
  PROVE  <<>> \o f = f /\ f \in Seq(T) /\ Len(f) = n /\ DOMAIN f = 1 .. n
OBVIOUS

\* The places of the bottom edges of some tiles: finite, so there is a lowest.
LEMMA EdgesFinite ==
  ASSUME NEW s \in Seq(Tile), NEW A \in SUBSET ToSet(s)
  PROVE  /\ IsFiniteSet({p.y + p.h : p \in A})
         /\ {p.y + p.h : p \in A} \subseteq Int
<1>1. IsFiniteSet(1 .. Len(s)) /\ DOMAIN s = 1 .. Len(s)
  BY FS_Interval
<1> DEFINE D == {i \in 1 .. Len(s) : s[i] \in A}
           E == {p.y + p.h : p \in A}
           f == [i \in D |-> s[i].y + s[i].h]
<1>2. IsFiniteSet(D)
  BY <1>1, FS_Subset
<1>3. \A t \in E : \E i \in D : f[i] = t
  BY <1>1 DEF ToSet
<1>4. f \in [D -> E]
  OBVIOUS
<1>5. IsFiniteSet(E)
  <2>1. f \in Surjection(D, E)
    <3> HIDE DEF f, D, E
    <3> QED BY <1>3, <1>4 DEF Surjection
  <2> HIDE DEF f, D, E
  <2> QED BY <2>1, <1>2, FS_Surjection
<1>6. \A p \in A : p \in Tile
  BY DEF ToSet
<1> QED
  BY <1>5, <1>6 DEF Tile

LEMMA FiniteWithOne ==
  ASSUME NEW E, IsFiniteSet(E), NEW a
  PROVE  IsFiniteSet({a} \cup E)
<1>1. {a} \cup E = E \cup {a}
  OBVIOUS
<1> QED BY <1>1, FS_AddElement

\* The index that comes k-th.
Order(before, n) == [k \in 1 .. n |-> CHOOSE i \in 1 .. n : Rank(before, n)[i] = k]

LEMMA OrderPermutes ==
  ASSUME NEW n \in Nat, NEW before, Orders(before, n)
  PROVE  /\ Permutes(Order(before, n), n)
         /\ \A i, j \in 1 .. n : i < j => << Order(before, n)[i], Order(before, n)[j] >> \in before
<1> DEFINE r == Rank(before, n)
           p == Order(before, n)
<1>1. /\ r \in [1 .. n -> 1 .. n]
      /\ \A i, j \in 1 .. n : r[i] = r[j] => i = j
      /\ \A k \in 1 .. n : \E i \in 1 .. n : r[i] = k
  BY RanksAreIndices
<1>2. \A k \in 1 .. n : p[k] \in 1 .. n /\ r[p[k]] = k
  <2> SUFFICES ASSUME NEW k \in 1 .. n PROVE p[k] \in 1 .. n /\ r[p[k]] = k
    OBVIOUS
  <2>1. p[k] = CHOOSE i \in 1 .. n : r[i] = k
    BY DEF Order
  <2> HIDE DEF r, p
  <2> QED BY <1>1, <2>1
<1>3. p \in [1 .. n -> 1 .. n]
  <2>1. p = [k \in 1 .. n |-> p[k]]
    BY DEF Order
  <2> HIDE DEF r, p
  <2>2. \A k \in 1 .. n : p[k] \in 1 .. n
    BY <1>2
  <2> QED BY <2>1, <2>2
<1>4. \A k \in 1 .. n : p[r[k]] = k
  <2> HIDE DEF r, p
  <2> QED BY <1>1, <1>2
<1>5. ASSUME NEW i \in 1 .. n, NEW j \in 1 .. n, i < j PROVE << p[i], p[j] >> \in before
  <2>1. p[i] # p[j] /\ p[i] \in 1 .. n /\ p[j] \in 1 .. n
    <3> HIDE DEF r, p
    <3> QED BY <1>2, <1>5
  <2>2. << p[j], p[i] >> \in before => r[p[j]] < r[p[i]]
    <3> HIDE DEF p
    <3> QED BY <2>1, RankGrows
  <2>3. ~(r[p[j]] < r[p[i]])
    <3> HIDE DEF r, p
    <3> QED BY <1>2, <1>5
  <2> HIDE DEF r, p
  <2> QED BY <2>1, <2>2, <2>3 DEF Orders
<1>6. Permutes(p, n)
  <2> HIDE DEF r, p
  <2> QED BY <1>1, <1>2, <1>3, <1>4 DEF Permutes
<1> QED
  BY <1>5, <1>6

\* The list p puts in another order.
Permuted(s, p) == [k \in 1 .. Len(s) |-> s[p[k]]]

InOrder(s) ==
  \A i, j \in DOMAIN s : i < j => s[i].y < s[j].y \/ (s[i].y = s[j].y /\ s[i].x <= s[j].x)

\* The sort puts `s[i]` before `s[j]`.
Earlier(s, i, j) == \/ s[i].y < s[j].y \/ (s[i].y = s[j].y /\ s[i].x < s[j].x)
                    \/ i < j /\ ~(s[j].y < s[i].y \/ (s[j].y = s[i].y /\ s[j].x < s[i].x))

LEMMA SortItemsSorts ==
  ASSUME NEW s \in Seq(Tile)
  PROVE  /\ \E p : /\ Permutes(p, Len(s)) /\ SortItems(s) = Permuted(s, p)
                   /\ \A i, j \in 1 .. Len(s) : i < j => Earlier(s, p[i], p[j])
         /\ InOrder(SortItems(s))
<1> DEFINE n == Len(s)
           Goes(i, j) == \/ s[i].y < s[j].y \/ (s[i].y = s[j].y /\ s[i].x < s[j].x)
                         \/ i < j /\ ~(s[j].y < s[i].y \/ (s[j].y = s[i].y /\ s[j].x < s[i].x))
           before == {b \in (1 .. n) \X (1 .. n) : Goes(b[1], b[2])}
           p == Order(before, n)
<1>1. DOMAIN s = 1 .. n /\ n \in Nat /\ \A i \in 1 .. n : s[i] \in Tile /\ s[i].y \in Int /\ s[i].x \in Int
  <2>1. DOMAIN s = 1 .. n /\ n \in Nat /\ \A i \in 1 .. n : s[i] \in Tile
    OBVIOUS
  <2> QED BY <2>1 DEF Tile
<1>2. \A i, j \in 1 .. n : << i, j >> \in before <=> Goes(i, j)
  OBVIOUS
<1>3. Orders(before, n)
  <2>1. before \in SUBSET ((1 .. n) \X (1 .. n))
    OBVIOUS
  <2> HIDE DEF before, n
  <2>2. \A i \in 1 .. n : << i, i >> \notin before
    BY <1>1, <1>2
  <2>3. \A i, j \in 1 .. n : i # j => << i, j >> \in before \/ << j, i >> \in before
    BY <1>1, <1>2
  <2>4. ASSUME NEW i \in 1 .. n, NEW j \in 1 .. n, NEW k \in 1 .. n,
               << i, j >> \in before, << j, k >> \in before
        PROVE  << i, k >> \in before
    <3>1. Goes(i, j) /\ Goes(j, k)
      BY <1>2, <2>4
    <3>2. Goes(i, k)
      BY <1>1, <3>1
    <3> QED BY <1>2, <3>2
  <2> QED BY <2>1, <2>2, <2>3, <2>4 DEF Orders
<1>4. Permutes(p, n) /\ \A i, j \in 1 .. n : i < j => << p[i], p[j] >> \in before
  <2> HIDE DEF before, n
  <2> QED BY <1>1, <1>3, OrderPermutes
<1>5. SortItems(s) = [k \in 1 .. n |-> s[CHOOSE i \in 1 .. n : Rank(before, n)[i] = k]]
  <2> DEFINE place == [i \in DOMAIN s |-> Cardinality({j \in DOMAIN s : Goes(j, i)}) + 1]
  <2>1. SortItems(s) = [k \in DOMAIN s |-> s[CHOOSE i \in DOMAIN s : place[i] = k]]
    BY DEF SortItems, SortedBy
  <2>2. place = Rank(before, n)
    <3>1. ASSUME NEW i \in 1 .. n
          PROVE  {j \in DOMAIN s : Goes(j, i)} = {j \in 1 .. n : << j, i >> \in before}
      <4> HIDE DEF before
      <4> QED BY <1>1, <1>2
    <3> HIDE DEF before, Goes, n
    <3> QED BY <1>1, <3>1 DEF Rank
  <2> HIDE DEF place, before
  <2> QED BY <1>1, <2>1, <2>2
<1>6. SortItems(s) = Permuted(s, p)
  <2> HIDE DEF before
  <2> QED BY <1>5 DEF Permuted, Order
<1>7. InOrder(SortItems(s))
  <2> SUFFICES ASSUME NEW i \in 1 .. n, NEW j \in 1 .. n, i < j
               PROVE  \/ s[p[i]].y < s[p[j]].y
                      \/ s[p[i]].y = s[p[j]].y /\ s[p[i]].x <= s[p[j]].x
    <3> HIDE DEF p
    <3> QED BY <1>6 DEF Permuted, InOrder
  <2>1. p[i] \in 1 .. n /\ p[j] \in 1 .. n /\ << p[i], p[j] >> \in before
    <3> HIDE DEF p, before
    <3> QED BY <1>4 DEF Permutes
  <2>2. Goes(p[i], p[j])
    <3> HIDE DEF p, before
    <3> QED BY <1>2, <2>1
  <2> HIDE DEF p, before
  <2> QED BY <1>1, <2>1, <2>2
<1>8. \A i, j \in 1 .. n : i < j => Earlier(s, p[i], p[j])
  <2> SUFFICES ASSUME NEW i \in 1 .. n, NEW j \in 1 .. n, i < j PROVE Earlier(s, p[i], p[j])
    OBVIOUS
  <2>1. p[i] \in 1 .. n /\ p[j] \in 1 .. n /\ << p[i], p[j] >> \in before
    <3> HIDE DEF p, before
    <3> QED BY <1>4 DEF Permutes
  <2>2. Goes(p[i], p[j])
    <3> HIDE DEF p, before
    <3> QED BY <1>2, <2>1
  <2> HIDE DEF p, before
  <2> QED BY <2>2 DEF Earlier
<1> QED
  <2> HIDE DEF p
  <2> QED BY <1>4, <1>6, <1>7, <1>8

LEMMA SortItemsPermutes ==
  ASSUME NEW s \in Seq(Tile)
  PROVE  /\ \E p : Permutes(p, Len(s)) /\ SortItems(s) = Permuted(s, p)
         /\ InOrder(SortItems(s))
BY SortItemsSorts

LEMMA TileFields ==
  ASSUME NEW t \in Tile
  PROVE  t.id \in TileIds /\ t.x \in Int /\ t.y \in Int /\ t.w \in Int /\ t.h \in Int
BY DEF Tile, TileIds

LEMMA ToSetIn ==
  ASSUME NEW T, NEW s \in Seq(T)
  PROVE  /\ DOMAIN s = 1 .. Len(s) /\ Len(s) \in Nat
         /\ \A i \in 1 .. Len(s) : s[i] \in T /\ s[i] \in ToSet(s)
         /\ ToSet(s) \subseteq T
         /\ \A e \in ToSet(s) : \E i \in 1 .. Len(s) : s[i] = e
BY DEF ToSet

\* A tile at another row.
At(t, r) == [t EXCEPT !.y = r]

LEMMA AtTile ==
  ASSUME NEW t \in Tile, NEW r \in Int
  PROVE  /\ At(t, r) \in Tile /\ At(t, r).y = r
         /\ At(t, r).id = t.id /\ At(t, r).x = t.x /\ At(t, r).w = t.w /\ At(t, r).h = t.h
BY DEF At, Tile

\* `q` is `it` where nothing of `S` is in its way and something, if only the
\* top of the board, is under it.
RestsOn(q, S) == q.y = 0 \/ \E p \in S : p.id # q.id /\ SharesColumns(p, q) /\ p.y + p.h = q.y
Sits(q, S) == (\A p \in S : ~Collides(p, q)) /\ RestsOn(q, S)

\* Row y is not above any tile of S that `it` could rest on.
BelowAll(y, it, S) ==
  \A p \in S : p.id # it.id /\ SharesColumns(p, it) /\ p.y + p.h <= it.y => p.y + p.h <= y

LEMMA SettleSits ==
  ASSUME NEW placed \in Seq(Tile), NEW it \in Tile, it.y >= 0
  PROVE  \E y \in Int : /\ Settle(placed, it) = At(it, y) /\ y >= 0
                        /\ Sits(At(it, y), ToSet(placed))
                        /\ (\A p \in ToSet(placed) : ~Collides(p, it)) =>
                             y <= it.y /\ BelowAll(y, it, ToSet(placed))
<1> DEFINE S == ToSet(placed)
           Free(r) == ~\E p \in S : Collides(p, [it EXCEPT !.y = r])
           bottoms == {p.y + p.h : p \in S}
           cand == {r \in {it.y} \cup bottoms : r >= it.y /\ Free(r)}
           yy == Min(cand)
           above == {p \in S : p.id # it.id /\ SharesColumns(p, it) /\ p.y + p.h <= yy}
           edges == {p.y + p.h : p \in above}
           Y == Max({0} \cup edges)
<1>1. Settle(placed, it) = At(it, Y)
  BY DEF Settle, At
<1>2. /\ \A p \in S : p \in Tile
      /\ it.x \in Int /\ it.y \in Int /\ it.w \in Int /\ it.h \in Int
      /\ \A p \in S : p.x \in Int /\ p.y \in Int /\ p.w \in Int /\ p.h \in Int
  BY ToSetIn, TileFields
<1>3. IsFiniteSet(bottoms) /\ bottoms \subseteq Int
  BY EdgesFinite
<1>4. \A p \in S, r \in Int : Collides(p, [it EXCEPT !.y = r]) <=>
        /\ p.id # it.id /\ SharesColumns(p, it)
        /\ p.y < r + it.h /\ p.y + p.h > r
  BY <1>2, AtTile DEF Collides, SharesColumns, At
<1>5. cand \subseteq Int /\ IsFiniteSet(cand) /\ cand # {}
  <2>1. IsFiniteSet({it.y} \cup bottoms)
    BY <1>3, FiniteWithOne
  <2>2. cand \subseteq {it.y} \cup bottoms
    OBVIOUS
  <2>3. IsFiniteSet(cand)
    <3> HIDE DEF cand, bottoms
    <3> QED BY <2>1, <2>2, FS_Subset
  <2> DEFINE m == Max({it.y} \cup bottoms)
  <2>4. m \in {it.y} \cup bottoms /\ \A b \in {it.y} \cup bottoms : b <= m
    <3> HIDE DEF bottoms
    <3> QED BY <1>2, <1>3, <2>1, MaxOf
  <2>5. m \in Int /\ m >= it.y /\ \A p \in S : p.y + p.h <= m
    <3> HIDE DEF m
    <3> QED BY <1>2, <1>3, <2>4
  <2>6. Free(m)
    <3> HIDE DEF m
    <3> QED BY <1>2, <1>4, <2>5
  <2>7. m \in cand
    <3> HIDE DEF m
    <3> QED BY <2>4, <2>5, <2>6
  <2> QED BY <1>2, <1>3, <2>2, <2>3, <2>7
<1>6. yy \in cand /\ \A r \in cand : yy <= r
  <2> HIDE DEF cand
  <2> QED BY <1>5, MinOf
<1>7. yy \in Int /\ yy >= it.y /\ yy >= 0 /\ Free(yy)
  <2> HIDE DEF yy
  <2> QED BY <1>2, <1>5, <1>6
<1>8. /\ {0} \cup edges \subseteq Int /\ IsFiniteSet({0} \cup edges)
  <2>1. above \in SUBSET S
    OBVIOUS
  <2>2. IsFiniteSet(edges) /\ edges \subseteq Int
    <3> HIDE DEF above
    <3> QED BY <2>1, EdgesFinite
  <2> HIDE DEF edges
  <2>3. {0} \cup edges \subseteq Int
    BY <2>2
  <2>4. IsFiniteSet({0} \cup edges)
    BY <2>2, FiniteWithOne
  <2> QED BY <2>3, <2>4
<1>9. Y \in {0} \cup edges /\ \A e \in {0} \cup edges : e <= Y
  <2> HIDE DEF edges
  <2> QED BY <1>8, MaxOf
<1>10. Y \in Int /\ 0 <= Y /\ Y <= yy
  <2>1. \A e \in edges : e <= yy
    <3> HIDE DEF yy
    <3> QED OBVIOUS
  <2> HIDE DEF edges, yy, Y
  <2> QED BY <1>7, <1>8, <1>9, <2>1
<1>11. Free(Y)
  <2> SUFFICES ASSUME NEW p \in S, Collides(p, [it EXCEPT !.y = Y]) PROVE FALSE
    OBVIOUS
  <2>1. p.id # it.id /\ SharesColumns(p, it) /\ p.y < Y + it.h /\ p.y + p.h > Y
    <3> HIDE DEF Y
    <3> QED BY <1>4, <1>10
  <2>2. ~(p.y < yy + it.h /\ p.y + p.h > yy)
    <3> HIDE DEF yy
    <3> QED BY <1>4, <1>7, <2>1
  <2>3. p.y + p.h <= yy => p.y + p.h <= Y
    <3>1. p.y + p.h <= yy => p.y + p.h \in edges
      <4> HIDE DEF yy
      <4> QED BY <2>1
    <3> HIDE DEF edges, yy, Y
    <3> QED BY <1>9, <3>1
  <2> HIDE DEF yy, Y
  <2> QED BY <1>2, <1>7, <1>10, <2>1, <2>2, <2>3
<1>12. RestsOn(At(it, Y), S)
  <2>1. CASE Y = 0
    BY <2>1, <1>10, AtTile DEF RestsOn
  <2>2. CASE Y \in edges
    <3>1. PICK p \in S : p.id # it.id /\ SharesColumns(p, it) /\ p.y + p.h = Y
      <4> HIDE DEF Y, yy
      <4> QED BY <2>2
    <3>2. p.id # At(it, Y).id /\ SharesColumns(p, At(it, Y)) /\ p.y + p.h = At(it, Y).y
      <4> HIDE DEF Y
      <4> QED BY <3>1, <1>10, AtTile DEF SharesColumns
    <3> HIDE DEF Y
    <3> QED BY <3>2 DEF RestsOn
  <2> HIDE DEF Y, edges
  <2> QED BY <1>9, <2>1, <2>2
<1>13. (\A p \in S : ~Collides(p, it)) => Y <= it.y /\ BelowAll(Y, it, S)
  <2> SUFFICES ASSUME \A p \in S : ~Collides(p, it) PROVE Y <= it.y /\ BelowAll(Y, it, S)
    OBVIOUS
  <2>1. [it EXCEPT !.y = it.y] = it
    BY DEF Tile
  <2>2. it.y \in cand
    BY <1>2, <2>1
  <2>3. yy = it.y
    <3> HIDE DEF yy, cand
    <3> QED BY <1>2, <1>6, <1>7, <2>2
  <2>4. BelowAll(Y, it, S)
    <3> SUFFICES ASSUME NEW p \in S, p.id # it.id, SharesColumns(p, it), p.y + p.h <= it.y
                 PROVE  p.y + p.h <= Y
      BY DEF BelowAll
    <3>1. p.y + p.h \in edges
      <4> HIDE DEF yy
      <4> QED BY <2>3
    <3> HIDE DEF edges, Y
    <3> QED BY <1>9, <3>1
  <2> HIDE DEF yy, Y, cand
  <2> QED BY <1>2, <1>7, <1>10, <2>3, <2>4
<1>14. Sits(At(it, Y), S)
  <2> HIDE DEF Y
  <2> QED BY <1>11, <1>12 DEF Sits, At
<1> HIDE DEF Y
<1> QED BY <1>1, <1>10, <1>13, <1>14

Upright(s) == \A k \in DOMAIN s : s[k].y >= 0

\* The first k tiles of s, each where it sits on those before it; a tile that
\* nothing before it is in the way of does not go down.
Settled(r, s, k) ==
  /\ r \in Seq(Tile) /\ Len(r) = k
  /\ \A i \in 1 .. k :
       /\ r[i].y >= 0 /\ r[i] = At(s[i], r[i].y)
       /\ Sits(r[i], {r[j] : j \in 1 .. i - 1})
       /\ (\A j \in 1 .. i - 1 : ~Collides(r[j], s[i])) =>
            r[i].y <= s[i].y /\ BelowAll(r[i].y, s[i], {r[j] : j \in 1 .. i - 1})

LEMMA SettledOneMore ==
  ASSUME NEW s \in Seq(Tile), Upright(s), NEW k \in 1 .. Len(s), NEW r, Settled(r, s, k - 1)
  PROVE  Settled(Append(r, Settle(r, s[k])), s, k)
<1>1. r \in Seq(Tile) /\ Len(r) = k - 1 /\ s[k] \in Tile /\ s[k].y >= 0 /\ k \in Nat /\ k >= 1
  BY DEF Settled, Upright
<1>2. PICK y \in Int : /\ Settle(r, s[k]) = At(s[k], y) /\ y >= 0
                       /\ Sits(At(s[k], y), ToSet(r))
                       /\ (\A p \in ToSet(r) : ~Collides(p, s[k])) =>
                            y <= s[k].y /\ BelowAll(y, s[k], ToSet(r))
  BY <1>1, SettleSits
<1> DEFINE q == At(s[k], y)
           t == Append(r, q)
<1>3. q \in Tile /\ q.y = y /\ q = At(s[k], q.y)
  BY <1>1, AtTile
<1> HIDE DEF q
<1>4. /\ t \in Seq(Tile) /\ Len(t) = k /\ t[k] = q
      /\ \A i \in 1 .. k - 1 : t[i] = r[i]
  BY <1>1, <1>3
<1> HIDE DEF t
<1>5. ToSet(r) = {t[j] : j \in 1 .. k - 1}
  BY <1>1, <1>4 DEF ToSet
<1>6. \A i \in 1 .. k - 1 : {t[j] : j \in 1 .. i - 1} = {r[j] : j \in 1 .. i - 1}
  BY <1>1, <1>4
<1>7. ASSUME NEW i \in 1 .. k
      PROVE  /\ t[i].y >= 0 /\ t[i] = At(s[i], t[i].y)
             /\ Sits(t[i], {t[j] : j \in 1 .. i - 1})
             /\ (\A j \in 1 .. i - 1 : ~Collides(t[j], s[i])) =>
                  t[i].y <= s[i].y /\ BelowAll(t[i].y, s[i], {t[j] : j \in 1 .. i - 1})
  <2>1. CASE i = k
    <3>1. Sits(t[k], {t[j] : j \in 1 .. k - 1})
      BY <1>2, <1>4, <1>5 DEF q
    <3>2. (\A j \in 1 .. k - 1 : ~Collides(t[j], s[k])) =>
            y <= s[k].y /\ BelowAll(y, s[k], {t[j] : j \in 1 .. k - 1})
      BY <1>2, <1>5
    <3> QED BY <2>1, <3>1, <3>2, <1>2, <1>3, <1>4
  <2>2. CASE i # k
    <3>1. i \in 1 .. k - 1 /\ t[i] = r[i] /\ \A j \in 1 .. i - 1 : t[j] = r[j]
      BY <1>1, <1>4, <2>2
    <3>2. /\ r[i].y >= 0 /\ r[i] = At(s[i], r[i].y)
          /\ Sits(r[i], {r[j] : j \in 1 .. i - 1})
          /\ (\A j \in 1 .. i - 1 : ~Collides(r[j], s[i])) =>
            r[i].y <= s[i].y /\ BelowAll(r[i].y, s[i], {r[j] : j \in 1 .. i - 1})
      BY <3>1 DEF Settled
    <3> QED BY <3>1, <3>2, <1>6
  <2> QED BY <2>1, <2>2
<1>8. Settled(t, s, k)
  BY <1>4, <1>7 DEF Settled
<1> QED
  BY <1>2, <1>8 DEF t, q

LEMMA SettleAllSettles ==
  ASSUME NEW s \in Seq(Tile), Upright(s)
  PROVE  Settled(SettleAll(s), s, Len(s))
<1>1. ASSUME NEW p \in Seq(Tile), NEW k \in 1 .. Len(s) PROVE Settle(p, s[k]) \in Tile
  <2>1. s[k] \in Tile /\ s[k].y >= 0
    BY DEF Upright
  <2>2. PICK y \in Int : Settle(p, s[k]) = At(s[k], y)
    BY <2>1, SettleSits
  <2> QED BY <2>1, <2>2, AtTile
<1>2. PICK f \in [0 .. Len(s) -> Seq(Tile)] :
        /\ SettleAll(s) = f[Len(s)] /\ f[0] = <<>>
        /\ \A k \in 1 .. Len(s) : f[k] = Append(f[k - 1], Settle(f[k - 1], s[k]))
  BY <1>1, SettleFold
<1> DEFINE S == {k \in 0 .. Len(s) : Settled(f[k], s, k)}
<1>0. Len(s) \in Nat
  OBVIOUS
<1>3. 0 \in S
  <2>1. Settled(<<>>, s, 0)
    BY DEF Settled
  <2> QED BY <1>0, <1>2, <2>1
<1>4. ASSUME NEW k \in 0 .. Len(s) - 1, k \in S PROVE k + 1 \in S
  <2>1. k + 1 \in 1 .. Len(s) /\ (k + 1) - 1 = k
    BY <1>0
  <2>2. Settled(f[k], s, (k + 1) - 1)
    BY <1>4, <2>1
  <2>3. Settled(Append(f[k], Settle(f[k], s[k + 1])), s, k + 1)
    BY <2>1, <2>2, SettledOneMore
  <2>4. f[k + 1] = Append(f[k], Settle(f[k], s[k + 1]))
    BY <1>2, <2>1
  <2>5. Settled(f[k + 1], s, k + 1)
    BY <2>3, <2>4
  <2> QED BY <1>0, <2>1, <2>5
<1>5. 0 .. Len(s) \subseteq S
  <2> HIDE DEF S
  <2> QED BY <1>0, <1>3, <1>4, InductionUpTo
<1>6. Len(s) \in S
  <2> HIDE DEF S
  <2> QED BY <1>0, <1>5
<1> QED
  BY <1>2, <1>6

---------------------------------------------------------------------------
(* A board: no two tiles on a cell, none that could float up *)

Apart(s) == \A i, j \in DOMAIN s : ~Collides(s[i], s[j])
Resting(s) == \A i \in DOMAIN s : RestsOn(s[i], ToSet(s))

LEMMA CollidesBothWays ==
  ASSUME NEW a \in Tile, NEW b \in Tile
  PROVE  Collides(a, b) <=> Collides(b, a)
BY TileFields DEF Collides, SharesColumns

LEMMA SettledIsBoard ==
  ASSUME NEW s \in Seq(Tile), NEW r, Settled(r, s, Len(s))
  PROVE  r \in Seq(Tile) /\ Len(r) = Len(s) /\ Apart(r) /\ Resting(r) /\ Upright(r)
<1>1. /\ r \in Seq(Tile) /\ Len(r) = Len(s) /\ DOMAIN r = 1 .. Len(r) /\ Len(r) \in Nat
      /\ \A i \in DOMAIN r : r[i] \in Tile /\ r[i].y >= 0 /\ Sits(r[i], {r[j] : j \in 1 .. i - 1})
  <2>1. /\ r \in Seq(Tile) /\ Len(r) = Len(s)
        /\ \A i \in 1 .. Len(s) : r[i].y >= 0 /\ Sits(r[i], {r[j] : j \in 1 .. i - 1})
    BY DEF Settled
  <2>2. DOMAIN r = 1 .. Len(r) /\ Len(r) \in Nat /\ \A i \in DOMAIN r : r[i] \in Tile
    BY <2>1
  <2> QED BY <2>1, <2>2
<1>2. \A i \in DOMAIN r : {r[j] : j \in 1 .. i - 1} \subseteq ToSet(r)
  BY <1>1 DEF ToSet
<1>3. Resting(r)
  BY <1>1, <1>2 DEF Resting, Sits, RestsOn
<1>4. Apart(r)
  <2> SUFFICES ASSUME NEW i \in 1 .. Len(r), NEW j \in 1 .. Len(r) PROVE ~Collides(r[i], r[j])
    BY <1>1 DEF Apart
  <2>1. CASE i = j
    BY <2>1 DEF Collides
  <2>2. CASE i < j
    <3>1. i \in 1 .. j - 1
      BY <2>2
    <3> QED BY <1>1, <3>1 DEF Sits
  <2>3. CASE j < i
    <3>1. j \in 1 .. i - 1
      BY <2>3
    <3>2. ~Collides(r[j], r[i])
      BY <1>1, <3>1 DEF Sits
    <3> QED BY <1>1, <3>2, CollidesBothWays
  <2> QED BY <2>1, <2>2, <2>3
<1> QED
  BY <1>1, <1>3, <1>4 DEF Upright

---------------------------------------------------------------------------
(* Within the limits *)

Colcount == Nat \ {0}

Fits(p, cols) ==
  LET k == EffectiveConstraints(p.id, cols)
  IN  /\ p.x >= 0 /\ p.x + p.w <= cols
      /\ p.w \in k.minW .. k.maxW /\ p.h \in k.minH .. k.maxH

LEMMA ConstraintsConsistent ==
  ASSUME NEW t \in TileIds, NEW cols \in Colcount
  PROVE  LET k == EffectiveConstraints(t, cols)
         IN  /\ k.minW \in Nat \ {0} /\ k.minH \in Nat \ {0} /\ k.maxW \in Nat /\ k.maxH \in Nat
             /\ k.minW <= k.maxW /\ k.maxW <= cols /\ k.minH <= k.maxH
<1> DEFINE c == Limits[t]
<1>1. c.minW \in Nat \ {0} /\ c.minH \in Nat \ {0} /\ c.maxW \in Nat \ {0} /\ c.maxH \in Nat \ {0}
      /\ GRID_MAX_ROWS \in Nat \ {0} /\ cols \in Nat \ {0}
  BY GridAssumption DEF TileIds, Colcount
<1> HIDE DEF c
<1> DEFINE minW == Lesser(cols, Greater(1, c.minW))
           minH == Greater(1, c.minH)
<1>2. minW \in Nat \ {0} /\ minW <= cols /\ minH \in Nat \ {0}
  BY <1>1 DEF Lesser, Greater
<1>3. EffectiveConstraints(t, cols) =
        [minW |-> minW, minH |-> minH,
         maxW |-> Lesser(cols, Greater(minW, c.maxW)),
         maxH |-> Greater(minH, Lesser(GRID_MAX_ROWS, c.maxH))]
  BY DEF EffectiveConstraints, c
<1> HIDE DEF minW, minH
<1> QED BY <1>1, <1>2, <1>3 DEF Lesser, Greater

LEMMA ClampBetween ==
  ASSUME NEW v \in Int, NEW lo \in Int, NEW hi \in Int, lo <= hi
  PROVE  Clamp(v, lo, hi) \in lo .. hi
BY DEF Clamp, Lesser, Greater

LEMMA FitItemFits ==
  ASSUME NEW it \in Tile, NEW cols \in Colcount
  PROVE  LET q == FitItem(it, cols)
         IN  q \in Tile /\ q.id = it.id /\ q.y >= 0 /\ Fits(q, cols)
<1> DEFINE k == EffectiveConstraints(it.id, cols)
           w == Clamp(it.w, k.minW, k.maxW)
           h == Clamp(it.h, k.minH, k.maxH)
           x == Clamp(it.x, 0, cols - w)
           y == Clamp(it.y, 0, GRID_MAX_ROWS * 4)
           q == FitItem(it, cols)
<1>1. it.id \in TileIds /\ it.x \in Int /\ it.y \in Int /\ it.w \in Int /\ it.h \in Int
      /\ cols \in Nat \ {0} /\ GRID_MAX_ROWS \in Nat
  BY TileFields, GridAssumption DEF Colcount
<1>2. /\ k.minW \in Nat \ {0} /\ k.minH \in Nat \ {0} /\ k.maxW \in Nat /\ k.maxH \in Nat
      /\ k.minW <= k.maxW /\ k.maxW <= cols /\ k.minH <= k.maxH
  BY <1>1, ConstraintsConsistent
<1> HIDE DEF k
<1>3. w \in k.minW .. k.maxW /\ h \in k.minH .. k.maxH
  <2>1. k.minW \in Int /\ k.maxW \in Int /\ k.minH \in Int /\ k.maxH \in Int
    BY <1>2
  <2>2. w \in k.minW .. k.maxW
    BY <1>1, <1>2, <2>1 DEF Clamp, Lesser, Greater
  <2>3. h \in k.minH .. k.maxH
    BY <1>1, <1>2, <2>1 DEF Clamp, Lesser, Greater
  <2> QED BY <2>2, <2>3
<1> HIDE DEF w, h
<1>4. x \in 0 .. cols - w
  <2>1. w \in Int /\ 0 <= cols - w
    BY <1>1, <1>2, <1>3
  <2> QED BY <1>1, <2>1 DEF Clamp, Lesser, Greater
<1>5. y \in Int /\ y >= 0
  BY <1>1 DEF Clamp, Lesser, Greater
<1>6. q = [id |-> it.id, w |-> w, h |-> h, x |-> x, y |-> y]
  BY DEF FitItem, w, h, k
<1> HIDE DEF x, y, q
<1>7. q \in Tile /\ q.id = it.id /\ q.y = y /\ q.x = x /\ q.w = w /\ q.h = h
  BY <1>1, <1>2, <1>3, <1>4, <1>5, <1>6 DEF Tile, TileIds
<1>8. Fits(q, cols)
  BY <1>1, <1>2, <1>3, <1>4, <1>7 DEF Fits, k
<1> QED
  BY <1>5, <1>7, <1>8 DEF q

LEMMA AtFits ==
  ASSUME NEW t \in Tile, NEW r \in Int, NEW cols, Fits(t, cols)
  PROVE  Fits(At(t, r), cols)
BY AtTile DEF Fits

LEMMA FittedFits ==
  ASSUME NEW s \in Seq(Tile), NEW cols \in Colcount
  PROVE  LET r == Fitted(s, cols)
         IN  /\ r \in Seq(Tile) /\ Len(r) = Len(s) /\ Upright(r)
             /\ \A i \in 1 .. Len(s) : r[i] = FitItem(s[i], cols) /\ r[i].id = s[i].id /\ Fits(r[i], cols)
<1> DEFINE n == Len(s)
           f == [i \in 1 .. n |-> FitItem(s[i], cols)]
<1>1. n \in Nat /\ DOMAIN s = 1 .. n /\ \A i \in 1 .. n : s[i] \in Tile
  OBVIOUS
<1>2. \A i \in 1 .. n : f[i] \in Tile /\ f[i].id = s[i].id /\ f[i].y >= 0 /\ Fits(f[i], cols)
  BY <1>1, FitItemFits
<1>3. f \in [1 .. n -> Tile]
  BY <1>2
<1>4. Fitted(s, cols) = f
  <2>1. Fitted(s, cols) = <<>> \o f
    BY <1>1 DEF Fitted, Mapped
  <2> HIDE DEF f, n
  <2> QED BY <1>1, <1>3, <2>1, MappedIs
<1>5. f \in Seq(Tile) /\ Len(f) = n /\ DOMAIN f = 1 .. n
  <2> HIDE DEF f, n
  <2> QED BY <1>1, <1>3, MappedIs
<1> QED
  <2>1. \A i \in 1 .. n : f[i] = FitItem(s[i], cols)
    OBVIOUS
  <2> HIDE DEF f
  <2> QED BY <1>2, <1>4, <1>5, <2>1 DEF Upright

AllFit(s, cols) == \A i \in DOMAIN s : Fits(s[i], cols)

\* What the engine promises of a layout of the desktop and the tablet.
Board(s, cols) ==
  /\ s \in Seq(Tile) /\ Distinct(s) /\ Upright(s) /\ AllFit(s, cols)
  /\ Apart(s) /\ Resting(s)

SameIds(r, s) == Len(r) = Len(s) /\ \A i \in 1 .. Len(s) : r[i].id = s[i].id

LEMMA IdsOf ==
  ASSUME NEW s \in Seq(Tile)
  PROVE  /\ Ids(s) = {p.id : p \in ToSet(s)}
         /\ Ids(s) \subseteq TileIds
         /\ \A i \in 1 .. Len(s) : s[i].id \in Ids(s)
         /\ \A t \in Ids(s) : \E i \in 1 .. Len(s) : s[i].id = t
<1>1. DOMAIN s = 1 .. Len(s) /\ \A i \in 1 .. Len(s) : s[i] \in Tile
  OBVIOUS
<1> QED BY <1>1, TileFields DEF Ids, ToSet

LEMMA SameIdsIds ==
  ASSUME NEW s \in Seq(Tile), NEW r \in Seq(Tile), SameIds(r, s)
  PROVE  Ids(r) = Ids(s) /\ (Distinct(s) => Distinct(r))
<1>1. DOMAIN s = 1 .. Len(s) /\ DOMAIN r = 1 .. Len(s) /\ \A i \in 1 .. Len(s) : r[i].id = s[i].id
  BY DEF SameIds
<1> QED BY <1>1 DEF Ids, Distinct

LEMMA PermutedKeeps ==
  ASSUME NEW s \in Seq(Tile), NEW p, Permutes(p, Len(s))
  PROVE  LET r == Permuted(s, p)
         IN  /\ r \in Seq(Tile) /\ Len(r) = Len(s) /\ ToSet(r) = ToSet(s) /\ Ids(r) = Ids(s)
             /\ Distinct(s) => Distinct(r)
             /\ Upright(s) => Upright(r)
             /\ \A cols : AllFit(s, cols) => AllFit(r, cols)
<1> DEFINE r == Permuted(s, p)
           n == Len(s)
<1>1. n \in Nat /\ DOMAIN s = 1 .. n /\ \A i \in 1 .. n : s[i] \in Tile /\ p[i] \in 1 .. n
  <2>1. n \in Nat /\ DOMAIN s = 1 .. n /\ \A i \in 1 .. n : s[i] \in Tile
    OBVIOUS
  <2> QED BY <2>1 DEF Permutes
<1>2. r \in Seq(Tile) /\ Len(r) = n /\ DOMAIN r = 1 .. n /\ \A i \in 1 .. n : r[i] = s[p[i]]
  <2>1. r \in [1 .. n -> Tile] /\ r = [i \in 1 .. n |-> s[p[i]]]
    BY <1>1 DEF Permuted
  <2> HIDE DEF r, n
  <2> QED BY <1>1, <2>1
<1> HIDE DEF r
<1>3. ToSet(r) = ToSet(s)
  <2>1. ASSUME NEW i \in 1 .. n PROVE \E j \in 1 .. n : r[j] = s[i]
    <3>1. PICK j \in 1 .. n : p[j] = i
      BY DEF Permutes
    <3> QED BY <1>2, <3>1
  <2>2. ToSet(r) = {r[i] : i \in 1 .. n} /\ ToSet(s) = {s[i] : i \in 1 .. n}
    BY <1>1, <1>2 DEF ToSet
  <2> QED BY <1>1, <1>2, <2>1, <2>2
<1>4. Ids(r) = Ids(s)
  BY <1>2, <1>3, IdsOf
<1>5. ASSUME Distinct(s) PROVE Distinct(r)
  <2> SUFFICES ASSUME NEW i \in 1 .. n, NEW j \in 1 .. n, r[i].id = r[j].id PROVE i = j
    BY <1>2 DEF Distinct
  <2>1. p[i] = p[j]
    BY <1>1, <1>2, <1>5 DEF Distinct
  <2> QED BY <2>1 DEF Permutes
<1>6. Upright(s) => Upright(r)
  BY <1>1, <1>2 DEF Upright
<1>7. \A cols : AllFit(s, cols) => AllFit(r, cols)
  BY <1>1, <1>2 DEF AllFit
<1> QED
  BY <1>2, <1>3, <1>4, <1>5, <1>6, <1>7 DEF r, n

LEMMA Sweep ==
  ASSUME NEW s \in Seq(Tile), NEW cols, Upright(s), Distinct(s), AllFit(s, cols)
  PROVE  LET r == SettleAll(SortItems(s))
         IN  Board(r, cols) /\ Ids(r) = Ids(s) /\ Len(r) = Len(s)
<1> DEFINE u == SortItems(s)
           r == SettleAll(u)
           n == Len(s)
<1>1. PICK p : Permutes(p, n) /\ u = Permuted(s, p)
  BY SortItemsPermutes
<1>2. /\ u \in Seq(Tile) /\ Len(u) = n /\ Ids(u) = Ids(s)
      /\ Distinct(u) /\ Upright(u) /\ AllFit(u, cols)
  <2> HIDE DEF u
  <2> QED BY <1>1, PermutedKeeps
<1> HIDE DEF u
<1>3. Settled(r, u, n)
  BY <1>2, SettleAllSettles
<1>4. r \in Seq(Tile) /\ Len(r) = n /\ Apart(r) /\ Resting(r) /\ Upright(r)
  BY <1>2, <1>3, SettledIsBoard
<1> HIDE DEF r
<1>5. n \in Nat /\ DOMAIN r = 1 .. n /\ DOMAIN u = 1 .. n
      /\ \A i \in 1 .. n : r[i] \in Tile /\ u[i] \in Tile
  BY <1>2, <1>4
<1>6. \A i \in 1 .. n : r[i] = At(u[i], r[i].y) /\ r[i].y \in Int
  BY <1>3, <1>5, TileFields DEF Settled
<1>7. \A i \in 1 .. n : r[i].id = u[i].id /\ Fits(r[i], cols)
  <2> SUFFICES ASSUME NEW i \in 1 .. n PROVE r[i].id = u[i].id /\ Fits(r[i], cols)
    OBVIOUS
  <2>1. Fits(u[i], cols)
    BY <1>2, <1>5 DEF AllFit
  <2>2. u[i] \in Tile /\ r[i].y \in Int /\ r[i] = At(u[i], r[i].y)
    BY <1>5, <1>6
  <2>3. At(u[i], r[i].y).id = u[i].id
    BY <2>2, AtTile
  <2>4. Fits(At(u[i], r[i].y), cols)
    BY <2>1, <2>2, AtFits
  <2> QED BY <2>2, <2>3, <2>4
<1>8. Ids(r) = Ids(u) /\ Distinct(r)
  BY <1>2, <1>4, <1>7, SameIdsIds DEF SameIds
<1>9. AllFit(r, cols)
  BY <1>5, <1>7 DEF AllFit
<1> QED
  BY <1>2, <1>4, <1>8, <1>9 DEF Board, r, u

LEMMA TileOfIs ==
  ASSUME NEW s \in Seq(Tile), NEW t \in Ids(s)
  PROVE  /\ TileOf(s, t) \in ToSet(s) /\ TileOf(s, t) \in Tile /\ TileOf(s, t).id = t
         /\ Distinct(s) => \A e \in ToSet(s) : e.id = t => e = TileOf(s, t)
<1>1. \E i \in DOMAIN s : s[i].id = t
  BY DEF Ids
<1> DEFINE i == CHOOSE i \in DOMAIN s : s[i].id = t
<1>2. i \in DOMAIN s /\ s[i].id = t
  BY <1>1
<1>3. TileOf(s, t) = s[i]
  BY DEF TileOf
<1> HIDE DEF i
<1>4. s[i] \in ToSet(s) /\ s[i] \in Tile
  BY <1>2 DEF ToSet
<1>5. Distinct(s) => \A e \in ToSet(s) : e.id = t => e = s[i]
  BY <1>2 DEF Distinct, ToSet
<1> QED
  BY <1>2, <1>3, <1>4, <1>5

LEMMA RestoreOrderKeeps ==
  ASSUME NEW items \in Seq(Tile), NEW placed \in Seq(Tile)
  PROVE  LET r == RestoreOrder(items, placed)
         IN  /\ r \in Seq(Tile) /\ SameIds(r, items)
             /\ \A i \in 1 .. Len(items) : items[i].id \in Ids(placed) =>
                  r[i] \in ToSet(placed) /\ r[i] = TileOf(placed, items[i].id)
<1> DEFINE n == Len(items)
           f == [i \in 1 .. n |-> IF items[i].id \in Ids(placed) THEN TileOf(placed, items[i].id)
                                  ELSE items[i]]
<1>1. n \in Nat /\ DOMAIN items = 1 .. n /\ \A i \in 1 .. n : items[i] \in Tile
  OBVIOUS
<1>2. \A i \in 1 .. n : items[i].id \in Ids(placed) =>
        /\ TileOf(placed, items[i].id) \in ToSet(placed) /\ TileOf(placed, items[i].id) \in Tile
        /\ TileOf(placed, items[i].id).id = items[i].id
  BY TileOfIs
<1>3. /\ f \in [1 .. n -> Tile]
      /\ \A i \in 1 .. n : /\ f[i].id = items[i].id
                           /\ items[i].id \in Ids(placed) =>
                                f[i] \in ToSet(placed) /\ f[i] = TileOf(placed, items[i].id)
  BY <1>1, <1>2
<1>4. RestoreOrder(items, placed) = <<>> \o f
  BY <1>1 DEF RestoreOrder, Mapped
<1> HIDE DEF f
<1>5. f \in Seq(Tile) /\ Len(f) = n /\ <<>> \o f = f
  BY <1>1, <1>3, MappedIs
<1> QED
  BY <1>3, <1>4, <1>5 DEF SameIds

LEMMA RestoreOrderPermutes ==
  ASSUME NEW items \in Seq(Tile), NEW placed \in Seq(Tile), Distinct(items), Distinct(placed),
         Ids(placed) = Ids(items)
  PROVE  ToSet(RestoreOrder(items, placed)) = ToSet(placed)
<1> DEFINE r == RestoreOrder(items, placed)
           n == Len(items)
<1>1. /\ r \in Seq(Tile) /\ SameIds(r, items)
      /\ \A i \in 1 .. n : items[i].id \in Ids(placed) =>
                  r[i] \in ToSet(placed) /\ r[i] = TileOf(placed, items[i].id)
  BY RestoreOrderKeeps
<1> HIDE DEF r
<1>2. DOMAIN r = 1 .. n /\ \A i \in 1 .. n : items[i].id \in Ids(placed)
  BY <1>1, IdsOf DEF SameIds
<1>3. ToSet(r) \subseteq ToSet(placed)
  BY <1>1, <1>2 DEF ToSet
<1>4. ASSUME NEW e \in ToSet(placed) PROVE e \in ToSet(r)
  <2>1. e.id \in Ids(items)
    BY IdsOf
  <2>2. PICK i \in 1 .. n : items[i].id = e.id
    BY <2>1, IdsOf
  <2>3. r[i] = e
    BY <1>1, <1>2, <2>2, TileOfIs
  <2> QED BY <1>2, <2>3 DEF ToSet
<1> QED
  BY <1>3, <1>4 DEF r

LEMMA BoardInAnyOrder ==
  ASSUME NEW s, NEW cols, Board(s, cols), NEW r \in Seq(Tile), Distinct(r), ToSet(r) = ToSet(s)
  PROVE  Board(r, cols)
<1>1. /\ s \in Seq(Tile) /\ DOMAIN s = 1 .. Len(s) /\ DOMAIN r = 1 .. Len(r)
  BY DEF Board
<1>2. \A i \in DOMAIN r : \E j \in DOMAIN s : r[i] = s[j]
  BY <1>1 DEF ToSet
<1> QED
  BY <1>1, <1>2 DEF Board, Upright, AllFit, Apart, Resting

LEMMA CompactIsBoard ==
  ASSUME NEW items \in Seq(Tile), Distinct(items), NEW cols \in Colcount
  PROVE  Board(Compact(items, cols), cols) /\ SameIds(Compact(items, cols), items)
<1> DEFINE fit   == Fitted(items, cols)
           once  == SettleAll(SortItems(fit))
           again == SettleAll(SortItems(once))
           r     == RestoreOrder(items, again)
<1>1. fit \in Seq(Tile) /\ Upright(fit) /\ Distinct(fit) /\ AllFit(fit, cols) /\ Ids(fit) = Ids(items)
  <2>1. /\ fit \in Seq(Tile) /\ Len(fit) = Len(items) /\ Upright(fit)
        /\ \A i \in 1 .. Len(items) : fit[i].id = items[i].id /\ Fits(fit[i], cols)
    BY FittedFits
  <2> HIDE DEF fit
  <2>2. DOMAIN fit = 1 .. Len(items) /\ SameIds(fit, items)
    BY <2>1 DEF SameIds
  <2> QED BY <2>1, <2>2, SameIdsIds DEF AllFit
<1> HIDE DEF fit
<1>2. Board(once, cols) /\ Ids(once) = Ids(fit)
  BY <1>1, Sweep
<1> HIDE DEF once
<1>3. Board(again, cols) /\ Ids(again) = Ids(once)
  BY <1>2, Sweep DEF Board
<1> HIDE DEF again
<1>4. Compact(items, cols) = r
  BY DEF Compact, again, once, fit
<1>5. again \in Seq(Tile) /\ Distinct(again) /\ Ids(again) = Ids(items)
  BY <1>1, <1>2, <1>3 DEF Board
<1>6. r \in Seq(Tile) /\ SameIds(r, items) /\ Distinct(r)
  <2>1. r \in Seq(Tile) /\ SameIds(r, items)
    BY <1>5, RestoreOrderKeeps
  <2> HIDE DEF r
  <2> QED BY <2>1, SameIdsIds
<1>7. ToSet(r) = ToSet(again)
  BY <1>5, RestoreOrderPermutes
<1> HIDE DEF r
<1>8. Board(r, cols)
  BY <1>3, <1>6, <1>7, BoardInAnyOrder
<1> QED
  BY <1>4, <1>6, <1>8

---------------------------------------------------------------------------
(* Filters *)

\* r has the elements of S among the first k of s; m says where they come from.
PicksBy(m, r, s, S, k) ==
  /\ m \in [1 .. Len(r) -> 1 .. k]
  /\ \A i \in 1 .. Len(r) : r[i] = s[m[i]] /\ s[m[i]] \in S
  /\ \A i, j \in 1 .. Len(r) : i < j => m[i] < m[j]
  /\ \A l \in 1 .. k : s[l] \in S => \E i \in 1 .. Len(r) : m[i] = l

LEMMA PicksOneMore ==
  ASSUME NEW E, NEW s \in Seq(E), NEW S, NEW k \in 1 .. Len(s), NEW r \in Seq(E),
         NEW m, PicksBy(m, r, s, S, k - 1)
  PROVE  LET t == IF s[k] \in S THEN Append(r, s[k]) ELSE r
         IN  \E w : PicksBy(w, t, s, S, k)
<1> DEFINE n == Len(r)
<1>1. k \in Nat /\ k >= 1 /\ n \in Nat /\ s[k] \in E
  OBVIOUS
<1>2. /\ m \in [1 .. n -> 1 .. k - 1]
      /\ \A i \in 1 .. n : r[i] = s[m[i]] /\ s[m[i]] \in S
      /\ \A i, j \in 1 .. n : i < j => m[i] < m[j]
      /\ \A l \in 1 .. k - 1 : s[l] \in S => \E i \in 1 .. n : m[i] = l
  BY DEF PicksBy
<1>3. CASE s[k] \in S
  <2> DEFINE t == Append(r, s[k])
             w == [i \in 1 .. n + 1 |-> IF i = n + 1 THEN k ELSE m[i]]
  <2>1. Len(t) = n + 1 /\ t[n + 1] = s[k] /\ \A i \in 1 .. n : t[i] = r[i]
    OBVIOUS
  <2> HIDE DEF t, n
  <2>2. w[n + 1] = k /\ \A i \in 1 .. n : w[i] = m[i]
    BY <1>1
  <2>3. w \in [1 .. n + 1 -> 1 .. k]
    BY <1>1, <1>2
  <2> HIDE DEF w
  <2>4. \A i \in 1 .. n + 1 : t[i] = s[w[i]] /\ s[w[i]] \in S
    BY <1>1, <1>2, <1>3, <2>1, <2>2
  <2>5. \A i, j \in 1 .. n + 1 : i < j => w[i] < w[j]
    <3> SUFFICES ASSUME NEW i \in 1 .. n + 1, NEW j \in 1 .. n + 1, i < j PROVE w[i] < w[j]
      OBVIOUS
    <3>1. i \in 1 .. n /\ m[i] \in 1 .. k - 1 /\ w[i] = m[i]
      <4>1. i \in 1 .. n
        BY <1>1
      <4> QED BY <1>2, <2>2, <4>1
    <3>2. CASE j = n + 1
      BY <1>1, <2>2, <3>1, <3>2
    <3>3. CASE j # n + 1
      <4>1. j \in 1 .. n /\ w[j] = m[j]
        BY <1>1, <2>2, <3>3
      <4> QED BY <1>2, <3>1, <4>1
    <3> QED BY <3>2, <3>3
  <2>6. \A l \in 1 .. k : s[l] \in S => \E i \in 1 .. n + 1 : w[i] = l
    <3> SUFFICES ASSUME NEW l \in 1 .. k, s[l] \in S PROVE \E i \in 1 .. n + 1 : w[i] = l
      OBVIOUS
    <3>1. CASE l = k
      BY <1>1, <2>2, <3>1
    <3>2. CASE l # k
      <4>1. PICK i \in 1 .. n : m[i] = l
        BY <1>1, <1>2, <3>2
      <4> QED BY <1>1, <2>2, <4>1
    <3> QED BY <3>1, <3>2
  <2>7. PicksBy(w, t, s, S, k)
    BY <2>1, <2>3, <2>4, <2>5, <2>6 DEF PicksBy
  <2> QED BY <1>3, <2>7 DEF t
<1>4. CASE s[k] \notin S
  <2>1. m \in [1 .. n -> 1 .. k]
    BY <1>1, <1>2
  <2>2. \A l \in 1 .. k : s[l] \in S => \E i \in 1 .. n : m[i] = l
    <3> SUFFICES ASSUME NEW l \in 1 .. k, s[l] \in S PROVE \E i \in 1 .. n : m[i] = l
      OBVIOUS
    <3>1. l \in 1 .. k - 1
      BY <1>1, <1>4
    <3> QED BY <1>2, <3>1
  <2>3. PicksBy(m, r, s, S, k)
    BY <1>2, <2>1, <2>2 DEF PicksBy
  <2> QED BY <1>4, <2>3
<1> QED BY <1>3, <1>4

LEMMA PickedPicks ==
  ASSUME NEW E, NEW s \in Seq(E), NEW S
  PROVE  /\ Picked(s, S) \in Seq(E)
         /\ \E m : PicksBy(m, Picked(s, S), s, S, Len(s))
<1>0. Len(s) \in Nat
  OBVIOUS
<1>1. PICK f \in [0 .. Len(s) -> Seq(E)] :
        /\ Picked(s, S) = f[Len(s)] /\ f[0] = <<>>
        /\ \A k \in 1 .. Len(s) : f[k] = IF s[k] \in S THEN Append(f[k - 1], s[k]) ELSE f[k - 1]
  BY PickedFold
<1> DEFINE W(k) == \E m : PicksBy(m, f[k], s, S, k)
           T == {k \in 0 .. Len(s) : W(k)}
<1>2. 0 \in T
  <2>1. PicksBy(<<>>, <<>>, s, S, 0)
    <3>1. <<>> \in [1 .. 0 -> 1 .. 0] /\ Len(<<>>) = 0
      OBVIOUS
    <3> QED BY <3>1 DEF PicksBy
  <2> QED BY <1>0, <1>1, <2>1
<1>3. ASSUME NEW k \in 0 .. Len(s) - 1, k \in T PROVE k + 1 \in T
  <2>1. k + 1 \in 1 .. Len(s) /\ (k + 1) - 1 = k /\ f[k] \in Seq(E)
    BY <1>0
  <2>2. PICK m : PicksBy(m, f[k], s, S, (k + 1) - 1)
    BY <1>3, <2>1
  <2>3. f[k + 1] = IF s[k + 1] \in S THEN Append(f[k], s[k + 1]) ELSE f[k]
    BY <1>1, <2>1
  <2>4. W(k + 1)
    <3>1. \E w : PicksBy(w, IF s[k + 1] \in S THEN Append(f[k], s[k + 1]) ELSE f[k], s, S, k + 1)
      BY <2>1, <2>2, PicksOneMore
    <3> QED BY <2>3, <3>1
  <2> HIDE DEF W
  <2> QED BY <1>0, <2>1, <2>4
<1>4. 0 .. Len(s) \subseteq T
  <2> HIDE DEF T
  <2> QED BY <1>0, <1>2, <1>3, InductionUpTo
<1>5. Len(s) \in T
  <2> HIDE DEF T
  <2> QED BY <1>0, <1>4
<1>6. f[Len(s)] \in Seq(E)
  BY <1>0
<1> QED
  BY <1>1, <1>5, <1>6

NoRepeats(s) == \A i, j \in DOMAIN s : s[i] = s[j] => i = j

LEMMA PickedKeeps ==
  ASSUME NEW E, NEW s \in Seq(E), NEW S
  PROVE  LET r == Picked(s, S)
         IN  /\ r \in Seq(E) /\ ToSet(r) = ToSet(s) \cap S
             /\ NoRepeats(s) => NoRepeats(r)
<1> DEFINE r == Picked(s, S)
<1>1. PICK m : r \in Seq(E) /\ PicksBy(m, r, s, S, Len(s))
  BY PickedPicks
<1> HIDE DEF r
<1>2. /\ DOMAIN r = 1 .. Len(r) /\ DOMAIN s = 1 .. Len(s) /\ Len(s) \in Nat /\ Len(r) \in Nat
  BY <1>1
<1>3. /\ \A i \in 1 .. Len(r) : m[i] \in 1 .. Len(s) /\ r[i] = s[m[i]] /\ s[m[i]] \in S
      /\ \A i, j \in 1 .. Len(r) : i < j => m[i] < m[j]
      /\ \A l \in 1 .. Len(s) : s[l] \in S => \E i \in 1 .. Len(r) : m[i] = l
  BY <1>1 DEF PicksBy
<1>4. ToSet(r) = ToSet(s) \cap S
  <2>1. ASSUME NEW e \in ToSet(r) PROVE e \in ToSet(s) \cap S
    BY <1>2, <1>3 DEF ToSet
  <2>2. ASSUME NEW e \in ToSet(s) \cap S PROVE e \in ToSet(r)
    <3>1. PICK l \in 1 .. Len(s) : s[l] = e
      BY <1>2 DEF ToSet
    <3>2. PICK i \in 1 .. Len(r) : m[i] = l
      BY <1>3, <3>1
    <3> QED BY <1>2, <1>3, <3>1, <3>2 DEF ToSet
  <2> QED BY <2>1, <2>2
<1>5. ASSUME NoRepeats(s) PROVE NoRepeats(r)
  <2> SUFFICES ASSUME NEW i \in 1 .. Len(r), NEW j \in 1 .. Len(r), r[i] = r[j], i < j PROVE FALSE
    BY <1>2 DEF NoRepeats
  <2>1. m[i] \in 1 .. Len(s) /\ m[j] \in 1 .. Len(s) /\ m[i] < m[j] /\ s[m[i]] = s[m[j]]
    BY <1>3
  <2>2. m[i] = m[j]
    BY <1>2, <1>5, <2>1 DEF NoRepeats
  <2> QED BY <2>1, <2>2
<1> QED
  BY <1>1, <1>4, <1>5 DEF r

\* In a list without repetitions, the ids are those of the set.
LEMMA DistinctBySet ==
  ASSUME NEW s \in Seq(Tile)
  PROVE  /\ Distinct(s) => NoRepeats(s) /\ \A p, q \in ToSet(s) : p.id = q.id => p = q
         /\ NoRepeats(s) /\ (\A p, q \in ToSet(s) : p.id = q.id => p = q) => Distinct(s)
<1>1. DOMAIN s = 1 .. Len(s)
  OBVIOUS
<1> QED BY <1>1 DEF Distinct, NoRepeats, ToSet

LEMMA PickedTiles ==
  ASSUME NEW s \in Seq(Tile), NEW S
  PROVE  LET r == Picked(s, S)
         IN  /\ r \in Seq(Tile) /\ ToSet(r) = ToSet(s) \cap S
             /\ Distinct(s) => Distinct(r)
<1> DEFINE r == Picked(s, S)
<1>1. r \in Seq(Tile) /\ ToSet(r) = ToSet(s) \cap S /\ (NoRepeats(s) => NoRepeats(r))
  BY PickedKeeps
<1> HIDE DEF r
<1>2. ASSUME Distinct(s) PROVE Distinct(r)
  BY <1>1, <1>2, DistinctBySet
<1> QED BY <1>1, <1>2 DEF r

LEMMA WithoutKeeps ==
  ASSUME NEW s \in Seq(Tile), NEW t
  PROVE  LET r == Without(s, t)
         IN  /\ r \in Seq(Tile) /\ Ids(r) = Ids(s) \ {t} /\ (Distinct(s) => Distinct(r))
             /\ ToSet(r) = {p \in ToSet(s) : p.id # t}
<1> DEFINE r == Without(s, t)
<1>1. r \in Seq(Tile) /\ ToSet(r) = ToSet(s) \cap {p \in ToSet(s) : p.id # t}
      /\ (Distinct(s) => Distinct(r))
  BY PickedTiles DEF Without
<1> HIDE DEF r
<1>2. Ids(r) = {p.id : p \in ToSet(r)} /\ Ids(s) = {p.id : p \in ToSet(s)}
  BY <1>1, IdsOf
<1> QED BY <1>1, <1>2 DEF r

LEMMA KeepingKeeps ==
  ASSUME NEW s \in Seq(Tile), NEW S
  PROVE  LET r == Keeping(s, S)
         IN  /\ r \in Seq(Tile) /\ Ids(r) = Ids(s) \cap S /\ (Distinct(s) => Distinct(r))
             /\ ToSet(r) = {p \in ToSet(s) : p.id \in S}
<1> DEFINE r == Keeping(s, S)
<1>1. r \in Seq(Tile) /\ ToSet(r) = ToSet(s) \cap {p \in ToSet(s) : p.id \in S}
      /\ (Distinct(s) => Distinct(r))
  BY PickedTiles DEF Keeping
<1> HIDE DEF r
<1>2. Ids(r) = {p.id : p \in ToSet(r)} /\ Ids(s) = {p.id : p \in ToSet(s)}
  BY <1>1, IdsOf
<1> QED BY <1>1, <1>2 DEF r

---------------------------------------------------------------------------
(* A tile with priority *)

AroundBy(r, moved, s, k) ==
  /\ r \in Seq(Tile) /\ Len(r) = k + 1 /\ r[1] = moved
  /\ \A i \in 1 .. k :
       /\ r[i + 1] = At(s[i], r[i + 1].y) /\ r[i + 1].y >= 0
       /\ \A j \in 1 .. i : ~Collides(r[j], r[i + 1])

LEMMA LiftedIs ==
  ASSUME NEW raw \in Tile, raw.y >= 0, NEW placed, NEW moved \in Tile, NEW down
  PROVE  \E y \in Int : y >= 0 /\ Lifted(placed, moved, raw, down) = At(raw, y)
<1> DEFINE u == Greater(0, moved.y - raw.h)
<1>1. u \in Int /\ u >= 0 /\ raw.y \in Int
  BY TileFields DEF Greater
<1>2. raw = At(raw, raw.y)
  BY DEF At, Tile
<1>3. Lifted(placed, moved, raw, down) = At(raw, u) \/ Lifted(placed, moved, raw, down) = raw
  BY DEF Lifted, At
<1> HIDE DEF u
<1> QED BY <1>1, <1>2, <1>3

LEMMA SettleLifted ==
  ASSUME NEW raw \in Tile, raw.y >= 0, NEW placed \in Seq(Tile), NEW moved \in Tile, NEW down
  PROVE  \E y \in Int : /\ y >= 0
                        /\ Settle(placed, Lifted(placed, moved, raw, down)) = At(raw, y)
                        /\ \A p \in ToSet(placed) : ~Collides(p, At(raw, y))
<1>1. PICK u \in Int : u >= 0 /\ Lifted(placed, moved, raw, down) = At(raw, u)
  BY LiftedIs
<1>2. At(raw, u) \in Tile /\ At(raw, u).y >= 0
  BY <1>1, AtTile
<1>3. PICK y \in Int : /\ Settle(placed, At(raw, u)) = At(At(raw, u), y) /\ y >= 0
                       /\ Sits(At(At(raw, u), y), ToSet(placed))
  BY <1>2, SettleSits
<1>4. At(At(raw, u), y) = At(raw, y)
  BY DEF At, Tile
<1> QED BY <1>1, <1>3, <1>4 DEF Sits

LEMMA PlacedAroundKeeps ==
  ASSUME NEW s \in Seq(Tile), Upright(s), NEW moved \in Tile, NEW down
  PROVE  AroundBy(PlacedAround(moved, s, down), moved, s, Len(s))
<1> DEFINE n == Len(s)
           New(p, k) == Settle(p, Lifted(p, moved, s[k], down))
<1>1. n \in Nat /\ DOMAIN s = 1 .. n /\ \A k \in 1 .. n : s[k] \in Tile /\ s[k].y >= 0
  <2>1. n \in Nat /\ DOMAIN s = 1 .. n /\ \A k \in 1 .. n : s[k] \in Tile
    OBVIOUS
  <2> QED BY <2>1 DEF Upright
<1>2. \A p \in Seq(Tile), k \in 1 .. n :
        \E y \in Int : /\ y >= 0 /\ New(p, k) = At(s[k], y)
                       /\ \A q \in ToSet(p) : ~Collides(q, At(s[k], y))
  BY <1>1, SettleLifted
<1>3. \A p \in Seq(Tile), k \in 1 .. n : New(p, k) \in Tile
  <2> SUFFICES ASSUME NEW p \in Seq(Tile), NEW k \in 1 .. n PROVE New(p, k) \in Tile
    OBVIOUS
  <2>1. PICK y \in Int : New(p, k) = At(s[k], y)
    <3> HIDE DEF New
    <3> QED BY <1>2
  <2> HIDE DEF New
  <2> QED BY <1>1, <2>1, AtTile
<1>4. PICK f \in [0 .. n -> Seq(Tile)] :
        /\ PlacedAround(moved, s, down) = f[n] /\ f[0] = << moved >>
        /\ \A k \in 1 .. n : f[k] = Append(f[k - 1], New(f[k - 1], k))
  BY <1>3, PlacedFold
<1> HIDE DEF New
<1> DEFINE T == {k \in 0 .. n : AroundBy(f[k], moved, s, k)}
<1>5. 0 \in T
  <2>1. AroundBy(<< moved >>, moved, s, 0)
    BY DEF AroundBy
  <2>2. AroundBy(f[0], moved, s, 0)
    BY <1>4, <2>1
  <2> QED BY <1>1, <2>2
<1>6. ASSUME NEW k \in 0 .. n - 1, k \in T PROVE k + 1 \in T
  <2> DEFINE r == f[k]
  <2>1. k + 1 \in 1 .. n /\ (k + 1) - 1 = k /\ k \in Nat
    BY <1>1
  <2>2. /\ r \in Seq(Tile) /\ Len(r) = k + 1 /\ r[1] = moved
        /\ \A i \in 1 .. k :
             /\ r[i + 1] = At(s[i], r[i + 1].y) /\ r[i + 1].y >= 0
             /\ \A j \in 1 .. i : ~Collides(r[j], r[i + 1])
    BY <1>6 DEF AroundBy
  <2>3. PICK y \in Int : /\ y >= 0 /\ New(r, k + 1) = At(s[k + 1], y)
                         /\ \A q \in ToSet(r) : ~Collides(q, At(s[k + 1], y))
    BY <1>2, <2>1, <2>2
  <2> DEFINE q == At(s[k + 1], y)
             t == Append(r, q)
  <2>4. f[k + 1] = t
    BY <1>4, <2>1, <2>3
  <2>5. q \in Tile /\ q.y = y /\ q = At(s[k + 1], q.y)
    BY <1>1, <2>1, <2>3, AtTile
  <2> HIDE DEF q, r
  <2>6. t \in Seq(Tile) /\ Len(t) = k + 2 /\ t[k + 2] = q /\ \A i \in 1 .. k + 1 : t[i] = r[i]
    BY <2>1, <2>2, <2>5
  <2>7. \A j \in 1 .. k + 1 : r[j] \in ToSet(r)
    <3>1. DOMAIN r = 1 .. k + 1
      BY <2>2
    <3> QED BY <3>1 DEF ToSet
  <2> HIDE DEF t
  <2>8. ASSUME NEW i \in 1 .. k + 1
        PROVE  /\ t[i + 1] = At(s[i], t[i + 1].y) /\ t[i + 1].y >= 0
               /\ \A j \in 1 .. i : ~Collides(t[j], t[i + 1])
    <3>1. CASE i = k + 1
      <4>1. t[i + 1] = q
        BY <2>1, <2>6, <3>1
      <4>2. \A j \in 1 .. i : ~Collides(t[j], q)
        BY <2>3, <2>6, <2>7, <3>1 DEF q, r
      <4>3. s[i] = s[k + 1] /\ t[i + 1].y = q.y
        BY <3>1, <4>1
      <4>4. t[i + 1] = At(s[i], t[i + 1].y)
        BY <2>5, <4>1, <4>3
      <4>5. t[i + 1].y >= 0
        BY <2>3, <2>5, <4>3
      <4>6. \A j \in 1 .. i : ~Collides(t[j], t[i + 1])
        BY <4>1, <4>2
      <4> QED BY <4>4, <4>5, <4>6
    <3>2. CASE i # k + 1
      <4>1. i \in 1 .. k
        BY <2>1, <3>2
      <4>2. t[i + 1] = r[i + 1] /\ \A j \in 1 .. i : t[j] = r[j]
        BY <2>1, <2>6, <4>1
      <4> QED BY <2>2, <4>1, <4>2
    <3> QED BY <3>1, <3>2
  <2>9. AroundBy(t, moved, s, k + 1)
    <3>1. t[1] = moved /\ Len(t) = (k + 1) + 1
      BY <2>1, <2>2, <2>6
    <3> QED BY <2>6, <2>8, <3>1 DEF AroundBy
  <2> QED BY <1>1, <2>1, <2>4, <2>9
<1>7. 0 .. n \subseteq T
  <2> HIDE DEF T
  <2> QED BY <1>1, <1>5, <1>6, InductionUpTo
<1>8. n \in T
  <2> HIDE DEF T
  <2> QED BY <1>1, <1>7
<1> QED
  BY <1>4, <1>8

LEMMA AroundIds ==
  ASSUME NEW s \in Seq(Tile), NEW moved \in Tile, NEW r, AroundBy(r, moved, s, Len(s)),
         Distinct(s), moved.id \notin Ids(s)
  PROVE  r \in Seq(Tile) /\ Distinct(r) /\ Ids(r) = Ids(s) \cup {moved.id}
<1> DEFINE n == Len(s)
<1>1. /\ n \in Nat /\ DOMAIN s = 1 .. n /\ \A i \in 1 .. n : s[i] \in Tile
  OBVIOUS
<1>2. r \in Seq(Tile) /\ DOMAIN r = 1 .. n + 1 /\ r[1] = moved
  BY <1>1 DEF AroundBy
<1>3. \A i \in 1 .. n : r[i + 1].id = s[i].id
  <2> SUFFICES ASSUME NEW i \in 1 .. n PROVE r[i + 1].id = s[i].id
    OBVIOUS
  <2>1. r[i + 1] = At(s[i], r[i + 1].y)
    BY DEF AroundBy
  <2>2. r[i + 1] \in Tile
    BY <1>1, <1>2
  <2>3. r[i + 1].y \in Int /\ s[i] \in Tile
    BY <1>1, <2>2, TileFields
  <2>4. At(s[i], r[i + 1].y).id = s[i].id
    BY <2>3, AtTile
  <2> QED BY <2>1, <2>4
<1>4. \A i \in 2 .. n + 1 : r[i].id = s[i - 1].id /\ i - 1 \in 1 .. n
  <2> SUFFICES ASSUME NEW i \in 2 .. n + 1 PROVE r[i].id = s[i - 1].id /\ i - 1 \in 1 .. n
    OBVIOUS
  <2>1. i - 1 \in 1 .. n /\ (i - 1) + 1 = i
    BY <1>1
  <2> QED BY <1>3, <2>1
<1>5. \A i \in 1 .. n : s[i].id # moved.id
  BY IdsOf
<1>6. Distinct(r)
  <2> SUFFICES ASSUME NEW i \in 1 .. n + 1, NEW j \in 1 .. n + 1, r[i].id = r[j].id PROVE i = j
    BY <1>2 DEF Distinct
  <2>1. i = 1 \/ i \in 2 .. n + 1
    BY <1>1
  <2>2. j = 1 \/ j \in 2 .. n + 1
    BY <1>1
  <2>3. CASE i = 1 \/ j = 1
    BY <1>2, <1>4, <1>5, <2>1, <2>2, <2>3
  <2>4. CASE i \in 2 .. n + 1 /\ j \in 2 .. n + 1
    <3>1. i - 1 = j - 1
      BY <1>1, <1>4, <2>4 DEF Distinct
    <3> QED BY <2>4, <3>1
  <2> QED BY <2>1, <2>2, <2>3, <2>4
<1>7. Ids(r) = Ids(s) \cup {moved.id}
  <2>1. ASSUME NEW t \in Ids(r) PROVE t \in Ids(s) \cup {moved.id}
    <3>1. PICK i \in 1 .. n + 1 : r[i].id = t
      BY <1>2 DEF Ids
    <3>2. i = 1 \/ i \in 2 .. n + 1
      BY <1>1
    <3> QED BY <1>1, <1>2, <1>4, <3>1, <3>2 DEF Ids
  <2>2. ASSUME NEW t \in Ids(s) PROVE t \in Ids(r)
    <3>1. PICK i \in 1 .. n : s[i].id = t
      BY <1>1 DEF Ids
    <3>2. i + 1 \in DOMAIN r /\ r[i + 1].id = t
      BY <1>1, <1>2, <1>3, <3>1
    <3> QED BY <3>2 DEF Ids
  <2>3. moved.id \in Ids(r)
    BY <1>1, <1>2 DEF Ids
  <2> QED BY <2>1, <2>2, <2>3
<1> QED
  BY <1>2, <1>6, <1>7

LEMMA PriorityIsBoard ==
  ASSUME NEW items \in Seq(Tile), Distinct(items), NEW moved \in Tile, NEW cols \in Colcount,
         NEW down, moved.id \in Ids(items)
  PROVE  LET r == PlaceWithPriority(items, moved, cols, down)
         IN  Board(r, cols) /\ SameIds(r, items)
<1> DEFINE w == Without(items, moved.id)
           fit == Fitted(w, cols)
           others == SortItems(fit)
           around == PlacedAround(moved, others, down)
           packed == Compact(around, cols)
           r == PlaceWithPriority(items, moved, cols, down)
<1>1. w \in Seq(Tile) /\ Distinct(w) /\ Ids(w) = Ids(items) \ {moved.id}
  BY WithoutKeeps
<1> HIDE DEF w
<1>2. fit \in Seq(Tile) /\ Distinct(fit) /\ Ids(fit) = Ids(w) /\ Upright(fit)
  <2>1. fit \in Seq(Tile) /\ SameIds(fit, w) /\ Upright(fit)
    BY <1>1, FittedFits DEF SameIds
  <2> HIDE DEF fit
  <2> QED BY <1>1, <2>1, SameIdsIds
<1> HIDE DEF fit
<1>3. others \in Seq(Tile) /\ Distinct(others) /\ Ids(others) = Ids(w) /\ Upright(others)
  <2>1. PICK p : Permutes(p, Len(fit)) /\ others = Permuted(fit, p)
    BY <1>2, SortItemsPermutes
  <2> HIDE DEF others
  <2> QED BY <1>2, <2>1, PermutedKeeps
<1> HIDE DEF others
<1>4. AroundBy(around, moved, others, Len(others))
  BY <1>3, PlacedAroundKeeps
<1> HIDE DEF around
<1>5. around \in Seq(Tile) /\ Distinct(around) /\ Ids(around) = Ids(items)
  <2>1. moved.id \notin Ids(others)
    BY <1>1, <1>3
  <2>2. around \in Seq(Tile) /\ Distinct(around) /\ Ids(around) = Ids(others) \cup {moved.id}
    BY <1>3, <1>4, <2>1, AroundIds
  <2> QED BY <1>1, <1>3, <2>2
<1>6. Board(packed, cols) /\ SameIds(packed, around)
  BY <1>5, CompactIsBoard
<1> HIDE DEF packed
<1>7. packed \in Seq(Tile) /\ Distinct(packed) /\ Ids(packed) = Ids(items)
  BY <1>5, <1>6, SameIdsIds DEF Board
<1>8. r = RestoreOrder(items, packed)
  BY DEF PlaceWithPriority, packed, around, others, fit, w
<1> HIDE DEF r
<1>9. r \in Seq(Tile) /\ SameIds(r, items)
  BY <1>7, <1>8, RestoreOrderKeeps
<1>10. Distinct(r) /\ ToSet(r) = ToSet(packed)
  BY <1>7, <1>8, <1>9, SameIdsIds, RestoreOrderPermutes
<1> QED
  BY <1>6, <1>9, <1>10, BoardInAnyOrder DEF r

---------------------------------------------------------------------------
(* Move, resize *)

LEMMA MoveItemIsBoard ==
  ASSUME NEW items \in Seq(Tile), Distinct(items), NEW t \in Ids(items), NEW x \in Int,
         NEW y \in Int, NEW cols \in Colcount
  PROVE  LET r == MoveItem(items, t, x, y, cols)
         IN  Board(r, cols) /\ SameIds(r, items)
<1> DEFINE cur == TileOf(items, t)
           asked == [cur EXCEPT !.x = x, !.y = y]
           moved == FitItem(asked, cols)
           down == moved.y > cur.y
<1>1. cur \in Tile /\ cur.id = t
  BY TileOfIs
<1> HIDE DEF cur
<1>2. asked \in Tile /\ asked.id = t
  BY <1>1 DEF Tile
<1> HIDE DEF asked
<1>3. moved \in Tile /\ moved.id = t
  BY <1>2, FitItemFits
<1>4. MoveItem(items, t, x, y, cols) = PlaceWithPriority(items, moved, cols, down)
  BY DEF MoveItem, asked, cur
<1> HIDE DEF moved, down
<1> QED BY <1>3, <1>4, PriorityIsBoard

Rect == [x : Int, y : Int, w : Int, h : Int]

LEMMA ResizeItemIsBoard ==
  ASSUME NEW items \in Seq(Tile), Distinct(items), NEW t \in Ids(items), NEW rect \in Rect,
         NEW cols \in Colcount
  PROVE  LET r == ResizeItem(items, t, rect, cols)
         IN  Board(r, cols) /\ SameIds(r, items)
<1> DEFINE asked == [id |-> t, x |-> rect.x, y |-> rect.y, w |-> rect.w, h |-> rect.h]
           moved == FitItem(asked, cols)
<1>1. asked \in Tile /\ asked.id = t
  BY IdsOf DEF Tile, Rect
<1> HIDE DEF asked
<1>2. moved \in Tile /\ moved.id = t
  BY <1>1, FitItemFits
<1>3. ResizeItem(items, t, rect, cols) = PlaceWithPriority(items, moved, cols, FALSE)
  BY DEF ResizeItem, asked
<1> HIDE DEF moved
<1> QED BY <1>2, <1>3, PriorityIsBoard

LEMMA ResizeRectIsRect ==
  ASSUME NEW start \in Tile, NEW handle, NEW dx \in Int, NEW dy \in Int, NEW cols \in Colcount
  PROVE  ResizeRect(start, handle, dx, dy, cols) \in Rect
<1> DEFINE k == EffectiveConstraints(start.id, cols)
           right  == start.x + start.w
           bottom == start.y + start.h
           dw     == IF "e" \in handle THEN dx ELSE IF "w" \in handle THEN -dx ELSE 0
           dh     == IF "s" \in handle THEN dy ELSE IF "n" \in handle THEN -dy ELSE 0
           availW == IF "w" \in handle THEN right ELSE cols - start.x
           availH == IF "n" \in handle THEN bottom ELSE GRID_MAX_ROWS
           w == Clamp(start.w + dw, k.minW, Lesser(k.maxW, Greater(k.minW, availW)))
           h == Clamp(start.h + dh, k.minH, Lesser(k.maxH, Greater(k.minH, availH)))
           x == Greater(0, IF "w" \in handle THEN right - w ELSE start.x)
           y == Greater(0, IF "n" \in handle THEN bottom - h ELSE start.y)
<1>1. start.x \in Int /\ start.y \in Int /\ start.w \in Int /\ start.h \in Int /\ start.id \in TileIds
  BY TileFields
<1>2. k.minW \in Int /\ k.minH \in Int /\ k.maxW \in Int /\ k.maxH \in Int
  <2>1. LET c == EffectiveConstraints(start.id, cols)
        IN  c.minW \in Nat /\ c.minH \in Nat /\ c.maxW \in Nat /\ c.maxH \in Nat
    BY <1>1, ConstraintsConsistent
  <2> HIDE DEF k
  <2> QED BY <2>1 DEF k
<1> HIDE DEF k
<1>3. /\ right \in Int /\ bottom \in Int /\ dw \in Int /\ dh \in Int
      /\ availW \in Int /\ availH \in Int
  BY <1>1, GridAssumption DEF Colcount
<1> HIDE DEF right, bottom, dw, dh, availW, availH
<1>4. w \in Int /\ h \in Int
  BY <1>1, <1>2, <1>3 DEF Clamp, Lesser, Greater
<1>5. ResizeRect(start, handle, dx, dy, cols) = [x |-> x, y |-> y, w |-> w, h |-> h]
  BY DEF ResizeRect, k, right, bottom, dw, dh, availW, availH
<1> HIDE DEF w, h
<1>6. x \in Int /\ y \in Int
  BY <1>1, <1>3, <1>4 DEF Greater
<1> HIDE DEF x, y
<1> QED BY <1>4, <1>5, <1>6 DEF Rect

---------------------------------------------------------------------------
(* The first free slot *)

LEMMA BottomIsInt ==
  ASSUME NEW items \in Seq(Tile)
  PROVE  /\ BottomOf(items) \in Nat
         /\ \A p \in ToSet(items) : p.y + p.h <= BottomOf(items)
<1> DEFINE E == {p.y + p.h : p \in ToSet(items)}
<1>1. IsFiniteSet(E) /\ E \subseteq Int
  BY EdgesFinite
<1>2. \A p \in ToSet(items) : p.y + p.h \in E
  OBVIOUS
<1> HIDE DEF E
<1>3. IsFiniteSet({0} \cup E) /\ {0} \cup E \subseteq Int
  <2>1. IsFiniteSet({0} \cup E)
    BY <1>1, FiniteWithOne
  <2> QED BY <1>1, <2>1
<1>4. Max({0} \cup E) \in {0} \cup E /\ \A e \in {0} \cup E : e <= Max({0} \cup E)
  BY <1>3, MaxOf
<1>5. BottomOf(items) = Max({0} \cup E)
  BY DEF BottomOf, E
<1> DEFINE m == Max({0} \cup E)
<1>6. m \in Int /\ 0 <= m /\ \A e \in E : e <= m
  BY <1>3, <1>4
<1>7. BottomOf(items) = m
  BY <1>5
<1> HIDE DEF m
<1> QED BY <1>2, <1>6, <1>7

Places(S, a, b) == S \in SUBSET ((0 .. a) \X (0 .. b)) /\ S # {}
FirstIn(S) == \E s \in S : \A r \in S : s[2] < r[2] \/ (s[2] = r[2] /\ s[1] <= r[1])

\* A finite set of places has a first one in reading order.
LEMMA FirstPlace ==
  ASSUME NEW a \in Int, NEW b \in Int, NEW S, Places(S, a, b)
  PROVE  FirstIn(S)
<1> USE DEF Places
<1> DEFINE rows == {s[2] : s \in S}
           y == Min(rows)
           row == {s[1] : s \in {s \in S : s[2] = y}}
           x == Min(row)
<1>1. \A s \in S : s[1] \in 0 .. a /\ s[2] \in 0 .. b /\ s = << s[1], s[2] >>
  OBVIOUS
<1>2. rows \subseteq 0 .. b /\ rows # {}
  BY <1>1
<1>3. IsFiniteSet(rows) /\ rows \subseteq Int
  <2> HIDE DEF rows
  <2>1. IsFiniteSet(0 .. b)
    BY FS_Interval
  <2>2. IsFiniteSet(rows)
    BY <1>2, <2>1, FS_Subset
  <2> QED BY <1>2, <2>2
<1>4. y \in rows /\ \A z \in rows : y <= z
  <2> HIDE DEF rows
  <2> QED BY <1>2, <1>3, MinOf
<1> HIDE DEF y
<1>5. row \subseteq 0 .. a /\ row # {}
  BY <1>1, <1>4
<1>6. IsFiniteSet(row) /\ row \subseteq Int
  <2> HIDE DEF row
  <2>1. IsFiniteSet(0 .. a)
    BY FS_Interval
  <2>2. IsFiniteSet(row)
    BY <1>5, <2>1, FS_Subset
  <2> QED BY <1>5, <2>2
<1>7. x \in row /\ \A z \in row : x <= z
  <2> HIDE DEF row
  <2> QED BY <1>5, <1>6, MinOf
<1> HIDE DEF x
<1>8. PICK s \in S : s[2] = y /\ s[1] = x
  BY <1>7
<1>9. ASSUME NEW r \in S PROVE s[2] < r[2] \/ (s[2] = r[2] /\ s[1] <= r[1])
  <2>1. y <= r[2] /\ r[2] \in Int /\ y \in Int
    BY <1>1, <1>2, <1>4
  <2>2. r[2] = y => x <= r[1]
    BY <1>7
  <2> QED BY <1>8, <2>1, <2>2
<1> QED BY <1>9 DEF FirstIn

LEMMA FirstFitIsPlace ==
  ASSUME NEW items \in Seq(Tile), NEW w \in Int, NEW h \in Int, NEW cols \in Colcount
  PROVE  FirstFit(items, w, h, cols).x \in Int /\ FirstFit(items, w, h, cols).y \in Int
<1> DEFINE ww == Clamp(w, 1, cols)
           hh == Greater(1, h)
           limit == BottomOf(items)
           Free(x, y) == \A p \in ToSet(items) :
                      ~(/\ p.x < x + ww /\ p.x + p.w > x
                        /\ p.y < y + hh /\ p.y + p.h > y)
           slots == {s \in (0 .. cols - ww) \X (0 .. limit) : Free(s[1], s[2])}
           best == CHOOSE s \in slots : \A r \in slots : s[2] < r[2] \/ (s[2] = r[2] /\ s[1] <= r[1])
<1>1. limit \in Nat /\ ww \in Int /\ cols \in Nat
  BY BottomIsInt DEF Clamp, Lesser, Greater, Colcount
<1>2. FirstFit(items, w, h, cols) =
        IF slots = {} THEN [x |-> 0, y |-> limit] ELSE [x |-> best[1], y |-> best[2]]
  BY DEF FirstFit
<1>3. slots \in SUBSET ((0 .. cols - ww) \X (0 .. limit))
  OBVIOUS
<1> DEFINE last == cols - ww
<1> HIDE DEF ww, limit, slots
<1>10. last \in Int /\ slots \in SUBSET ((0 .. last) \X (0 .. limit))
  BY <1>1, <1>3
<1> HIDE DEF last
<1>4. ASSUME slots # {} PROVE best[1] \in Int /\ best[2] \in Int
  <2>1. \E s \in slots : \A r \in slots : s[2] < r[2] \/ (s[2] = r[2] /\ s[1] <= r[1])
    <3>1. limit \in Int /\ Places(slots, last, limit)
      BY <1>1, <1>4, <1>10 DEF Places
    <3>2. FirstIn(slots)
      BY <1>10, <3>1, FirstPlace
    <3> QED BY <3>2 DEF FirstIn
  <2>2. best \in slots
    BY <2>1
  <2> HIDE DEF best
  <2>3. best[1] \in 0 .. cols - ww /\ best[2] \in 0 .. limit
    BY <1>3, <2>2
  <2> QED BY <1>1, <2>3
<1> QED
  BY <1>1, <1>2, <1>4

LEMMA InFirstFitKeeps ==
  ASSUME NEW items \in Seq(Tile), NEW t \in TileIds, NEW w \in Int, NEW h \in Int,
         NEW cols \in Colcount
  PROVE  LET r == InFirstFit(items, t, w, h, cols)
         IN  /\ r \in Seq(Tile) /\ Ids(r) = Ids(items) \cup {t}
             /\ Distinct(items) /\ t \notin Ids(items) => Distinct(r)
             /\ Len(r) = Len(items) + 1 /\ r[Len(items) + 1].id = t
             /\ \A i \in 1 .. Len(items) : r[i] = items[i]
<1> DEFINE slot == FirstFit(items, w, h, cols)
           q == [id |-> t, x |-> slot.x, y |-> slot.y, w |-> w, h |-> h]
           r == Append(items, q)
           n == Len(items)
<1>1. slot.x \in Int /\ slot.y \in Int
  BY FirstFitIsPlace
<1> HIDE DEF slot
<1>2. q \in Tile /\ q.id = t
  BY <1>1 DEF Tile
<1>3. InFirstFit(items, t, w, h, cols) = r
  BY DEF InFirstFit, slot
<1> HIDE DEF q
<1>4. /\ n \in Nat /\ DOMAIN items = 1 .. n /\ r \in Seq(Tile) /\ Len(r) = n + 1
      /\ DOMAIN r = 1 .. n + 1
      /\ r[n + 1] = q /\ \A i \in 1 .. n : r[i] = items[i]
  BY <1>2
<1> HIDE DEF r, n
<1>5. Ids(r) = Ids(items) \cup {t}
  <2>1. \A u \in Ids(r) : u \in Ids(items) \cup {t}
    <3> SUFFICES ASSUME NEW i \in 1 .. n + 1 PROVE r[i].id \in Ids(items) \cup {t}
      BY <1>4 DEF Ids
    <3>1. i = n + 1 \/ i \in 1 .. n
      BY <1>4
    <3> QED BY <1>2, <1>4, <3>1 DEF Ids
  <2>2. \A u \in Ids(items) : u \in Ids(r)
    <3> SUFFICES ASSUME NEW i \in 1 .. n PROVE items[i].id \in Ids(r)
      BY <1>4 DEF Ids
    <3>1. i \in 1 .. n + 1
      BY <1>4
    <3> QED BY <1>4, <3>1 DEF Ids
  <2>3. t \in Ids(r)
    <3>1. n + 1 \in 1 .. n + 1
      BY <1>4
    <3> QED BY <1>2, <1>4, <3>1 DEF Ids
  <2> QED BY <2>1, <2>2, <2>3
<1>6. ASSUME Distinct(items), t \notin Ids(items) PROVE Distinct(r)
  <2> SUFFICES ASSUME NEW i \in 1 .. n + 1, NEW j \in 1 .. n + 1, r[i].id = r[j].id PROVE i = j
    BY <1>4 DEF Distinct
  <2>1. (i = n + 1 \/ i \in 1 .. n) /\ (j = n + 1 \/ j \in 1 .. n)
    BY <1>4
  <2>2. \A k \in 1 .. n : r[k].id # t
    BY <1>4, <1>6 DEF Ids
  <2> QED BY <1>2, <1>4, <1>6, <2>1, <2>2 DEF Distinct
<1> QED
  BY <1>2, <1>3, <1>4, <1>5, <1>6 DEF n

---------------------------------------------------------------------------
(* The stored places reconciled with the tiles on screen *)

\* The tiles of `s` with the ids `ks`, in the order of `ks`.
Fetched(ks, s) == Mapped(ks, LAMBDA t : TileOf(s, t))

\* `s` is a list of the ids `ks`.
Named(s, ks) == Len(s) = Len(ks) /\ \A i \in 1 .. Len(ks) : s[i].id = ks[i]

LEMMA NamedKeeps ==
  ASSUME NEW s \in Seq(Tile), NEW ks \in Seq(TileIds), Named(s, ks)
  PROVE  Ids(s) = ToSet(ks) /\ (NoRepeats(ks) => Distinct(s))
<1>1. DOMAIN s = 1 .. Len(ks) /\ DOMAIN ks = 1 .. Len(ks) /\ \A i \in 1 .. Len(ks) : s[i].id = ks[i]
  BY DEF Named
<1> QED BY <1>1 DEF Ids, ToSet, NoRepeats, Distinct

LEMMA FetchedKeeps ==
  ASSUME NEW s \in Seq(Tile), NEW ks \in Seq(TileIds), ToSet(ks) \subseteq Ids(s)
  PROVE  LET r == Fetched(ks, s)
         IN  /\ r \in Seq(Tile) /\ Named(r, ks)
             /\ \A i \in 1 .. Len(ks) : r[i] \in ToSet(s)
<1> DEFINE n == Len(ks)
           f == [i \in 1 .. n |-> TileOf(s, ks[i])]
<1>1. n \in Nat /\ DOMAIN ks = 1 .. n /\ \A i \in 1 .. n : ks[i] \in Ids(s)
  BY DEF ToSet
<1>2. \A i \in 1 .. n : /\ TileOf(s, ks[i]) \in ToSet(s) /\ TileOf(s, ks[i]) \in Tile
                        /\ TileOf(s, ks[i]).id = ks[i]
  BY <1>1, TileOfIs
<1>3. /\ f \in [1 .. n -> Tile]
      /\ \A i \in 1 .. n : f[i].id = ks[i] /\ f[i] \in ToSet(s)
  BY <1>2
<1>4. Fetched(ks, s) = <<>> \o f
  BY <1>1 DEF Fetched, Mapped
<1> HIDE DEF f
<1>5. f \in Seq(Tile) /\ Len(f) = n /\ <<>> \o f = f
  BY <1>1, <1>3, MappedIs
<1> QED
  BY <1>3, <1>4, <1>5 DEF Named

\* Sizes are given for the tiles S.
Sized(sizes, S) == \A t \in S : sizes[t].w \in Int /\ sizes[t].h \in Int

LEMMA InsertedKeeps ==
  ASSUME NEW p \in Seq(Tile), NEW t \in TileIds, NEW sizes, Sized(sizes, {t}), NEW cols \in Colcount
  PROVE  LET r == Inserted(p, t, sizes, cols)
         IN  /\ r \in Seq(Tile) /\ Ids(r) = Ids(p) \cup {t}
             /\ Distinct(p) /\ t \notin Ids(p) => Distinct(r)
<1> DEFINE c == EffectiveConstraints(t, cols)
           w == Clamp(sizes[t].w, c.minW, c.maxW)
           h == Clamp(sizes[t].h, c.minH, c.maxH)
<1>1. sizes[t].w \in Int /\ sizes[t].h \in Int
  BY DEF Sized
<1>2. c.minW \in Int /\ c.maxW \in Int /\ c.minH \in Int /\ c.maxH \in Int
  <2>1. LET k == EffectiveConstraints(t, cols)
        IN  k.minW \in Nat /\ k.minH \in Nat /\ k.maxW \in Nat /\ k.maxH \in Nat
    BY ConstraintsConsistent
  <2> HIDE DEF c
  <2> QED BY <2>1 DEF c
<1>3. Inserted(p, t, sizes, cols) = InFirstFit(p, t, w, h, cols)
  BY DEF Inserted
<1> HIDE DEF c
<1>4. w \in Int /\ h \in Int
  BY <1>1, <1>2 DEF Clamp, Lesser, Greater
<1> HIDE DEF w, h
<1> QED BY <1>3, <1>4, InFirstFitKeeps

LEMMA AllInsertedKeeps ==
  ASSUME NEW base \in Seq(Tile), Distinct(base), NEW ks \in Seq(TileIds), NoRepeats(ks),
         ToSet(ks) \cap Ids(base) = {}, NEW sizes, Sized(sizes, ToSet(ks)), NEW cols \in Colcount
  PROVE  LET r == AllInserted(base, ks, sizes, cols)
         IN  r \in Seq(Tile) /\ Distinct(r) /\ Ids(r) = Ids(base) \cup ToSet(ks)
<1> DEFINE n == Len(ks)
<1>1. n \in Nat /\ DOMAIN ks = 1 .. n
      /\ \A k \in 1 .. n : ks[k] \in TileIds /\ ks[k] \in ToSet(ks) /\ Sized(sizes, {ks[k]})
  <2>1. n \in Nat /\ DOMAIN ks = 1 .. n
        /\ \A k \in 1 .. n : ks[k] \in TileIds /\ ks[k] \in ToSet(ks)
    BY DEF ToSet
  <2> QED BY <2>1 DEF Sized
<1>2. ASSUME NEW p \in Seq(Tile), NEW k \in 1 .. n
      PROVE  Inserted(p, ks[k], sizes, cols) \in Seq(Tile)
  <2> DEFINE t == ks[k]
  <2>1. t \in TileIds /\ Sized(sizes, {t})
    BY <1>1
  <2> HIDE DEF t
  <2>2. LET r == Inserted(p, t, sizes, cols) IN r \in Seq(Tile)
    BY <2>1, InsertedKeeps
  <2> QED BY <2>2 DEF t
<1>3. PICK f \in [0 .. n -> Seq(Tile)] :
        /\ AllInserted(base, ks, sizes, cols) = f[n] /\ f[0] = base
        /\ \A k \in 1 .. n : f[k] = Inserted(f[k - 1], ks[k], sizes, cols)
  <2> HIDE DEF n
  <2>1. \A p \in Seq(Tile), k \in 1 .. Len(ks) : Inserted(p, ks[k], sizes, cols) \in Seq(Tile)
    BY <1>2 DEF n
  <2>2. Insertions(base, ks, sizes, cols)
    BY <2>1, InsertedFold
  <2> QED BY <2>2 DEF n, Insertions
<1> DEFINE First(k) == {ks[j] : j \in 1 .. k}
           S == {k \in 0 .. n : Distinct(f[k]) /\ Ids(f[k]) = Ids(base) \cup First(k)}
<1>4. 0 \in S
  <2>1. First(0) = {}
    OBVIOUS
  <2> HIDE DEF First
  <2> QED BY <1>1, <1>3, <2>1
<1>5. ASSUME NEW k \in 0 .. n - 1, k \in S PROVE k + 1 \in S
  <2>1. k + 1 \in 1 .. n /\ (k + 1) - 1 = k /\ k \in Nat /\ f[k] \in Seq(Tile)
    BY <1>1
  <2>2. f[k + 1] = Inserted(f[k], ks[k + 1], sizes, cols)
    BY <1>3, <2>1
  <2>3. ks[k + 1] \in TileIds /\ ks[k + 1] \in ToSet(ks) /\ Sized(sizes, {ks[k + 1]})
    BY <1>1, <2>1
  <2>4. ks[k + 1] \notin First(k)
    <3> SUFFICES ASSUME NEW j \in 1 .. k, ks[j] = ks[k + 1] PROVE FALSE
      OBVIOUS
    <3>1. j \in 1 .. n /\ j # k + 1
      BY <1>1, <2>1
    <3> QED BY <1>1, <2>1, <3>1 DEF NoRepeats
  <2>5. ks[k + 1] \notin Ids(f[k])
    <3> HIDE DEF First
    <3> QED BY <1>5, <2>3, <2>4
  <2>6. First(k + 1) = First(k) \cup {ks[k + 1]}
    <3>1. 1 .. k + 1 = (1 .. k) \cup {k + 1}
      BY <2>1
    <3> QED BY <3>1
  <2>7. Distinct(f[k + 1]) /\ Ids(f[k + 1]) = Ids(f[k]) \cup {ks[k + 1]}
    <3> DEFINE p == f[k]
               t == ks[k + 1]
    <3>1. Distinct(p) /\ p \in Seq(Tile) /\ t \in TileIds /\ Sized(sizes, {t}) /\ t \notin Ids(p)
      BY <1>5, <2>1, <2>3, <2>5
    <3> HIDE DEF p, t
    <3>2. LET r == Inserted(p, t, sizes, cols)
          IN  Ids(r) = Ids(p) \cup {t} /\ Distinct(r)
      BY <3>1, InsertedKeeps
    <3> QED BY <2>2, <3>2 DEF p, t
  <2>8. Ids(f[k]) = Ids(base) \cup First(k)
    BY <1>5
  <2>9. k + 1 \in 0 .. n
    BY <1>1, <2>1
  <2> HIDE DEF First
  <2>10. Ids(f[k + 1]) = Ids(base) \cup First(k + 1)
    BY <2>6, <2>7, <2>8
  <2> QED BY <2>7, <2>9, <2>10
<1>6. 0 .. n \subseteq S
  <2> HIDE DEF S
  <2> QED BY <1>1, <1>4, <1>5, InductionUpTo
<1>7. n \in S
  <2> HIDE DEF S
  <2> QED BY <1>1, <1>6
<1>8. First(n) = ToSet(ks)
  BY <1>1 DEF ToSet
<1>9. f[n] \in Seq(Tile)
  BY <1>1
<1> HIDE DEF First
<1> QED
  BY <1>3, <1>7, <1>8, <1>9

LEMMA ReconcileIsBoard ==
  ASSUME NEW stored \in Seq(Tile), NEW wanted \in Seq(TileIds), NoRepeats(wanted),
         NEW sizes, Sized(sizes, ToSet(wanted)), NEW cols \in Colcount
  PROVE  LET r == Reconcile(stored, wanted, sizes, cols)
         IN  Board(r, cols) /\ Named(r, wanted)
<1> DEFINE known   == Picked(wanted, Ids(stored))
           missing == Picked(wanted, ToSet(wanted) \ Ids(stored))
           first   == Fetched(known, stored)
           base    == Compact(first, cols)
           all     == AllInserted(base, missing, sizes, cols)
           layout  == Compact(all, cols)
           r       == Fetched(wanted, layout)
<1>1. /\ known \in Seq(TileIds) /\ NoRepeats(known) /\ ToSet(known) = ToSet(wanted) \cap Ids(stored)
      /\ missing \in Seq(TileIds) /\ NoRepeats(missing)
      /\ ToSet(missing) = ToSet(wanted) \ Ids(stored)
  <2>1. /\ known \in Seq(TileIds) /\ NoRepeats(known) /\ ToSet(known) = ToSet(wanted) \cap Ids(stored)
    BY PickedKeeps
  <2>2. missing \in Seq(TileIds) /\ NoRepeats(missing)
        /\ ToSet(missing) = ToSet(wanted) \cap (ToSet(wanted) \ Ids(stored))
    BY PickedKeeps
  <2> HIDE DEF known, missing
  <2> QED BY <2>1, <2>2
<1> HIDE DEF known, missing
<1>2. first \in Seq(Tile) /\ Named(first, known)
  BY <1>1, FetchedKeeps
<1> HIDE DEF first
<1>3. Distinct(first) /\ Ids(first) = ToSet(known)
  BY <1>1, <1>2, NamedKeeps
<1>4. Board(base, cols) /\ SameIds(base, first)
  BY <1>2, <1>3, CompactIsBoard
<1> HIDE DEF base
<1>5. base \in Seq(Tile) /\ Distinct(base) /\ Ids(base) = ToSet(known)
  <2>1. base \in Seq(Tile) /\ Distinct(base)
    BY <1>4 DEF Board
  <2> QED BY <1>2, <1>3, <1>4, <2>1, SameIdsIds
<1>6. all \in Seq(Tile) /\ Distinct(all) /\ Ids(all) = ToSet(wanted)
  <2>1. Sized(sizes, ToSet(missing)) /\ ToSet(missing) \cap Ids(base) = {}
    BY <1>1, <1>5 DEF Sized
  <2>2. all \in Seq(Tile) /\ Distinct(all) /\ Ids(all) = Ids(base) \cup ToSet(missing)
    BY <1>1, <1>5, <2>1, AllInsertedKeeps
  <2> QED BY <1>1, <1>5, <2>2
<1> HIDE DEF all
<1>7. Board(layout, cols) /\ SameIds(layout, all)
  BY <1>6, CompactIsBoard
<1> HIDE DEF layout
<1>8. layout \in Seq(Tile) /\ Distinct(layout) /\ Ids(layout) = ToSet(wanted)
  BY <1>6, <1>7, SameIdsIds DEF Board
<1>9. Reconcile(stored, wanted, sizes, cols) = r
  BY DEF Reconcile, Fetched, r, layout, all, base, first, known, missing
<1>10. r \in Seq(Tile) /\ Named(r, wanted) /\ \A i \in 1 .. Len(wanted) : r[i] \in ToSet(layout)
  BY <1>8, FetchedKeeps
<1> HIDE DEF r
<1>11. Distinct(r) /\ Ids(r) = ToSet(wanted)
  BY <1>10, NamedKeeps
<1>12. ToSet(r) = ToSet(layout)
  <2>1. DOMAIN r = 1 .. Len(wanted)
    BY <1>10 DEF Named
  <2>2. \A e \in ToSet(r) : e \in ToSet(layout)
    BY <1>10, <2>1 DEF ToSet
  <2>3. ASSUME NEW e \in ToSet(layout) PROVE e \in ToSet(r)
    <3>1. e.id \in Ids(r)
      BY <1>8, <1>11, IdsOf
    <3>2. PICK i \in DOMAIN r : r[i].id = e.id
      BY <3>1 DEF Ids
    <3>3. r[i] \in ToSet(layout)
      BY <1>10, <2>1
    <3>4. r[i] = e
      BY <1>8, <3>2, <3>3, DistinctBySet
    <3> QED BY <3>4 DEF ToSet
  <2> QED BY <2>2, <2>3
<1>13. Board(r, cols)
  BY <1>7, <1>10, <1>11, <1>12, BoardInAnyOrder
<1> QED
  BY <1>9, <1>10, <1>13

---------------------------------------------------------------------------
(* Holes are closed by widening tiles: none comes or goes *)

LEMMA SameIdsTransitive ==
  ASSUME NEW a, NEW b, NEW c, SameIds(a, b), SameIds(b, c)
  PROVE  SameIds(a, c)
BY DEF SameIds

LEMMA TakenFinite ==
  ASSUME NEW items \in Seq(Tile)
  PROVE  IsFiniteSet(Taken(items)) /\ Cardinality(Taken(items)) \in Nat
<1> DEFINE n == Len(items)
           C == {Cells(p) : p \in ToSet(items)}
           f == [i \in 1 .. n |-> Cells(items[i])]
<1>1. n \in Nat /\ DOMAIN items = 1 .. n /\ IsFiniteSet(1 .. n)
      /\ \A i \in 1 .. n : items[i] \in Tile
  BY FS_Interval
<1>2. \A e \in C : \E i \in 1 .. n : f[i] = e
  BY <1>1 DEF ToSet
<1>3. f \in [1 .. n -> C]
  BY <1>1 DEF ToSet
<1>4. IsFiniteSet(C)
  <2> HIDE DEF f, C, n
  <2>1. f \in Surjection(1 .. n, C)
    BY <1>2, <1>3 DEF Surjection
  <2> QED BY <1>1, <2>1, FS_Surjection
<1>5. ASSUME NEW i \in 1 .. n PROVE IsFiniteSet(Cells(items[i]))
  <2> DEFINE p == items[i]
             across == p.x .. p.x + p.w - 1
             along == p.y .. p.y + p.h - 1
  <2>1. p.x \in Int /\ p.y \in Int /\ p.w \in Int /\ p.h \in Int
    BY <1>1, TileFields
  <2>2. IsFiniteSet(across)
    <3> HIDE DEF p
    <3> DEFINE b == p.x + p.w - 1
    <3>1. p.x \in Int /\ b \in Int
      BY <2>1
    <3> HIDE DEF b
    <3>2. IsFiniteSet(p.x .. b)
      BY <3>1, FS_Interval
    <3> QED BY <3>2 DEF b
  <2>3. IsFiniteSet(along)
    <3> HIDE DEF p
    <3> DEFINE b == p.y + p.h - 1
    <3>1. p.y \in Int /\ b \in Int
      BY <2>1
    <3> HIDE DEF b
    <3>2. IsFiniteSet(p.y .. b)
      BY <3>1, FS_Interval
    <3> QED BY <3>2 DEF b
  <2>4. Cells(p) = across \X along
    BY DEF Cells
  <2> HIDE DEF across, along
  <2> QED BY <2>2, <2>3, <2>4, FS_Product
<1>6. \A e \in C : IsFiniteSet(e)
  <2> HIDE DEF C
  <2> SUFFICES ASSUME NEW e \in C PROVE IsFiniteSet(e)
    OBVIOUS
  <2>1. PICK i \in 1 .. n : f[i] = e
    BY <1>2
  <2> QED BY <1>5, <2>1
<1>7. IsFiniteSet(UNION C)
  <2> HIDE DEF C
  <2> QED BY <1>4, <1>6, FS_UNION
<1>8. Taken(items) = UNION C
  BY DEF Taken
<1> HIDE DEF C
<1> QED BY <1>7, <1>8, FS_CardinalityType

LEMMA EmptyCellsIsInt ==
  ASSUME NEW items \in Seq(Tile), NEW cols \in Colcount
  PROVE  EmptyCellCount(items, cols) \in Int
BY BottomIsInt, TakenFinite DEF EmptyCellCount, Colcount

\* How far a tile grows.
LEMMA ReachIsNat ==
  ASSUME NEW m \in Int, NEW A \in SUBSET (1 .. m)
  PROVE  Max({0} \cup A) \in Nat
<1>1. IsFiniteSet(1 .. m)
  BY FS_Interval
<1>2. IsFiniteSet(A)
  BY <1>1, FS_Subset
<1>3. IsFiniteSet({0} \cup A)
  BY <1>2, FiniteWithOne
<1>4. {0} \cup A \subseteq Int
  OBVIOUS
<1>5. Max({0} \cup A) \in {0} \cup A
  BY <1>3, <1>4, MaxOf
<1> DEFINE b == Max({0} \cup A)
<1>6. b \in {0} \cup A
  BY <1>5
<1> HIDE DEF b
<1>7. b \in Nat
  BY <1>6
<1> QED BY <1>7 DEF b

Gap == [x : Int, end : Int, y : Int]

LEMMA Widens ==
  ASSUME NEW p \in Tile, NEW a \in Int
  PROVE  LET q == [p EXCEPT !.w = @ + a]
             r == [p EXCEPT !.x = @ - a, !.w = @ + a]
         IN  q \in Tile /\ q.id = p.id /\ r \in Tile /\ r.id = p.id
<1> DEFINE q == [p EXCEPT !.w = @ + a]
           s == [p EXCEPT !.x = @ - a]
           r == [s EXCEPT !.w = @ + a]
<1>1. q \in Tile /\ q.id = p.id
  BY DEF Tile
<1>2. s \in Tile /\ s.id = p.id /\ s.w = p.w
  BY DEF Tile
<1> HIDE DEF s
<1>3. r \in Tile /\ r.id = s.id
  BY <1>2 DEF Tile
<1>4. r = [p EXCEPT !.x = @ - a, !.w = @ + a]
  BY <1>2 DEF s
<1> QED BY <1>1, <1>2, <1>3, <1>4

LEMMA ClosedKeeps ==
  ASSUME NEW items \in Seq(Tile), NEW g \in Gap, NEW cols \in Colcount
  PROVE  LET r == Closed(items, g, cols) IN r \in Seq(Tile) /\ SameIds(r, items)
<1> DEFINE n == Len(items)
           taken == Taken(items)
           room(p) == Lesser(g.end - g.x, EffectiveConstraints(p.id, cols).maxW - p.w)
           FreeFor(p, xs) == \A x \in xs, y \in p.y .. p.y + p.h - 1 : <<x, y>> \notin taken
           Rightward(p) == Max({0} \cup {k \in 1 .. room(p) : FreeFor(p, g.x .. g.x + k - 1)})
           Leftward(p)  == Max({0} \cup {k \in 1 .. room(p) : FreeFor(p, g.end - k .. g.end - 1)})
           left  == {p \in ToSet(items) : <<g.x - 1, g.y>> \in Cells(p) /\ Rightward(p) > 0}
           right == {p \in ToSet(items) : <<g.end, g.y>> \in Cells(p) /\ Leftward(p) > 0}
           Widened(p) == IF p \in left THEN [p EXCEPT !.w = @ + Rightward(p)]
                         ELSE IF left = {} /\ p \in right
                              THEN [p EXCEPT !.x = @ - Leftward(p), !.w = @ + Leftward(p)]
                              ELSE p
           f == [i \in 1 .. n |-> Widened(items[i])]
<1>1. n \in Nat /\ DOMAIN items = 1 .. n /\ \A i \in 1 .. n : items[i] \in Tile
  OBVIOUS
<1>2. ASSUME NEW p \in Tile PROVE Rightward(p) \in Nat /\ Leftward(p) \in Nat
  <2>1. room(p) \in Int
    <3>1. p.w \in Int /\ p.id \in TileIds
      BY TileFields
    <3>2. LET k == EffectiveConstraints(p.id, cols) IN k.maxW \in Nat
      BY <3>1, ConstraintsConsistent
    <3>3. g.end - g.x \in Int
      BY DEF Gap
    <3> QED BY <3>1, <3>2, <3>3 DEF Lesser
  <2> DEFINE R == {k \in 1 .. room(p) : FreeFor(p, g.x .. g.x + k - 1)}
             L == {k \in 1 .. room(p) : FreeFor(p, g.end - k .. g.end - 1)}
             m == room(p)
  <2>2. m \in Int /\ R \in SUBSET (1 .. m) /\ L \in SUBSET (1 .. m)
    BY <2>1
  <2> HIDE DEF R, L, m
  <2>3. Max({0} \cup R) \in Nat /\ Max({0} \cup L) \in Nat
    BY <2>2, ReachIsNat
  <2> QED BY <2>3 DEF R, L
<1>3. Closed(items, g, cols) = <<>> \o f
  BY <1>1 DEF Closed, Mapped
<1> HIDE DEF Rightward, Leftward, left, right, room, FreeFor, taken
<1>4. ASSUME NEW p \in Tile PROVE Widened(p) \in Tile /\ Widened(p).id = p.id
  <2>1. p.x \in Int /\ p.w \in Int /\ Rightward(p) \in Int /\ Leftward(p) \in Int
    BY <1>2, TileFields
  <2>2. [p EXCEPT !.w = @ + Rightward(p)] \in Tile /\ [p EXCEPT !.w = @ + Rightward(p)].id = p.id
    BY <1>4, <2>1, Widens
  <2>3. [p EXCEPT !.x = @ - Leftward(p), !.w = @ + Leftward(p)] \in Tile
        /\ [p EXCEPT !.x = @ - Leftward(p), !.w = @ + Leftward(p)].id = p.id
    BY <1>4, <2>1, Widens
  <2> QED BY <1>4, <2>2, <2>3
<1> HIDE DEF Widened
<1>5. f \in [1 .. n -> Tile] /\ \A i \in 1 .. n : f[i].id = items[i].id
  BY <1>1, <1>4
<1> HIDE DEF f
<1>6. <<>> \o f = f /\ f \in Seq(Tile) /\ Len(f) = n
  BY <1>1, <1>5, MappedIs
<1> QED
  BY <1>3, <1>5, <1>6 DEF SameIds

LEMMA FillPassKeeps ==
  ASSUME NEW items \in Seq(Tile), NEW cols \in Colcount
  PROVE  LET r == FillPass(items, cols) IN r \in Seq(Tile) /\ SameIds(r, items)
<1> DEFINE closable == {g \in Gaps(items, cols) : Closed(items, g, cols) # items}
           First(g) == \A f \in closable : g.y < f.y \/ (g.y = f.y /\ g.x <= f.x)
           best == CHOOSE g \in closable : First(g)
           last == cols - 1
           bottom == BottomOf(items) - 1
           S == {<< g.x, g.y >> : g \in closable}
<1>1. FillPass(items, cols) = IF closable = {} THEN items ELSE Closed(items, best, cols)
  BY DEF FillPass
<1>2. last \in Int /\ bottom \in Int
  BY BottomIsInt DEF Colcount
<1>3. \A g \in Gaps(items, cols) : g \in Gap /\ g.x \in 0 .. last /\ g.y \in 0 .. bottom
  <2> SUFFICES ASSUME NEW g \in [x : 0 .. cols - 1, end : 1 .. cols, y : 0 .. BottomOf(items) - 1]
               PROVE  g \in Gap /\ g.x \in 0 .. last /\ g.y \in 0 .. bottom
    BY DEF Gaps
  <2> QED BY <1>2 DEF Gap
<1>4. ASSUME closable # {} PROVE best \in Gap
  <2>1. \A g \in closable : g \in Gap /\ g.x \in 0 .. last /\ g.y \in 0 .. bottom
    BY <1>3
  <2> HIDE DEF closable, last, bottom
  <2>2. Places(S, last, bottom)
    <3>1. S # {}
      BY <1>4
    <3>2. S \in SUBSET ((0 .. last) \X (0 .. bottom))
      BY <2>1
    <3> QED BY <3>1, <3>2 DEF Places
  <2>3. PICK s \in S : \A r \in S : s[2] < r[2] \/ (s[2] = r[2] /\ s[1] <= r[1])
    <3> HIDE DEF S
    <3>1. FirstIn(S)
      BY <1>2, <2>2, FirstPlace
    <3> QED BY <3>1 DEF FirstIn
  <2>4. PICK g \in closable : s = << g.x, g.y >>
    OBVIOUS
  <2>5. First(g)
    <3> SUFFICES ASSUME NEW f \in closable PROVE g.y < f.y \/ (g.y = f.y /\ g.x <= f.x)
      OBVIOUS
    <3>1. << f.x, f.y >> \in S
      OBVIOUS
    <3> QED BY <2>3, <2>4, <3>1
  <2>6. best \in closable
    <3> HIDE DEF First
    <3> QED BY <2>5
  <2> QED BY <2>1, <2>6
<1>5. CASE closable = {}
  BY <1>1, <1>5 DEF SameIds
<1>6. CASE closable # {}
  <2>1. best \in Gap
    BY <1>4, <1>6
  <2>2. FillPass(items, cols) = Closed(items, best, cols)
    BY <1>1, <1>6
  <2> HIDE DEF best
  <2> QED BY <2>1, <2>2, ClosedKeeps
<1> QED BY <1>5, <1>6

LEMMA PassesKeep ==
  ASSUME NEW items \in Seq(Tile), NEW m \in Int, NEW cols \in Colcount
  PROVE  LET r == Passes(items, m, cols) IN r \in Seq(Tile) /\ SameIds(r, items)
<1>1. ASSUME NEW n \in Nat
      PROVE  Passes(items, n, cols) \in Seq(Tile) /\ SameIds(Passes(items, n, cols), items)
  <2>1. \A p \in Seq(Tile) : FillPass(p, cols) \in Seq(Tile)
    BY FillPassKeeps
  <2>2. FillPasses(items, n, cols)
    BY <2>1, PassesFold
  <2>3. PICK f \in [0 .. n -> Seq(Tile)] :
          /\ Passes(items, n, cols) = f[n] /\ f[0] = items
          /\ \A k \in 1 .. n : f[k] = FillPass(f[k - 1], cols)
    BY <2>2 DEF FillPasses
  <2> DEFINE S == {k \in 0 .. n : SameIds(f[k], items)}
  <2>4. 0 \in S
    BY <2>3 DEF SameIds
  <2>5. ASSUME NEW k \in 0 .. n - 1, k \in S PROVE k + 1 \in S
    <3>1. k + 1 \in 1 .. n /\ (k + 1) - 1 = k /\ f[k] \in Seq(Tile) /\ k + 1 \in 0 .. n
      OBVIOUS
    <3>2. f[k + 1] = FillPass(f[k], cols)
      BY <2>3, <3>1
    <3>3. SameIds(f[k + 1], f[k])
      BY <3>1, <3>2, FillPassKeeps
    <3>4. SameIds(f[k + 1], items)
      BY <2>5, <3>3, SameIdsTransitive
    <3> QED BY <3>1, <3>4
  <2>6. 0 .. n \subseteq S
    <3> HIDE DEF S
    <3> QED BY <2>4, <2>5, InductionUpTo
  <2>7. n \in S
    <3> HIDE DEF S
    <3> QED BY <2>6
  <2> QED BY <2>3, <2>7
<1>2. CASE m \in Nat
  BY <1>1, <1>2
<1>3. CASE m \notin Nat
  <2>1. 1 .. m = 1 .. 0
    BY <1>3
  <2>2. Passes(items, m, cols) = Passes(items, 0, cols)
    BY <2>1 DEF Passes
  <2> QED BY <1>1, <2>2
<1> QED BY <1>2, <1>3

LEMMA FillGapsKeeps ==
  ASSUME NEW items \in Seq(Tile), NEW cols \in Colcount
  PROVE  LET r == FillGaps(items, cols) IN r \in Seq(Tile) /\ SameIds(r, items)
<1> DEFINE m == Lesser(400, EmptyCellCount(items, cols))
<1>1. m \in Int
  BY EmptyCellsIsInt DEF Lesser
<1>2. FillGaps(items, cols) = Passes(items, m, cols)
  BY DEF FillGaps
<1> HIDE DEF m
<1> QED BY <1>1, <1>2, PassesKeep

---------------------------------------------------------------------------
(* Removal, and the display that fills in for hidden tiles *)

LEMMA RemoveAndFillIsBoard ==
  ASSUME NEW items \in Seq(Tile), Distinct(items), NEW t, NEW cols \in Colcount
  PROVE  LET r == RemoveAndFill(items, t, cols)
         IN  Board(r, cols) /\ Ids(r) = Ids(items) \ {t}
<1> DEFINE gone   == TileOf(items, t)
           rest   == Without(items, t)
           packed == Compact(rest, cols)
           filled == FillGaps(packed, cols)
           InItsRows(p) == p.y < gone.y + gone.h /\ p.y + p.h > gone.y
           Kept(p) == IF InItsRows(p) THEN p
                      ELSE [p EXCEPT !.x = TileOf(rest, p.id).x, !.w = TileOf(rest, p.id).w]
           n == Len(filled)
           f == [i \in 1 .. n |-> Kept(filled[i])]
<1>1. rest \in Seq(Tile) /\ Distinct(rest) /\ Ids(rest) = Ids(items) \ {t}
  BY WithoutKeeps
<1>2. RemoveAndFill(items, t, cols) =
        IF t \notin Ids(items) THEN packed ELSE Compact(Mapped(filled, Kept), cols)
  BY DEF RemoveAndFill
<1> HIDE DEF rest, gone
<1>3. Board(packed, cols) /\ SameIds(packed, rest) /\ packed \in Seq(Tile)
  BY <1>1, CompactIsBoard DEF Board
<1> HIDE DEF packed
<1>4. filled \in Seq(Tile) /\ SameIds(filled, packed)
  BY <1>3, FillGapsKeeps
<1> HIDE DEF filled
<1>5. Ids(packed) = Ids(rest) /\ Distinct(filled) /\ Ids(filled) = Ids(rest)
  BY <1>1, <1>3, <1>4, SameIdsIds
<1>6. n \in Nat /\ DOMAIN filled = 1 .. n
      /\ \A i \in 1 .. n : filled[i] \in Tile /\ filled[i].id \in Ids(rest)
  <2>1. n \in Nat /\ DOMAIN filled = 1 .. n /\ \A i \in 1 .. n : filled[i] \in Tile
    BY <1>4
  <2> QED BY <1>4, <1>5, <2>1, IdsOf
<1>7. Mapped(filled, Kept) = <<>> \o f
  BY <1>6 DEF Mapped
<1>8. ASSUME NEW p \in Tile, p.id \in Ids(rest) PROVE Kept(p) \in Tile /\ Kept(p).id = p.id
  <2> DEFINE q == TileOf(rest, p.id)
             u == [p EXCEPT !.x = q.x]
  <2>1. q \in Tile
    BY <1>1, <1>8, TileOfIs
  <2>2. q.x \in Int /\ q.w \in Int
    BY <2>1, TileFields
  <2> HIDE DEF q
  <2>3. u \in Tile /\ u.id = p.id
    BY <1>8, <2>2 DEF Tile
  <2>4. [p EXCEPT !.x = q.x, !.w = q.w] = [u EXCEPT !.w = q.w]
    OBVIOUS
  <2> HIDE DEF u
  <2>5. [u EXCEPT !.w = q.w] \in Tile /\ [u EXCEPT !.w = q.w].id = p.id
    BY <2>2, <2>3 DEF Tile
  <2>6. Kept(p) = p \/ Kept(p) = [p EXCEPT !.x = q.x, !.w = q.w]
    BY DEF q
  <2> HIDE DEF Kept
  <2> QED BY <1>8, <2>4, <2>5, <2>6
<1> HIDE DEF Kept
<1>9. f \in [1 .. n -> Tile] /\ \A i \in 1 .. n : f[i].id = filled[i].id
  BY <1>6, <1>8
<1> HIDE DEF f
<1>10. <<>> \o f = f /\ f \in Seq(Tile) /\ Len(f) = n
  BY <1>6, <1>9, MappedIs
<1>11. SameIds(f, filled)
  BY <1>9, <1>10 DEF SameIds
<1>12. Distinct(f) /\ Ids(f) = Ids(rest)
  BY <1>4, <1>5, <1>10, <1>11, SameIdsIds
<1>13. Board(Compact(f, cols), cols) /\ Ids(Compact(f, cols)) = Ids(rest)
  <2>1. Board(Compact(f, cols), cols) /\ SameIds(Compact(f, cols), f)
    BY <1>10, <1>12, CompactIsBoard
  <2>2. Compact(f, cols) \in Seq(Tile)
    BY <2>1 DEF Board
  <2> QED BY <1>10, <1>12, <2>1, <2>2, SameIdsIds
<1>14. CASE t \notin Ids(items)
  BY <1>1, <1>2, <1>3, <1>5, <1>14
<1>15. CASE t \in Ids(items)
  <2>1. RemoveAndFill(items, t, cols) = Compact(f, cols)
    BY <1>2, <1>7, <1>10, <1>15
  <2> QED BY <1>1, <1>13, <2>1
<1> QED BY <1>14, <1>15

LEMMA GridColsCount == GRID_COLS \in Colcount /\ TABLET_COLS \in Colcount
BY GridAssumption DEF Colcount

LEMMA AllRemovedIsBoard ==
  ASSUME NEW items \in Seq(Tile), Distinct(items), NEW hidden \in Seq(Tile)
  PROVE  LET r == AllRemoved(items, hidden)
         IN  /\ r \in Seq(Tile) /\ Distinct(r) /\ Ids(r) = Ids(items) \ Ids(hidden)
             /\ hidden # <<>> => Board(r, GRID_COLS)
<1> DEFINE n == Len(hidden)
<1>1. n \in Nat /\ DOMAIN hidden = 1 .. n /\ GRID_COLS \in Colcount
  BY GridColsCount
<1> DEFINE First(k) == {hidden[j].id : j \in 1 .. k}
           Fit(k, p) == /\ Distinct(p) /\ Ids(p) = Ids(items) \ First(k)
                        /\ k # 0 => Board(p, GRID_COLS)
<1>2. ASSUME NEW p \in Seq(Tile), NEW k \in 1 .. n, Fit(k - 1, p)
      PROVE  LET r == RemoveAndFill(p, hidden[k].id, GRID_COLS)
             IN  r \in Seq(Tile) /\ Fit(k, r)
  <2> DEFINE t == hidden[k].id
             r == RemoveAndFill(p, t, GRID_COLS)
  <2>1. Distinct(p) /\ Ids(p) = Ids(items) \ First(k - 1)
    BY <1>2
  <2> HIDE DEF t
  <2>2. Board(r, GRID_COLS) /\ Ids(r) = Ids(p) \ {t}
    BY <1>1, <2>1, RemoveAndFillIsBoard
  <2> HIDE DEF r
  <2>3. r \in Seq(Tile) /\ Distinct(r)
    BY <2>2 DEF Board
  <2>4. First(k) = First(k - 1) \cup {t}
    <3>1. 1 .. k = (1 .. k - 1) \cup {k}
      BY <1>1
    <3> QED BY <3>1 DEF t
  <2> HIDE DEF First
  <2>5. Fit(k, r)
    BY <2>1, <2>2, <2>3, <2>4
  <2> QED BY <2>3, <2>5 DEF r, t
<1>3. \A p \in Layouts, k \in 1 .. n : RemoveAndFill(p, hidden[k].id, GRID_COLS) \in Layouts
  <2> SUFFICES ASSUME NEW p \in Layouts, NEW k \in 1 .. n
               PROVE  RemoveAndFill(p, hidden[k].id, GRID_COLS) \in Layouts
    OBVIOUS
  <2>1. p \in Seq(Tile) /\ Distinct(p)
    BY DEF Layouts
  <2>2. Board(RemoveAndFill(p, hidden[k].id, GRID_COLS), GRID_COLS)
    BY <1>1, <2>1, RemoveAndFillIsBoard
  <2> QED BY <2>2 DEF Board, Layouts
<1>4. Removals(items, hidden)
  <2>1. items \in Layouts
    BY DEF Layouts
  <2> QED BY <1>3, <2>1, RemovedFold
<1>5. PICK f \in [0 .. n -> Layouts] :
        /\ AllRemoved(items, hidden) = f[n] /\ f[0] = items
        /\ \A k \in 1 .. n : f[k] = RemoveAndFill(f[k - 1], hidden[k].id, GRID_COLS)
  BY <1>4 DEF Removals
<1>6. \A k \in 0 .. n : f[k] \in Seq(Tile)
  BY DEF Layouts
<1> DEFINE S == {k \in 0 .. n : Fit(k, f[k])}
<1>7. 0 \in S
  <2>1. First(0) = {}
    OBVIOUS
  <2> HIDE DEF First
  <2>2. Fit(0, f[0])
    BY <1>5, <2>1
  <2> HIDE DEF Fit
  <2> QED BY <1>1, <2>2
<1> HIDE DEF Fit
<1>8. ASSUME NEW k \in 0 .. n - 1, k \in S PROVE k + 1 \in S
  <2>1. k + 1 \in 1 .. n /\ (k + 1) - 1 = k /\ f[k] \in Seq(Tile) /\ k + 1 \in 0 .. n
    BY <1>1, <1>6
  <2>2. f[k + 1] = RemoveAndFill(f[k], hidden[k + 1].id, GRID_COLS)
    BY <1>5, <2>1
  <2>3. Fit((k + 1) - 1, f[k])
    BY <1>8, <2>1
  <2> DEFINE p == f[k]
             i == k + 1
  <2>4. i \in 1 .. n /\ p \in Seq(Tile) /\ Fit(i - 1, p)
    BY <2>1, <2>3
  <2> HIDE DEF p, i
  <2>5. LET r == RemoveAndFill(p, hidden[i].id, GRID_COLS) IN Fit(i, r)
    BY <2>4, <1>2
  <2>6. Fit(k + 1, f[k + 1])
    BY <2>2, <2>5 DEF p, i
  <2> QED BY <2>1, <2>6
<1>9. 0 .. n \subseteq S
  <2> HIDE DEF S
  <2> QED BY <1>1, <1>7, <1>8, InductionUpTo
<1>10. n \in S
  <2> HIDE DEF S
  <2> QED BY <1>1, <1>9
<1>11. First(n) = Ids(hidden)
  BY <1>1 DEF Ids
<1>12. f[n] \in Seq(Tile)
  BY <1>1, <1>6
<1>13. hidden # <<>> => n # 0
  OBVIOUS
<1> HIDE DEF First
<1> QED
  BY <1>5, <1>10, <1>11, <1>12, <1>13 DEF Fit

LEMMA FilledIsBoard ==
  ASSUME NEW layout, Board(layout, GRID_COLS), NEW hidden \in Seq(Tile), Distinct(hidden),
         Ids(layout) \cap Ids(hidden) = {}
  PROVE  LET r == Filled(layout, hidden)
         IN  Board(r, GRID_COLS) /\ Ids(r) = Ids(layout)
<1> DEFINE both == layout \o hidden
           left == AllRemoved(both, hidden)
           r    == Keeping(left, Ids(layout))
           n == Len(layout)
           m == Len(hidden)
<1>1. layout \in Seq(Tile) /\ Distinct(layout)
  BY DEF Board
<1>2. CASE hidden = <<>> \/ layout = <<>>
  BY <1>2 DEF Filled
<1>3. CASE ~(hidden = <<>> \/ layout = <<>>)
  <2>1. /\ n \in Nat /\ m \in Nat /\ DOMAIN layout = 1 .. n /\ DOMAIN hidden = 1 .. m
        /\ both \in Seq(Tile) /\ DOMAIN both = 1 .. n + m
        /\ \A i \in 1 .. n : both[i] = layout[i]
        /\ \A i \in n + 1 .. n + m : both[i] = hidden[i - n] /\ i - n \in 1 .. m
        /\ \A i \in 1 .. n + m : i \in 1 .. n \/ i \in n + 1 .. n + m
    BY <1>1
  <2> HIDE DEF both, n, m
  <2>2. Ids(both) = Ids(layout) \cup Ids(hidden)
    <3>1. \A u \in Ids(both) : u \in Ids(layout) \cup Ids(hidden)
      <4> SUFFICES ASSUME NEW i \in 1 .. n + m PROVE both[i].id \in Ids(layout) \cup Ids(hidden)
        BY <2>1 DEF Ids
      <4> QED BY <2>1 DEF Ids
    <3>2. \A u \in Ids(layout) : u \in Ids(both)
      <4> SUFFICES ASSUME NEW i \in 1 .. n PROVE layout[i].id \in Ids(both)
        BY <2>1 DEF Ids
      <4>1. i \in 1 .. n + m
        BY <2>1
      <4> QED BY <2>1, <4>1 DEF Ids
    <3>3. \A u \in Ids(hidden) : u \in Ids(both)
      <4> SUFFICES ASSUME NEW i \in 1 .. m PROVE hidden[i].id \in Ids(both)
        BY <2>1 DEF Ids
      <4>1. i + n \in 1 .. n + m /\ i + n \in n + 1 .. n + m /\ (i + n) - n = i
        BY <2>1
      <4>2. both[i + n] = hidden[i]
        BY <2>1, <4>1
      <4> QED BY <2>1, <4>1, <4>2 DEF Ids
    <3> QED BY <3>1, <3>2, <3>3
  <2>3. Distinct(both)
    <3> SUFFICES ASSUME NEW i \in 1 .. n + m, NEW j \in 1 .. n + m, both[i].id = both[j].id
                 PROVE  i = j
      BY <2>1 DEF Distinct
    <3>1. CASE i \in 1 .. n /\ j \in 1 .. n
      BY <1>1, <2>1, <3>1 DEF Distinct
    <3>2. CASE i \in n + 1 .. n + m /\ j \in n + 1 .. n + m
      <4>1. i - n = j - n
        <5> DEFINE a == i - n
                   b == j - n
        <5>1. a \in DOMAIN hidden /\ b \in DOMAIN hidden /\ hidden[a].id = hidden[b].id
          BY <2>1, <3>2
        <5> HIDE DEF a, b
        <5>2. a = b
          BY <5>1 DEF Distinct
        <5> QED BY <5>2 DEF a, b
      <4> QED BY <2>1, <3>2, <4>1
    <3>3. CASE i \in 1 .. n /\ j \in n + 1 .. n + m
      <4>1. both[i].id \in Ids(layout) /\ both[j].id \in Ids(hidden)
        BY <2>1, <3>3 DEF Ids
      <4> QED BY <4>1
    <3>4. CASE j \in 1 .. n /\ i \in n + 1 .. n + m
      <4>1. both[j].id \in Ids(layout) /\ both[i].id \in Ids(hidden)
        BY <2>1, <3>4 DEF Ids
      <4> QED BY <4>1
    <3> QED BY <2>1, <3>1, <3>2, <3>3, <3>4
  <2>4. left \in Seq(Tile) /\ Distinct(left) /\ Board(left, GRID_COLS) /\ Ids(left) = Ids(layout)
    <3>1. /\ left \in Seq(Tile) /\ Distinct(left) /\ Ids(left) = Ids(both) \ Ids(hidden)
          /\ Board(left, GRID_COLS)
      BY <1>3, <2>1, <2>3, AllRemovedIsBoard
    <3> QED BY <2>2, <3>1
  <2> HIDE DEF left
  <2>5. /\ r \in Seq(Tile) /\ Ids(r) = Ids(left) \cap Ids(layout) /\ Distinct(r)
        /\ ToSet(r) = {p \in ToSet(left) : p.id \in Ids(layout)}
    BY <2>4, KeepingKeeps
  <2> HIDE DEF r
  <2>6. ToSet(r) = ToSet(left)
    BY <2>4, <2>5, IdsOf
  <2>7. Board(r, GRID_COLS) /\ Ids(r) = Ids(layout)
    BY <2>4, <2>5, <2>6, BoardInAnyOrder
  <2>8. Filled(layout, hidden) = r
    BY <1>3 DEF Filled, r, left, both
  <2> QED BY <2>7, <2>8
<1> QED BY <1>2, <1>3

---------------------------------------------------------------------------
(* Auto-arrange *)

\* By a number, then by place.
KeyOrder(key, n) ==
  {b \in (1 .. n) \X (1 .. n) :
     key[b[1]] < key[b[2]] \/ (b[1] < b[2] /\ ~(key[b[2]] < key[b[1]]))}

LEMMA KeyOrders ==
  ASSUME NEW n \in Nat, NEW key \in [1 .. n -> Int]
  PROVE  Orders(KeyOrder(key, n), n)
<1> DEFINE before == KeyOrder(key, n)
           Goes(i, j) == key[i] < key[j] \/ (i < j /\ ~(key[j] < key[i]))
<1>1. \A i, j \in 1 .. n : << i, j >> \in before <=> Goes(i, j)
  BY DEF KeyOrder
<1>2. before \in SUBSET ((1 .. n) \X (1 .. n))
  BY DEF KeyOrder
<1>3. \A i \in 1 .. n : key[i] \in Int
  OBVIOUS
<1> HIDE DEF before
<1>4. \A i \in 1 .. n : << i, i >> \notin before
  BY <1>1, <1>3
<1>5. \A i, j \in 1 .. n : i # j => << i, j >> \in before \/ << j, i >> \in before
  BY <1>1, <1>3
<1>6. ASSUME NEW i \in 1 .. n, NEW j \in 1 .. n, NEW k \in 1 .. n,
             << i, j >> \in before, << j, k >> \in before
      PROVE  << i, k >> \in before
  <2>1. Goes(i, j) /\ Goes(j, k)
    BY <1>1, <1>6
  <2>2. Goes(i, k)
    BY <1>3, <2>1
  <2> QED BY <1>1, <2>2
<1>7. Orders(before, n)
  BY <1>2, <1>4, <1>5, <1>6 DEF Orders
<1> QED BY <1>7 DEF before

LEMMA TallestFirstTyped ==
  ASSUME NEW s \in Seq(Tile)
  PROVE  TallestFirst(s) \in Seq(Tile)
<1> DEFINE n == Len(s)
           key == [i \in 1 .. n |-> -s[i].h]
           Goes(i, j) == s[i].h > s[j].h \/ (i < j /\ ~(s[j].h > s[i].h))
           place == [i \in DOMAIN s |-> Cardinality({j \in DOMAIN s : Goes(j, i)}) + 1]
           first == [k \in DOMAIN s |-> s[CHOOSE i \in DOMAIN s : place[i] = k]]
<1>1. DOMAIN s = 1 .. n /\ n \in Nat /\ \A i \in 1 .. n : s[i] \in Tile /\ s[i].h \in Int
  <2>1. DOMAIN s = 1 .. n /\ n \in Nat /\ \A i \in 1 .. n : s[i] \in Tile
    OBVIOUS
  <2> QED BY <2>1 DEF Tile
<1>2. key \in [1 .. n -> Int]
  BY <1>1
<1>3. \A i, j \in 1 .. n : << i, j >> \in KeyOrder(key, n) <=> Goes(i, j)
  BY <1>1 DEF KeyOrder
<1> HIDE DEF key
<1>4. TallestFirst(s) = first
  BY DEF TallestFirst, SortedBy
<1>5. place = Rank(KeyOrder(key, n), n)
  <2>1. ASSUME NEW i \in 1 .. n
        PROVE  {j \in DOMAIN s : Goes(j, i)} = {j \in 1 .. n : << j, i >> \in KeyOrder(key, n)}
    BY <1>1, <1>3
  <2> HIDE DEF Goes, n
  <2> QED BY <1>1, <2>1 DEF Rank
<1> HIDE DEF place
<1>6. \A k \in 1 .. n : \E i \in 1 .. n : place[i] = k
  <2> DEFINE before == KeyOrder(key, n)
  <2> HIDE DEF n
  <2>1. Orders(before, n)
    BY <1>1, <1>2, KeyOrders
  <2>2. place = Rank(before, n)
    BY <1>5
  <2> HIDE DEF before
  <2>3. \A k \in 1 .. n : \E i \in 1 .. n : Rank(before, n)[i] = k
    BY <1>1, <2>1, RanksAreIndices
  <2> QED BY <2>2, <2>3
<1>7. first \in [1 .. n -> Tile]
  <2>1. \A k \in 1 .. n : (CHOOSE i \in 1 .. n : place[i] = k) \in 1 .. n
    BY <1>6
  <2>2. first = [k \in 1 .. n |-> s[CHOOSE i \in 1 .. n : place[i] = k]]
    BY <1>1
  <2> HIDE DEF first
  <2> QED BY <1>1, <2>1, <2>2
<1> HIDE DEF first
<1> QED
  BY <1>1, <1>4, <1>7

LEMMA LowestFirstTyped ==
  ASSUME NEW s \in Seq(Tile)
  PROVE  LowestFirst(s) \in Seq(Tile)
<1> DEFINE n == Len(s)
           key == [i \in 1 .. n |-> s[i].h]
           Goes(i, j) == s[i].h < s[j].h \/ (i < j /\ ~(s[j].h < s[i].h))
           place == [i \in DOMAIN s |-> Cardinality({j \in DOMAIN s : Goes(j, i)}) + 1]
           first == [k \in DOMAIN s |-> s[CHOOSE i \in DOMAIN s : place[i] = k]]
<1>1. DOMAIN s = 1 .. n /\ n \in Nat /\ \A i \in 1 .. n : s[i] \in Tile /\ s[i].h \in Int
  <2>1. DOMAIN s = 1 .. n /\ n \in Nat /\ \A i \in 1 .. n : s[i] \in Tile
    OBVIOUS
  <2> QED BY <2>1 DEF Tile
<1>2. key \in [1 .. n -> Int]
  BY <1>1
<1>3. \A i, j \in 1 .. n : << i, j >> \in KeyOrder(key, n) <=> Goes(i, j)
  BY <1>1 DEF KeyOrder
<1> HIDE DEF key
<1>4. LowestFirst(s) = first
  BY DEF LowestFirst, SortedBy
<1>5. place = Rank(KeyOrder(key, n), n)
  <2>1. ASSUME NEW i \in 1 .. n
        PROVE  {j \in DOMAIN s : Goes(j, i)} = {j \in 1 .. n : << j, i >> \in KeyOrder(key, n)}
    BY <1>1, <1>3
  <2> HIDE DEF Goes, n
  <2> QED BY <1>1, <2>1 DEF Rank
<1> HIDE DEF place
<1>6. \A k \in 1 .. n : \E i \in 1 .. n : place[i] = k
  <2> DEFINE before == KeyOrder(key, n)
  <2> HIDE DEF n
  <2>1. Orders(before, n)
    BY <1>1, <1>2, KeyOrders
  <2>2. place = Rank(before, n)
    BY <1>5
  <2> HIDE DEF before
  <2>3. \A k \in 1 .. n : \E i \in 1 .. n : Rank(before, n)[i] = k
    BY <1>1, <2>1, RanksAreIndices
  <2> QED BY <2>2, <2>3
<1>7. first \in [1 .. n -> Tile]
  <2>1. \A k \in 1 .. n : (CHOOSE i \in 1 .. n : place[i] = k) \in 1 .. n
    BY <1>6
  <2>2. first = [k \in 1 .. n |-> s[CHOOSE i \in 1 .. n : place[i] = k]]
    BY <1>1
  <2> HIDE DEF first
  <2> QED BY <1>1, <2>1, <2>2
<1> HIDE DEF first
<1> QED
  BY <1>1, <1>4, <1>7

LEMMA SortItemsTyped ==
  ASSUME NEW s \in Seq(Tile)
  PROVE  SortItems(s) \in Seq(Tile) /\ (Upright(s) => Upright(SortItems(s)))
BY SortItemsPermutes, PermutedKeeps

LEMMA CompactTyped ==
  ASSUME NEW items \in Seq(Tile), NEW cols \in Colcount
  PROVE  Compact(items, cols) \in Seq(Tile)
<1> DEFINE fit   == Fitted(items, cols)
           once  == SettleAll(SortItems(fit))
           again == SettleAll(SortItems(once))
<1>1. fit \in Seq(Tile) /\ Upright(fit)
  BY FittedFits
<1> HIDE DEF fit
<1>2. once \in Seq(Tile) /\ Upright(once)
  BY <1>1, SortItemsTyped, SettleAllSettles, SettledIsBoard
<1> HIDE DEF once
<1>3. again \in Seq(Tile)
  BY <1>2, SortItemsTyped, SettleAllSettles, SettledIsBoard
<1>4. Compact(items, cols) = RestoreOrder(items, again)
  BY DEF Compact, again, once, fit
<1> HIDE DEF again
<1> QED BY <1>3, <1>4, RestoreOrderKeeps

LEMMA PackedTyped ==
  ASSUME NEW order \in Seq(Tile), NEW cols \in Colcount
  PROVE  Packed(order, cols) \in Seq(Tile)
<1> DEFINE n == Len(order)
<1>1. ASSUME NEW p \in Seq(Tile), NEW k \in 1 .. n
      PROVE  InFirstFit(p, order[k].id, order[k].w, order[k].h, cols) \in Seq(Tile)
  <2>1. order[k] \in Tile
    OBVIOUS
  <2> DEFINE q == order[k]
  <2>2. q.id \in TileIds /\ q.w \in Int /\ q.h \in Int
    BY <2>1, TileFields
  <2> HIDE DEF q
  <2>3. InFirstFit(p, q.id, q.w, q.h, cols) \in Seq(Tile)
    BY <2>2, InFirstFitKeeps
  <2> QED BY <2>3 DEF q
<1>2. \A p \in Seq(Tile), k \in 1 .. Len(order) :
        InFirstFit(p, order[k].id, order[k].w, order[k].h, cols) \in Seq(Tile)
  BY <1>1
<1>3. Packings(order, cols)
  BY <1>2, PackedFold
<1>4. PICK f \in [0 .. n -> Seq(Tile)] : Packed(order, cols) = f[n]
  BY <1>3 DEF Packings
<1>5. n \in 0 .. n
  OBVIOUS
<1> QED BY <1>4, <1>5

LEMMA RepackedTyped ==
  ASSUME NEW reading \in Seq(Tile), NEW cols \in Colcount
  PROVE  Repacked(reading, cols) \in [1 .. 3 -> Seq(Tile)]
<1> DEFINE Again(order) == Compact(FillGaps(Compact(Packed(order, cols), cols), cols), cols)
           a == TallestFirst(reading)
           b == LowestFirst(reading)
           s == << reading, a, b >>
           f == [i \in 1 .. 3 |-> Again(s[i])]
<1>1. a \in Seq(Tile) /\ b \in Seq(Tile)
  BY TallestFirstTyped, LowestFirstTyped
<1>2. Repacked(reading, cols) = Mapped(s, Again)
  BY DEF Repacked
<1> HIDE DEF a, b
<1>3. DOMAIN s = 1 .. 3 /\ \A i \in 1 .. 3 : s[i] \in Seq(Tile)
  BY <1>1
<1>4. ASSUME NEW order \in Seq(Tile) PROVE Again(order) \in Seq(Tile)
  BY PackedTyped, CompactTyped, FillGapsKeeps
<1> HIDE DEF s, Again
<1>5. f \in [1 .. 3 -> Seq(Tile)]
  BY <1>3, <1>4
<1>6. Mapped(s, Again) = <<>> \o f
  BY <1>3 DEF Mapped
<1> HIDE DEF f
<1>7. <<>> \o f = f
  BY <1>5, MappedIs
<1> QED BY <1>2, <1>5, <1>6, <1>7

LEMMA ScoreIsInt ==
  ASSUME NEW l \in Seq(Tile), NEW cols \in Colcount
  PROVE  Score(l, cols) \in Int
<1> DEFINE last == cols - 1
           bottom == BottomOf(l) - 1
           all == (0 .. last) \X (0 .. bottom)
           holes == {c \in all : c \notin Taken(l) /\ \E d \in Taken(l) : d[1] = c[1] /\ d[2] > c[2]}
<1>1. last \in Int /\ bottom \in Int
  BY BottomIsInt DEF Colcount
<1>2. HoleCount(l, cols) = Cardinality(holes)
  BY DEF HoleCount
<1>3. holes \subseteq all
  OBVIOUS
<1> HIDE DEF last, bottom, holes
<1>4. IsFiniteSet(0 .. last) /\ IsFiniteSet(0 .. bottom)
  BY <1>1, FS_Interval
<1>5. IsFiniteSet(all)
  BY <1>4, FS_Product
<1>6. Cardinality(holes) \in Nat
  <2> HIDE DEF all
  <2> QED BY <1>3, <1>5, FS_Subset, FS_CardinalityType
<1> QED
  BY <1>2, <1>6, EmptyCellsIsInt DEF Score

LEMMA BestTyped ==
  ASSUME NEW tried \in [1 .. 3 -> Seq(Tile)], NEW fitted \in Seq(Tile),
         NEW cols \in Colcount
  PROVE  BestRepacking(tried, fitted, cols) \in Seq(Tile)
<1> DEFINE f == [i \in 1 .. 3 |-> Score(tried[i], cols)]
           Best(score) == CHOOSE i \in DOMAIN tried : \A j \in DOMAIN tried :
                            score[i] < score[j] \/ (score[i] = score[j] /\ i <= j)
<1>1. DOMAIN tried = 1 .. 3 /\ \A i \in 1 .. 3 : tried[i] \in Seq(Tile)
  OBVIOUS
<1>2. f \in [1 .. 3 -> Int]
  BY <1>1, ScoreIsInt
<1>4. BestRepacking(tried, fitted, cols) =
        IF (<<>> \o f)[Best(<<>> \o f)] <= Score(fitted, cols)
        THEN tried[Best(<<>> \o f)] ELSE FillGaps(fitted, cols)
  BY <1>1 DEF BestRepacking, BestOf, Mapped
<1> HIDE DEF f
<1>5. <<>> \o f = f
  BY <1>2, MappedIs
<1>6. Best(f) \in 1 .. 3
  <2>1. f[1] \in Int /\ f[2] \in Int /\ f[3] \in Int
    BY <1>2
  <2>2. \E i \in {1, 2, 3} : \A j \in {1, 2, 3} : f[i] < f[j] \/ (f[i] = f[j] /\ i <= j)
    BY <2>1
  <2>3. 1 .. 3 = {1, 2, 3}
    OBVIOUS
  <2> QED BY <2>2, <2>3
<1> HIDE DEF Best
<1>7. FillGaps(fitted, cols) \in Seq(Tile)
  BY FillGapsKeeps
<1> QED BY <1>1, <1>4, <1>5, <1>6, <1>7

LEMMA AutoArrangeKeeps ==
  ASSUME NEW items \in Seq(Tile), NEW cols \in Colcount
  PROVE  LET r == AutoArrange(items, cols) IN r \in Seq(Tile) /\ SameIds(r, items)
<1> DEFINE fitted == Compact(items, cols)
           reading == SortItems(fitted)
           tried == Repacked(reading, cols)
           best == BestRepacking(tried, fitted, cols)
<1>1. fitted \in Seq(Tile)
  BY CompactTyped
<1> HIDE DEF fitted
<1>2. reading \in Seq(Tile)
  BY <1>1, SortItemsTyped
<1> HIDE DEF reading
<1>3. tried \in [1 .. 3 -> Seq(Tile)]
  BY <1>2, RepackedTyped
<1> HIDE DEF tried
<1>4. best \in Seq(Tile)
  BY <1>1, <1>3, BestTyped
<1> HIDE DEF best
<1>5. AutoArrange(items, cols) = RestoreOrder(items, best)
  BY DEF AutoArrange, Rearranged, best, tried, reading, fitted
<1> QED BY <1>4, <1>5, RestoreOrderKeeps

---------------------------------------------------------------------------
(* One list after another *)

LEMMA Joined ==
  ASSUME NEW a \in Seq(Tile), Distinct(a), NEW b \in Seq(Tile), Distinct(b),
         Ids(a) \cap Ids(b) = {}
  PROVE  LET r == a \o b
         IN  /\ r \in Seq(Tile) /\ Distinct(r) /\ Ids(r) = Ids(a) \cup Ids(b)
             /\ ToSet(r) = ToSet(a) \cup ToSet(b)
<1> DEFINE r == a \o b
           n == Len(a)
           m == Len(b)
<1>1. /\ n \in Nat /\ m \in Nat /\ DOMAIN a = 1 .. n /\ DOMAIN b = 1 .. m
      /\ r \in Seq(Tile) /\ DOMAIN r = 1 .. n + m
      /\ \A i \in 1 .. n : r[i] = a[i]
      /\ \A i \in n + 1 .. n + m : r[i] = b[i - n] /\ i - n \in 1 .. m
      /\ \A i \in 1 .. n + m : i \in 1 .. n \/ i \in n + 1 .. n + m
  OBVIOUS
<1> HIDE DEF r, n, m
<1>2. ToSet(r) = ToSet(a) \cup ToSet(b)
  <2>1. \A e \in ToSet(r) : e \in ToSet(a) \cup ToSet(b)
    <3> SUFFICES ASSUME NEW i \in 1 .. n + m PROVE r[i] \in ToSet(a) \cup ToSet(b)
      BY <1>1 DEF ToSet
    <3> QED BY <1>1 DEF ToSet
  <2>2. \A e \in ToSet(a) : e \in ToSet(r)
    <3> SUFFICES ASSUME NEW i \in 1 .. n PROVE a[i] \in ToSet(r)
      BY <1>1 DEF ToSet
    <3>1. i \in 1 .. n + m
      BY <1>1
    <3> QED BY <1>1, <3>1 DEF ToSet
  <2>3. \A e \in ToSet(b) : e \in ToSet(r)
    <3> SUFFICES ASSUME NEW i \in 1 .. m PROVE b[i] \in ToSet(r)
      BY <1>1 DEF ToSet
    <3>1. i + n \in 1 .. n + m /\ i + n \in n + 1 .. n + m /\ (i + n) - n = i
      BY <1>1
    <3>2. r[i + n] = b[i]
      BY <1>1, <3>1
    <3> QED BY <1>1, <3>1, <3>2 DEF ToSet
  <2> QED BY <2>1, <2>2, <2>3
<1>3. Ids(r) = Ids(a) \cup Ids(b)
  BY <1>1, <1>2, IdsOf
<1>4. Distinct(r)
  <2> SUFFICES ASSUME NEW i \in 1 .. n + m, NEW j \in 1 .. n + m, r[i].id = r[j].id
               PROVE  i = j
    BY <1>1 DEF Distinct
  <2>1. CASE i \in 1 .. n /\ j \in 1 .. n
    BY <1>1, <2>1 DEF Distinct
  <2>2. CASE i \in n + 1 .. n + m /\ j \in n + 1 .. n + m
    <3> DEFINE k == i - n
               l == j - n
    <3>1. k \in DOMAIN b /\ l \in DOMAIN b /\ b[k].id = b[l].id
      BY <1>1, <2>2
    <3> HIDE DEF k, l
    <3>2. k = l
      BY <3>1 DEF Distinct
    <3> QED BY <1>1, <2>2, <3>2 DEF k, l
  <2>3. CASE i \in 1 .. n /\ j \in n + 1 .. n + m
    <3>1. r[i].id \in Ids(a) /\ r[j].id \in Ids(b)
      BY <1>1, <2>3 DEF Ids
    <3> QED BY <3>1
  <2>4. CASE j \in 1 .. n /\ i \in n + 1 .. n + m
    <3>1. r[j].id \in Ids(a) /\ r[i].id \in Ids(b)
      BY <1>1, <2>4 DEF Ids
    <3> QED BY <3>1
  <2> QED BY <1>1, <2>1, <2>2, <2>3, <2>4
<1> QED BY <1>1, <1>2, <1>3, <1>4 DEF r

---------------------------------------------------------------------------
(* The state of the board *)

\* What is stored: the panels without repetition, the places one per tile;
\* nothing is said about where the places are.
Stored ==
  /\ panels \in Seq(Tiles) /\ NoRepeats(panels)
  /\ grid \in Seq(Tile) /\ Distinct(grid)

Point == [x : Int, y : Int]
Gestures == [kind : {"drag", "resize"}, id : TileIds, handle : Handles \cup {{}},
             base : Seq(Tile), to : Point \cup Rect, moves : Nat]

\* A gesture runs in edit mode on the desktop board, from a board that has the
\* tile.
GestureFits ==
  Interacting =>
    /\ gesture \in Gestures /\ editing /\ bp = "lg"
    /\ gesture.kind = "resize" => gesture.to \in Rect
    /\ Board(gesture.base, GRID_COLS) /\ gesture.id \in Ids(gesture.base)

BoardInv == Stored /\ bp \in Breakpoints /\ GestureFits

LEMMA KeysAre ==
  ASSUME Stored
  PROVE  /\ keys \in Seq(TileIds) /\ NoRepeats(keys) /\ ToSet(keys) = ToSet(panels) \cap visible
         /\ Sized(DefaultSize, ToSet(keys)) /\ ToSet(keys) \subseteq Tiles
<1>1. panels \in Seq(Tiles) /\ NoRepeats(panels) /\ ToSet(panels) \subseteq Tiles
  BY ToSetIn DEF Stored
<1>2. keys \in Seq(Tiles) /\ NoRepeats(keys) /\ ToSet(keys) = ToSet(panels) \cap visible
  BY <1>1, PickedKeeps DEF keys, KeysOf
<1>3. Seq(Tiles) \subseteq Seq(TileIds)
  BY BoardAssumption DEF TileIds
<1>4. Sized(DefaultSize, ToSet(keys))
  BY <1>1, <1>2, BoardAssumption DEF Sized
<1> QED BY <1>1, <1>2, <1>3, <1>4

LEMMA DesktopIsBoard ==
  ASSUME Stored
  PROVE  Board(desktop, GRID_COLS) /\ Named(desktop, keys) /\ Ids(desktop) = ToSet(keys)
<1>1. grid \in Seq(Tile) /\ keys \in Seq(TileIds) /\ NoRepeats(keys) /\ Sized(DefaultSize, ToSet(keys))
  BY KeysAre DEF Stored
<1>2. Board(desktop, GRID_COLS) /\ Named(desktop, keys)
  BY <1>1, GridColsCount, ReconcileIsBoard DEF desktop, DesktopOf
<1> QED BY <1>1, <1>2, NamedKeeps DEF Board

LEMMA ShownDesktopIsBoard ==
  ASSUME Stored
  PROVE  Board(shownDesktop, GRID_COLS) /\ Ids(shownDesktop) = ToSet(keys)
<1> DEFINE S == {g \in ToSet(grid) : g.id \notin visible \cap ToSet(panels)}
           hidden == Picked(grid, S)
<1>1. hidden \in Seq(Tile) /\ Distinct(hidden) /\ ToSet(hidden) = ToSet(grid) \cap S
  <2> HIDE DEF S
  <2> QED BY PickedTiles DEF Stored
<1>2. shownDesktop = Filled(desktop, hidden)
  BY DEF shownDesktop
<1> HIDE DEF hidden
<1>3. Board(desktop, GRID_COLS) /\ Ids(desktop) = ToSet(keys) /\ ToSet(keys) = ToSet(panels) \cap visible
  BY DesktopIsBoard, KeysAre
<1>4. Ids(desktop) \cap Ids(hidden) = {}
  <2>1. Ids(hidden) = {p.id : p \in ToSet(hidden)}
    BY <1>1, IdsOf
  <2> QED BY <1>1, <1>3, <2>1
<1> QED BY <1>1, <1>2, <1>3, <1>4, FilledIsBoard

LEMMA PreviewIsBoard ==
  ASSUME GestureFits, Interacting
  PROVE  Board(Preview, GRID_COLS) /\ SameIds(Preview, gesture.base)
<1>1. /\ gesture.base \in Seq(Tile) /\ Distinct(gesture.base) /\ gesture.id \in Ids(gesture.base)
      /\ gesture.to.x \in Int /\ gesture.to.y \in Int
      /\ gesture.kind = "resize" => gesture.to \in Rect
      /\ gesture.kind \in {"drag", "resize"}
  <2>1. /\ gesture \in Gestures /\ Board(gesture.base, GRID_COLS) /\ gesture.id \in Ids(gesture.base)
        /\ gesture.kind = "resize" => gesture.to \in Rect
    BY DEF GestureFits
  <2>2. gesture.kind \in {"drag", "resize"} /\ gesture.to \in Point \cup Rect
    BY <2>1 DEF Gestures
  <2>3. gesture.to.x \in Int /\ gesture.to.y \in Int
    BY <2>2 DEF Point, Rect
  <2> QED BY <2>1, <2>2, <2>3 DEF Board
<1>2. CASE gesture.kind = "drag"
  <2>1. Preview = MoveItem(gesture.base, gesture.id, gesture.to.x, gesture.to.y, GRID_COLS)
    BY <1>2 DEF Preview
  <2> QED BY <1>1, <2>1, GridColsCount, MoveItemIsBoard
<1>3. CASE gesture.kind = "resize"
  <2>1. Preview = ResizeItem(gesture.base, gesture.id, gesture.to, GRID_COLS)
    BY <1>3 DEF Preview
  <2> QED BY <1>1, <1>3, <2>1, GridColsCount, ResizeItemIsBoard
<1> QED BY <1>1, <1>2, <1>3

---------------------------------------------------------------------------
(* BoardInv holds initially and is preserved *)

\* The layout drawn in edit mode is the desktop board.
LEMMA LiveIsBoard ==
  ASSUME Stored, bp = "lg"
  PROVE  /\ baseLayout = shownDesktop /\ Board(baseLayout, GRID_COLS)
         /\ Ids(baseLayout) = ToSet(keys)
<1>1. baseLayout = shownDesktop
  BY DEF baseLayout, DeriveLayout
<1> QED BY <1>1, ShownDesktopIsBoard

LEMMA BoardInvInit == Init => BoardInv
<1> SUFFICES ASSUME Init PROVE BoardInv
  OBVIOUS
<1>1. PICK b \in Boards : panels = b.panels /\ grid = b.grid
  BY DEF Init
<1>2. /\ b.panels \in Seq(Tiles) /\ IsInjective(b.panels)
      /\ b.grid \in Seq([id : Tiles, x : Int, y : Int, w : Int, h : Int])
      /\ \A i, j \in DOMAIN b.grid : b.grid[i].id = b.grid[j].id => i = j
  BY BoardAssumption
<1>3. NoRepeats(panels)
  BY <1>1, <1>2 DEF NoRepeats, IsInjective
<1>4. [id : Tiles, x : Int, y : Int, w : Int, h : Int] \subseteq Tile
  BY BoardAssumption DEF Tile, TileIds
<1>5. grid \in Seq(Tile)
  <2> DEFINE R == [id : Tiles, x : Int, y : Int, w : Int, h : Int]
  <2>1. grid \in Seq(R) /\ R \subseteq Tile
    BY <1>1, <1>2, <1>4
  <2> HIDE DEF R
  <2> QED BY <2>1
<1>6. Distinct(grid)
  BY <1>1, <1>2 DEF Distinct
<1>7. gesture = NoGesture /\ bp = "lg"
  BY DEF Init
<1> QED BY <1>1, <1>2, <1>3, <1>5, <1>6, <1>7 DEF BoardInv, Stored, GestureFits, Interacting, Breakpoints

\* A step that leaves the gesture alone.
LEMMA GestureKept ==
  ASSUME BoardInv, UNCHANGED << gesture, editing, bp >>, Stored'
  PROVE  BoardInv'
BY DEF BoardInv, GestureFits, Interacting

LEMMA WriteBackKeeps ==
  ASSUME BoardInv, WriteBack
  PROVE  BoardInv'
<1>1. Stored /\ UNCHANGED << panels, gesture, editing, bp >>
  BY DEF BoardInv, WriteBack
<1>2. CASE UNCHANGED grid
  <2>1. Stored'
    BY <1>1, <1>2 DEF Stored
  <2> QED BY <1>1, <2>1, GestureKept
<1>3. CASE grid' = desktop \o Picked(grid, {g \in ToSet(grid) : g.id \notin Ids(desktop)})
  <2> DEFINE S == {g \in ToSet(grid) : g.id \notin Ids(desktop)}
             rest == Picked(grid, S)
  <2>1. rest \in Seq(Tile) /\ Distinct(rest) /\ ToSet(rest) = ToSet(grid) \cap S
    <3> HIDE DEF S
    <3> QED BY <1>1, PickedTiles DEF Stored
  <2>2. grid' = desktop \o rest
    BY <1>3
  <2> HIDE DEF rest
  <2>3. desktop \in Seq(Tile) /\ Distinct(desktop)
    BY <1>1, DesktopIsBoard DEF Board
  <2>4. Ids(rest) = {p.id : p \in ToSet(rest)}
    BY <2>1, IdsOf
  <2>5. Ids(desktop) \cap Ids(rest) = {}
    BY <2>1, <2>4
  <2>6. grid' \in Seq(Tile) /\ Distinct(grid')
    BY <2>1, <2>2, <2>3, <2>5, Joined
  <2>7. Stored'
    BY <1>1, <2>6 DEF Stored
  <2> QED BY <1>1, <2>7, GestureKept
<1> QED BY <1>2, <1>3 DEF WriteBack

LEMMA DropKeeps ==
  ASSUME BoardInv, Drop
  PROVE  BoardInv'
<1>1. Stored /\ GestureFits /\ Interacting /\ gesture' = NoGesture /\ UNCHANGED << panels, bp >>
  BY DEF BoardInv, Drop
<1>2. Preview \in Seq(Tile) /\ Distinct(Preview)
  BY <1>1, PreviewIsBoard DEF Board
<1>3. grid' = Preview \/ grid' = grid
  BY DEF Drop, Commit
<1>4. Stored'
  BY <1>1, <1>2, <1>3 DEF Stored
<1>5. GestureFits'
  BY <1>1 DEF GestureFits, Interacting
<1> QED BY <1>1, <1>4, <1>5 DEF BoardInv

\* Cancel, ToggleEdit and SetWidth: the gesture goes on or is dropped.
LEMMA ViewKeeps ==
  ASSUME BoardInv, Cancel \/ ToggleEdit \/ \E b \in Breakpoints : SetWidth(b)
  PROVE  BoardInv'
<1>1. Stored' /\ bp' \in Breakpoints
  BY DEF BoardInv, Stored, Cancel, ToggleEdit, SetWidth
<1>2. gesture' = NoGesture \/ (gesture' = gesture /\ editing' /\ bp' = "lg")
  BY DEF Cancel, ToggleEdit, SetWidth
<1>3. GestureFits'
  BY <1>2 DEF BoardInv, GestureFits, Interacting
<1> QED BY <1>1, <1>3 DEF BoardInv

---------------------------------------------------------------------------
(* Gestures *)

LEMMA BeginKeeps ==
  ASSUME BoardInv, NEW live \in {baseLayout}, NEW t \in Ids(live),
         NEW kind \in {"drag", "resize"}, NEW handle \in Handles \cup {{}}, NEW to,
         to \in Rect \/ (kind = "drag" /\ to \in Point), Begin(live, kind, t, handle, to)
  PROVE  BoardInv'
<1>1. /\ Stored /\ bp = "lg" /\ editing /\ UNCHANGED << panels, grid, bp, editing >>
      /\ gesture' = [kind |-> kind, id |-> t, handle |-> handle, base |-> live, to |-> to, moves |-> 0]
  BY DEF BoardInv, Begin, canEdit
<1>2. live = baseLayout /\ Board(live, GRID_COLS)
  BY <1>1, LiveIsBoard
<1>3. live \in Seq(Tile) /\ Ids(live) \subseteq TileIds
  BY <1>2, IdsOf DEF Board
<1>4. to \in Point \cup Rect /\ (kind = "resize" => to \in Rect)
  OBVIOUS
<1>5. gesture' \in Gestures /\ gesture'.kind = kind /\ gesture'.to = to /\ gesture'.base = live
      /\ gesture'.id = t
  BY <1>1, <1>3, <1>4 DEF Gestures
<1>6. GestureFits'
  BY <1>1, <1>2, <1>4, <1>5 DEF GestureFits
<1>7. Stored' /\ bp' \in Breakpoints
  BY <1>1 DEF Stored, Breakpoints
<1> QED BY <1>6, <1>7 DEF BoardInv

LEMMA StartDragKeeps ==
  ASSUME BoardInv, NEW live \in {baseLayout}, NEW t \in Tiles, StartDrag(live, t)
  PROVE  BoardInv'
<1> DEFINE start == TileOf(live, t)
           to == [x |-> start.x, y |-> start.y]
<1>1. t \in Ids(live) /\ Begin(live, "drag", t, {}, to)
  BY DEF StartDrag
<1>2. Stored /\ bp = "lg"
  BY <1>1 DEF BoardInv, Begin, canEdit
<1>3. live \in Seq(Tile)
  BY <1>2, LiveIsBoard DEF Board
<1>4. start \in Tile
  BY <1>1, <1>3, TileOfIs
<1>5. to \in Point
  <2> HIDE DEF start
  <2> QED BY <1>4, TileFields DEF Point
<1> HIDE DEF to
<1> QED BY <1>1, <1>5, BeginKeeps

LEMMA StartResizeKeeps ==
  ASSUME BoardInv, NEW live \in {baseLayout}, NEW t \in Tiles, NEW handle \in Handles,
         StartResize(live, t, handle)
  PROVE  BoardInv'
<1> DEFINE to == ResizeRect(TileOf(live, t), handle, 0, 0, GRID_COLS)
<1>1. t \in Ids(live) /\ Begin(live, "resize", t, handle, to)
  BY DEF StartResize
<1>2. Stored /\ bp = "lg"
  BY <1>1 DEF BoardInv, Begin, canEdit
<1>3. live \in Seq(Tile)
  BY <1>2, LiveIsBoard DEF Board
<1>4. TileOf(live, t) \in Tile
  BY <1>1, <1>3, TileOfIs
<1>5. to \in Rect
  BY <1>4, GridColsCount, ResizeRectIsRect
<1> HIDE DEF to
<1> QED BY <1>1, <1>5, BeginKeeps

LEMMA AimKeeps ==
  ASSUME BoardInv, Interacting, NEW to,
         to \in Rect \/ (gesture.kind = "drag" /\ to \in Point), Aim(to)
  PROVE  BoardInv'
<1>1. /\ gesture \in Gestures /\ editing /\ bp = "lg"
      /\ Board(gesture.base, GRID_COLS) /\ gesture.id \in Ids(gesture.base)
  BY DEF BoardInv, GestureFits
<1>2. gesture' = [gesture EXCEPT !.to = to, !.moves = @ + 1]
      /\ UNCHANGED << panels, grid, editing, bp >>
  BY DEF Aim
<1>3. to \in Point \cup Rect /\ (gesture.kind = "resize" => to \in Rect)
  OBVIOUS
<1> DEFINE g == [gesture EXCEPT !.to = to]
<1>4. g \in Gestures /\ g.to = to /\ g.kind = gesture.kind /\ g.base = gesture.base /\ g.id = gesture.id
  BY <1>1, <1>3 DEF Gestures
<1>5. gesture' = [g EXCEPT !.moves = @ + 1]
  BY <1>1, <1>2 DEF Gestures
<1> HIDE DEF g
<1>6. /\ gesture' \in Gestures /\ gesture'.to = to /\ gesture'.kind = gesture.kind
      /\ gesture'.base = gesture.base /\ gesture'.id = gesture.id
  BY <1>4, <1>5 DEF Gestures
<1>7. GestureFits'
  BY <1>1, <1>2, <1>3, <1>6 DEF GestureFits
<1>8. Stored' /\ bp' \in Breakpoints
  BY <1>1, <1>2 DEF BoardInv, Stored
<1> QED BY <1>7, <1>8 DEF BoardInv

LEMMA DragToKeeps ==
  ASSUME BoardInv, NEW x \in 0 .. GRID_COLS - 1, NEW y \in 0 .. MaxRow, DragTo(x, y)
  PROVE  BoardInv'
<1> DEFINE cur == TileOf(gesture.base, gesture.id)
           to == [x |-> Lesser(x, GRID_COLS - cur.w), y |-> y]
<1>1. gesture.kind = "drag" /\ Aim(to)
  BY DEF DragTo
<1>2. Interacting
  BY <1>1 DEF Interacting, NoGesture
<1>3. gesture.base \in Seq(Tile) /\ gesture.id \in Ids(gesture.base)
  BY <1>2 DEF BoardInv, GestureFits, Board
<1>4. cur \in Tile
  BY <1>3, TileOfIs
<1>5. to \in Point
  <2> HIDE DEF cur
  <2>1. cur.w \in Int /\ GRID_COLS \in Int /\ x \in Int /\ y \in Int
    BY <1>4, TileFields, GridAssumption, BoardAssumption
  <2> QED BY <2>1 DEF Point, Lesser
<1> HIDE DEF to
<1> QED BY <1>1, <1>2, <1>5, AimKeeps

LEMMA ResizeToKeeps ==
  ASSUME BoardInv, NEW dx \in -MaxDelta .. MaxDelta, NEW dy \in -MaxDelta .. MaxDelta,
         ResizeTo(dx, dy)
  PROVE  BoardInv'
<1> DEFINE cur == TileOf(gesture.base, gesture.id)
           to == ResizeRect(cur, gesture.handle, dx, dy, GRID_COLS)
<1>1. gesture.kind = "resize" /\ Aim(to)
  BY DEF ResizeTo
<1>2. Interacting
  BY <1>1 DEF Interacting, NoGesture
<1>3. gesture.base \in Seq(Tile) /\ gesture.id \in Ids(gesture.base)
  BY <1>2 DEF BoardInv, GestureFits, Board
<1>4. cur \in Tile
  BY <1>3, TileOfIs
<1>5. to \in Rect
  <2> HIDE DEF cur
  <2>1. dx \in Int /\ dy \in Int
    BY BoardAssumption
  <2> QED BY <1>4, <2>1, GridColsCount, ResizeRectIsRect
<1> HIDE DEF to
<1> QED BY <1>1, <1>2, <1>5, AimKeeps

---------------------------------------------------------------------------
(* Commands: a new layout is stored *)

LEMMA CommitKeeps ==
  ASSUME BoardInv, NEW next \in Seq(Tile), Distinct(next), Commit(next),
         panels' \in Seq(Tiles), NoRepeats(panels'), UNCHANGED << gesture, editing, bp >>
  PROVE  BoardInv'
<1>1. Stored'
  BY DEF Commit, Stored
<1> QED BY <1>1, GestureKept

LEMMA EditTileKeeps ==
  ASSUME BoardInv, NEW live \in {baseLayout}, NEW t, NEW next, EditTile(live, t, next),
         next \in Seq(Tile), Distinct(next)
  PROVE  BoardInv'
<1>1. Commit(next) /\ UNCHANGED << panels, gesture, editing, bp >>
  BY DEF EditTile
<1>2. panels' \in Seq(Tiles) /\ NoRepeats(panels')
  BY <1>1 DEF BoardInv, Stored
<1> QED BY <1>1, <1>2, CommitKeeps

\* What an operation on a tile of the layout drawn last starts from.
LEMMA LiveTile ==
  ASSUME BoardInv, NEW live \in {baseLayout}, NEW t \in Ids(live), canEdit
  PROVE  live \in Seq(Tile) /\ Distinct(live) /\ TileOf(live, t) \in Tile
<1>1. Stored /\ bp = "lg"
  BY DEF BoardInv, canEdit
<1>2. live \in Seq(Tile) /\ Distinct(live)
  BY <1>1, LiveIsBoard DEF Board
<1> QED BY <1>2, TileOfIs

LEMMA KeyMoveKeeps ==
  ASSUME BoardInv, NEW live \in {baseLayout}, NEW t \in Tiles, NEW d \in Steps,
         KeyMove(live, t, d[1], d[2])
  PROVE  BoardInv'
<1> DEFINE cur == TileOf(live, t)
           x == cur.x + d[1]
           y == cur.y + d[2]
           next == MoveItem(live, t, x, y, GRID_COLS)
<1>1. EditTile(live, t, next)
  BY DEF KeyMove
<1>2. canEdit /\ t \in Ids(live)
  BY <1>1 DEF EditTile
<1>3. live \in Seq(Tile) /\ Distinct(live) /\ cur \in Tile
  BY <1>2, LiveTile
<1>4. d[1] \in Int /\ d[2] \in Int
  BY DEF Steps
<1>5. x \in Int /\ y \in Int
  <2> HIDE DEF cur
  <2> QED BY <1>3, <1>4, TileFields
<1> HIDE DEF x, y
<1>6. next \in Seq(Tile) /\ Distinct(next)
  BY <1>2, <1>3, <1>5, GridColsCount, MoveItemIsBoard DEF Board
<1> HIDE DEF next
<1> QED BY <1>1, <1>6, EditTileKeeps

LEMMA KeyResizeKeeps ==
  ASSUME BoardInv, NEW live \in {baseLayout}, NEW t \in Tiles, NEW d \in Steps,
         KeyResize(live, t, d[1], d[2])
  PROVE  BoardInv'
<1> DEFINE cur == TileOf(live, t)
           rect == ResizeRect(cur, {"s", "e"}, d[1], d[2], GRID_COLS)
           next == ResizeItem(live, t, rect, GRID_COLS)
<1>1. EditTile(live, t, next)
  BY DEF KeyResize
<1>2. canEdit /\ t \in Ids(live)
  BY <1>1 DEF EditTile
<1>3. live \in Seq(Tile) /\ Distinct(live) /\ cur \in Tile
  BY <1>2, LiveTile
<1>4. d[1] \in Int /\ d[2] \in Int
  BY DEF Steps
<1>5. rect \in Rect
  <2> HIDE DEF cur
  <2> QED BY <1>3, <1>4, GridColsCount, ResizeRectIsRect
<1> HIDE DEF rect
<1>6. next \in Seq(Tile) /\ Distinct(next)
  BY <1>2, <1>3, <1>5, GridColsCount, ResizeItemIsBoard DEF Board
<1> HIDE DEF next
<1> QED BY <1>1, <1>6, EditTileKeeps

LEMMA SetSizeKeeps ==
  ASSUME BoardInv, NEW live \in {baseLayout}, NEW t \in Tiles,
         SetSize(live, t, DefaultSize[t].w, DefaultSize[t].h)
  PROVE  BoardInv'
<1> DEFINE cur == TileOf(live, t)
           rect == [x |-> cur.x, y |-> cur.y, w |-> DefaultSize[t].w, h |-> DefaultSize[t].h]
           next == ResizeItem(live, t, rect, GRID_COLS)
<1>1. EditTile(live, t, next)
  BY DEF SetSize
<1>2. canEdit /\ t \in Ids(live)
  BY <1>1 DEF EditTile
<1>3. live \in Seq(Tile) /\ Distinct(live) /\ cur \in Tile
  BY <1>2, LiveTile
<1>5. rect \in Rect
  <2> HIDE DEF cur
  <2>1. cur.x \in Int /\ cur.y \in Int
    BY <1>3, TileFields
  <2> QED BY <2>1, BoardAssumption DEF Rect
<1> HIDE DEF rect
<1>6. next \in Seq(Tile) /\ Distinct(next)
  BY <1>2, <1>3, <1>5, GridColsCount, ResizeItemIsBoard DEF Board
<1> HIDE DEF next
<1> QED BY <1>1, <1>6, EditTileKeeps

\* A tile is added to the panels.
LEMMA OneMorePanel ==
  ASSUME BoardInv, NEW t \in Tiles, t \notin ToSet(panels), panels' = Append(panels, t)
  PROVE  panels' \in Seq(Tiles) /\ NoRepeats(panels')
<1>1. panels \in Seq(Tiles) /\ NoRepeats(panels)
  BY DEF BoardInv, Stored
<1>2. /\ panels' \in Seq(Tiles) /\ DOMAIN panels = 1 .. Len(panels) /\ Len(panels) \in Nat
      /\ DOMAIN panels' = 1 .. Len(panels) + 1
      /\ \A i \in 1 .. Len(panels) : panels'[i] = panels[i]
      /\ panels'[Len(panels) + 1] = t
  BY <1>1
<1>3. \A i \in 1 .. Len(panels) : panels[i] # t
  BY <1>2 DEF ToSet
<1> QED BY <1>1, <1>2, <1>3 DEF NoRepeats

LEMMA DuplicateKeeps ==
  ASSUME BoardInv, NEW live \in {baseLayout}, NEW t \in Tiles, NEW new \in Tiles,
         Duplicate(live, t, new)
  PROVE  BoardInv'
<1> DEFINE cur == TileOf(live, t)
           next == InFirstFit(live, new, cur.w, cur.h, GRID_COLS)
<1>1. /\ canEdit /\ t \in Ids(live) /\ new \notin ToSet(panels) /\ Commit(next)
      /\ panels' = Append(panels, new) /\ UNCHANGED << gesture, editing, bp >>
  BY DEF Duplicate
<1>2. live \in Seq(Tile) /\ Distinct(live) /\ cur \in Tile
  BY <1>1, LiveTile
<1>3. new \notin Ids(live)
  <2>1. Stored /\ bp = "lg"
    BY <1>1 DEF BoardInv, canEdit
  <2> QED BY <1>1, <2>1, LiveIsBoard, KeysAre
<1>4. next \in Seq(Tile) /\ Distinct(next)
  <2> HIDE DEF cur
  <2>1. cur.w \in Int /\ cur.h \in Int /\ new \in TileIds
    BY <1>2, TileFields, BoardAssumption DEF TileIds
  <2> QED BY <1>2, <1>3, <2>1, GridColsCount, InFirstFitKeeps
<1>5. panels' \in Seq(Tiles) /\ NoRepeats(panels')
  BY <1>1, OneMorePanel
<1> HIDE DEF next
<1> QED BY <1>1, <1>4, <1>5, CommitKeeps

LEMMA InsertBundleKeeps ==
  ASSUME BoardInv, NEW t \in Tiles, InsertBundle(t)
  PROVE  BoardInv'
<1> DEFINE packed == Compact(grid, GRID_COLS)
           next == InFirstFit(packed, t, DefaultSize[t].w, DefaultSize[t].h, GRID_COLS)
<1>1. /\ t \notin ToSet(panels) /\ t \notin Ids(grid) /\ Commit(next)
      /\ panels' = Append(panels, t) /\ UNCHANGED << gesture, editing, bp >>
  BY DEF InsertBundle
<1>2. grid \in Seq(Tile) /\ Distinct(grid)
  BY DEF BoardInv, Stored
<1>3. packed \in Seq(Tile) /\ Distinct(packed) /\ SameIds(packed, grid)
  BY <1>2, GridColsCount, CompactIsBoard DEF Board
<1> HIDE DEF packed
<1>4. t \notin Ids(packed)
  BY <1>1, <1>2, <1>3, SameIdsIds
<1>5. next \in Seq(Tile) /\ Distinct(next)
  <2>1. t \in TileIds /\ DefaultSize[t].w \in Int /\ DefaultSize[t].h \in Int
    BY BoardAssumption DEF TileIds
  <2> QED BY <1>3, <1>4, <2>1, GridColsCount, InFirstFitKeeps
<1>6. panels' \in Seq(Tiles) /\ NoRepeats(panels')
  BY <1>1, OneMorePanel
<1> HIDE DEF next
<1> QED BY <1>1, <1>5, <1>6, CommitKeeps

LEMMA RemoveTileKeeps ==
  ASSUME BoardInv, NEW t \in Tiles, RemoveTile(t)
  PROVE  BoardInv'
<1> DEFINE seen == Keeping(grid, ToSet(keys) \cup {t})
           next == RemoveAndFill(seen, t, GRID_COLS)
<1>1. /\ panels' = Picked(panels, ToSet(panels) \ {t}) /\ Commit(next)
      /\ UNCHANGED << gesture, editing, bp >>
  BY DEF RemoveTile
<1>2. grid \in Seq(Tile) /\ Distinct(grid) /\ panels \in Seq(Tiles) /\ NoRepeats(panels)
  BY DEF BoardInv, Stored
<1>3. seen \in Seq(Tile) /\ Distinct(seen)
  BY <1>2, KeepingKeeps
<1> HIDE DEF seen
<1>4. next \in Seq(Tile) /\ Distinct(next)
  BY <1>3, GridColsCount, RemoveAndFillIsBoard DEF Board
<1>5. panels' \in Seq(Tiles) /\ NoRepeats(panels')
  BY <1>1, <1>2, PickedKeeps
<1> HIDE DEF next
<1> QED BY <1>1, <1>4, <1>5, CommitKeeps

LEMMA ArrangeLayoutKeeps ==
  ASSUME BoardInv, ArrangeLayout
  PROVE  BoardInv'
<1> DEFINE seen == Keeping(grid, ToSet(keys))
           next == AutoArrange(seen, GRID_COLS)
<1>1. Commit(next) /\ UNCHANGED << panels, gesture, editing, bp >>
  BY DEF ArrangeLayout
<1>2. grid \in Seq(Tile) /\ Distinct(grid)
  BY DEF BoardInv, Stored
<1>3. seen \in Seq(Tile) /\ Distinct(seen)
  BY <1>2, KeepingKeeps
<1> HIDE DEF seen
<1>4. next \in Seq(Tile) /\ SameIds(next, seen)
  BY <1>3, GridColsCount, AutoArrangeKeeps
<1>5. Distinct(next)
  BY <1>3, <1>4, SameIdsIds
<1>6. panels' \in Seq(Tiles) /\ NoRepeats(panels')
  BY <1>1 DEF BoardInv, Stored
<1> HIDE DEF next
<1> QED BY <1>1, <1>4, <1>5, <1>6, CommitKeeps

LEMMA BlinkKeeps ==
  ASSUME BoardInv, NEW t \in Tiles, Blink(t)
  PROVE  BoardInv'
BY GestureKept DEF Blink, BoardInv, Stored

LEMMA OnTileKeeps ==
  ASSUME BoardInv, NEW live \in {baseLayout}, NEW t \in Tiles, OnTile(live, t)
  PROVE  BoardInv'
BY StartDragKeeps, StartResizeKeeps, SetSizeKeeps, KeyMoveKeeps, KeyResizeKeeps, DuplicateKeeps
   DEF OnTile

LEMMA BoardInvStep == BoardInv /\ [Next]_vars => BoardInv'
<1> SUFFICES ASSUME BoardInv, [Next]_vars PROVE BoardInv'
  OBVIOUS
<1>1. CASE UNCHANGED vars
  <2>1. Stored' /\ UNCHANGED << gesture, editing, bp >>
    BY <1>1 DEF vars, BoardInv, Stored
  <2> QED BY <2>1, GestureKept
<1>2. CASE WriteBack
  BY <1>2, WriteBackKeeps
<1>3. CASE Drop
  BY <1>3, DropKeeps
<1>4. CASE Cancel \/ ToggleEdit \/ \E b \in Breakpoints : SetWidth(b)
  BY <1>4, ViewKeeps
<1>5. CASE ArrangeLayout
  BY <1>5, ArrangeLayoutKeeps
<1>6. CASE \E x \in 0 .. GRID_COLS - 1, y \in 0 .. MaxRow : DragTo(x, y)
  BY <1>6, DragToKeeps
<1>7. CASE \E dx, dy \in -MaxDelta .. MaxDelta : ResizeTo(dx, dy)
  BY <1>7, ResizeToKeeps
<1>8. CASE \E live \in {baseLayout}, t \in Tiles : OnTile(live, t)
  BY <1>8, OnTileKeeps
<1>9. CASE \E t \in Tiles : RemoveTile(t) \/ InsertBundle(t) \/ Blink(t)
  BY <1>9, RemoveTileKeeps, InsertBundleKeeps, BlinkKeeps
<1> QED BY <1>1, <1>2, <1>3, <1>4, <1>5, <1>6, <1>7, <1>8, <1>9 DEF Next

\* What is stored stays a list of tiles without repetition, and a gesture
\* always runs from a board (GridBoard.tsx, DashboardPage.tsx).
THEOREM BoardKept == Spec => []BoardInv
<1>1. Init => BoardInv
  BY BoardInvInit
<1>2. BoardInv /\ [Next]_vars => BoardInv'
  BY BoardInvStep
<1> QED BY <1>1, <1>2, PTL DEF Spec

---------------------------------------------------------------------------
(* Widths of a shelf *)

\* `W` sums the widths of the first pieces of `s`.
Prefix(W, s) ==
  /\ W \in [0 .. Len(s) -> Int] /\ W[0] = 0
  /\ \A k \in 1 .. Len(s) : W[k] = W[k - 1] + s[k].w

Prefixed(s) == \E W : Prefix(W, s) /\ ShelfWidth(s) = W[Len(s)]

LEMMA PieceFields ==
  ASSUME NEW e \in Piece
  PROVE  /\ e.id \in TileIds /\ e.w \in Int /\ e.h \in Int /\ e.k \in Range4
         /\ e.k.minW \in Int /\ e.k.maxW \in Int /\ e.k.minH \in Int /\ e.k.maxH \in Int
BY DEF Piece, Range4

LEMMA WidthIsSum ==
  ASSUME NEW s \in Seq(Piece)
  PROVE  Prefixed(s)
<1>1. PICK f \in [0 .. Len(s) -> Int] :
           /\ ShelfWidth(s) = f[Len(s)]
           /\ f[0] = 0
           /\ \A k \in 1 .. Len(s) : f[k] = f[k - 1] + s[k].w
  BY WidthFold
<1> QED BY <1>1 DEF Prefixed, Prefix

LEMMA SumIsUnique ==
  ASSUME NEW s \in Seq(Piece), NEW W, Prefix(W, s)
  PROVE  ShelfWidth(s) = W[Len(s)]
<1> DEFINE n == Len(s)
<1>1. n \in Nat
  OBVIOUS
<1>2. PICK f : Prefix(f, s) /\ ShelfWidth(s) = f[n]
  BY WidthIsSum DEF Prefixed
<1> DEFINE S == {k \in 0 .. n : f[k] = W[k]}
<1>3. 0 \in S
  BY <1>1, <1>2 DEF Prefix
<1>4. \A k \in 0 .. n - 1 : k \in S => k + 1 \in S
  <2> SUFFICES ASSUME NEW k \in 0 .. n - 1, k \in S PROVE k + 1 \in S
    OBVIOUS
  <2>1. k + 1 \in 1 .. n /\ (k + 1) - 1 = k /\ k + 1 \in 0 .. n
    BY <1>1
  <2>2. f[k + 1] = f[k] + s[k + 1].w /\ W[k + 1] = W[k] + s[k + 1].w
    BY <1>2, <2>1 DEF Prefix
  <2> QED BY <2>1, <2>2
<1>5. 0 .. n \subseteq S
  <2> HIDE DEF S
  <2> QED BY <1>1, <1>3, <1>4, InductionUpTo
<1> QED BY <1>1, <1>2, <1>5

LEMMA PrefixGrows ==
  ASSUME NEW s \in Seq(Piece), \A k \in 1 .. Len(s) : s[k].w >= 0, NEW W, Prefix(W, s)
  PROVE  \A i, j \in 0 .. Len(s) : i <= j => W[i] <= W[j]
<1> DEFINE n == Len(s)
<1>1. n \in Nat /\ \A k \in 1 .. n : s[k].w \in Int
  <2>1. n \in Nat /\ \A k \in 1 .. n : s[k] \in Piece
    OBVIOUS
  <2> QED BY <2>1, PieceFields
<1>2. ASSUME NEW i \in 0 .. n PROVE \A j \in 0 .. n : i <= j => W[i] <= W[j]
  <2> DEFINE S == {j \in 0 .. n : i <= j => W[i] <= W[j]}
  <2>0. W[i] \in Int
    BY <1>1, <1>2 DEF Prefix
  <2>1. 0 \in S
    <3>1. CASE i = 0
      BY <1>1, <2>0, <3>1
    <3>2. CASE i # 0
      BY <1>1, <3>2
    <3> QED BY <3>1, <3>2
  <2>2. \A j \in 0 .. n - 1 : j \in S => j + 1 \in S
    <3> SUFFICES ASSUME NEW j \in 0 .. n - 1, j \in S PROVE j + 1 \in S
      OBVIOUS
    <3>1. j + 1 \in 1 .. n /\ (j + 1) - 1 = j /\ j + 1 \in 0 .. n /\ j \in 0 .. n
      BY <1>1
    <3>2. W[j + 1] = W[j] + s[j + 1].w /\ s[j + 1].w >= 0 /\ s[j + 1].w \in Int /\ W[j] \in Int
      BY <1>1, <3>1 DEF Prefix
    <3>3. CASE i = j + 1
      BY <2>0, <3>1, <3>3
    <3>4. CASE i # j + 1
      <4>1. i <= j + 1 => i <= j
        BY <1>1, <3>4
      <4> QED BY <2>0, <3>1, <3>2, <4>1
    <3> QED BY <3>3, <3>4
  <2>3. 0 .. n \subseteq S
    <3> HIDE DEF S
    <3> QED BY <1>1, <2>1, <2>2, InductionUpTo
  <2> QED BY <2>3
<1> QED BY <1>2

LEMMA WidthOfNone == ShelfWidth(<<>>) = 0
<1>1. <<>> \in Seq(Piece) /\ Len(<<>>) = 0
  OBVIOUS
<1>2. Prefix([i \in 0 .. 0 |-> 0], <<>>)
  BY DEF Prefix
<1> QED BY <1>1, <1>2, SumIsUnique

LEMMA WidthOfOneMore ==
  ASSUME NEW s \in Seq(Piece), NEW e \in Piece
  PROVE  /\ Append(s, e) \in Seq(Piece) /\ ShelfWidth(s) \in Int
         /\ ShelfWidth(Append(s, e)) = ShelfWidth(s) + e.w
<1> DEFINE n == Len(s)
           r == Append(s, e)
<1>1. /\ n \in Nat /\ r \in Seq(Piece) /\ Len(r) = n + 1 /\ r[n + 1] = e
      /\ \A k \in 1 .. n : r[k] = s[k]
  OBVIOUS
<1>2. PICK W : Prefix(W, s) /\ ShelfWidth(s) = W[n]
  BY WidthIsSum DEF Prefixed
<1>3. e.w \in Int
  BY PieceFields
<1>4. W[n] \in Int
  BY <1>1, <1>2 DEF Prefix
<1> DEFINE V == [k \in 0 .. n + 1 |-> IF k = n + 1 THEN W[n] + e.w ELSE W[k]]
<1> HIDE DEF r
<1>5. Prefix(V, r)
  <2>1. \A k \in 0 .. n : W[k] \in Int /\ k \in 0 .. n + 1 /\ k # n + 1 /\ V[k] = W[k]
    BY <1>1, <1>2 DEF Prefix
  <2>2. n + 1 \in 0 .. n + 1 /\ V[n + 1] = W[n] + e.w
    BY <1>1
  <2>3. V \in [0 .. n + 1 -> Int]
    <3>1. \A k \in 0 .. n + 1 : V[k] \in Int
      <4> SUFFICES ASSUME NEW k \in 0 .. n + 1 PROVE V[k] \in Int
        OBVIOUS
      <4>1. CASE k = n + 1
        BY <1>3, <1>4, <2>2, <4>1
      <4>2. CASE k # n + 1
        <5>1. k \in 0 .. n
          BY <1>1, <4>2
        <5> QED BY <2>1, <5>1
      <4> QED BY <4>1, <4>2
    <3> QED BY <3>1
  <2>4. V[0] = 0
    BY <1>1, <1>2, <2>1 DEF Prefix
  <2>5. ASSUME NEW k \in 1 .. n + 1 PROVE V[k] = V[k - 1] + r[k].w
    <3>1. CASE k = n + 1
      <4>1. k - 1 = n /\ n \in 0 .. n
        BY <1>1, <3>1
      <4> QED BY <1>1, <2>1, <2>2, <3>1, <4>1
    <3>2. CASE k # n + 1
      <4>1. k \in 1 .. n /\ k - 1 \in 0 .. n /\ k \in 0 .. n
        BY <1>1, <3>2
      <4>2. V[k] = W[k] /\ V[k - 1] = W[k - 1] /\ r[k] = s[k]
        BY <1>1, <2>1, <4>1
      <4> QED BY <1>2, <4>1, <4>2 DEF Prefix
    <3> QED BY <3>1, <3>2
  <2> HIDE DEF V
  <2> QED BY <1>1, <2>3, <2>4, <2>5 DEF Prefix
<1>6. V[n + 1] = W[n] + e.w
  BY <1>1
<1> HIDE DEF V
<1>7. ShelfWidth(r) = V[n + 1]
  BY <1>1, <1>5, SumIsUnique
<1> QED BY <1>1, <1>2, <1>4, <1>6, <1>7 DEF r

---------------------------------------------------------------------------
(* A shelf is justified *)

\* Constraints that can be met in `cols` columns.
Ranged(k, cols) ==
  /\ k \in Range4
  /\ 1 <= k.minW /\ k.minW <= k.maxW /\ k.maxW <= cols
  /\ 1 <= k.minH /\ k.minH <= k.maxH

PieceFits(e, cols) ==
  e \in Piece /\ Ranged(e.k, cols) /\ e.w \in e.k.minW .. e.k.maxW /\ e.h \in e.k.minH .. e.k.maxH

ShelfFits(s, cols) ==
  /\ s \in Seq(Piece) /\ ShelfWidth(s) \in Int /\ ShelfWidth(s) <= cols
  /\ \A i \in 1 .. Len(s) : PieceFits(s[i], cols)

\* The pieces of `s` in other widths.
Reshelved(r, s) ==
  /\ Len(r) = Len(s)
  /\ \A i \in 1 .. Len(s) : r[i].id = s[i].id /\ r[i].h = s[i].h /\ r[i].k = s[i].k

Wider(q, e, d) ==
  /\ q \in Piece /\ q.id = e.id /\ q.h = e.h /\ q.k = e.k /\ q.w = e.w + d
  /\ d \in {0, 1} /\ (d = 1 => e.w < e.k.maxW)

GrowsBy(a, b, e) ==
  \E q \in Piece : /\ Wider(q, e, a.left - b.left) /\ b.row = << q >> \o a.row
                   /\ a.left >= 0 => b.left >= 0

LEMMA GrownGrows ==
  ASSUME NEW a \in Growing, NEW e \in Piece, NEW cols \in Int
  PROVE  Grown(a, e, cols) \in Growing /\ GrowsBy(a, Grown(a, e, cols), e)
<1> DEFINE b == Grown(a, e, cols)
           q == [e EXCEPT !.w = @ + 1]
<1>1. a.left \in Int /\ a.row \in Seq(Piece)
  BY DEF Growing
<1>2. e.w \in Int /\ e.k.maxW \in Int
  BY PieceFields
<1>3. CASE a.left > 0 /\ e.w < Lesser(cols, e.k.maxW)
  <2>1. b = [left |-> a.left - 1, row |-> << q >> \o a.row]
    BY <1>3 DEF Grown
  <2>2. q \in Piece /\ q.id = e.id /\ q.h = e.h /\ q.k = e.k /\ q.w = e.w + 1
    BY <1>2 DEF Piece
  <2>3. e.w < e.k.maxW
    BY <1>2, <1>3 DEF Lesser
  <2> HIDE DEF q, b
  <2>4. << q >> \o a.row \in Seq(Piece)
    BY <1>1, <2>2
  <2>5. b \in Growing
    BY <1>1, <2>1, <2>4 DEF Growing
  <2>6. a.left - b.left = 1 /\ b.row = << q >> \o a.row /\ (a.left >= 0 => b.left >= 0)
    BY <1>1, <1>3, <2>1
  <2>7. Wider(q, e, a.left - b.left)
    BY <2>2, <2>3, <2>6 DEF Wider
  <2> QED BY <2>2, <2>5, <2>6, <2>7 DEF GrowsBy, b
<1>4. CASE ~(a.left > 0 /\ e.w < Lesser(cols, e.k.maxW))
  <2>1. b = [left |-> a.left, row |-> << e >> \o a.row]
    BY <1>4 DEF Grown
  <2> HIDE DEF q, b
  <2>4. << e >> \o a.row \in Seq(Piece)
    BY <1>1
  <2>5. b \in Growing
    BY <1>1, <2>1, <2>4 DEF Growing
  <2>6. a.left - b.left = 0 /\ b.row = << e >> \o a.row /\ (a.left >= 0 => b.left >= 0)
    BY <1>1, <2>1
  <2>7. Wider(e, e, a.left - b.left)
    BY <1>2, <2>6 DEF Wider
  <2> QED BY <2>5, <2>6, <2>7 DEF GrowsBy, b
<1> QED BY <1>3, <1>4

LEMMA ReverseIs ==
  ASSUME NEW s \in Seq(Piece), NEW k \in 1 .. Len(s)
  PROVE  Reverse(s)[k] = s[Len(s) - k + 1] /\ Reverse(s)[k] \in Piece
<1>1. Len(s) - k + 1 \in 1 .. Len(s)
  OBVIOUS
<1> QED BY <1>1 DEF Reverse

LEMMA ShelfWidthIsInt ==
  ASSUME NEW s \in Seq(Piece)
  PROVE  ShelfWidth(s) \in Int
<1>1. PICK W : Prefix(W, s) /\ ShelfWidth(s) = W[Len(s)]
  BY WidthIsSum DEF Prefixed
<1>2. Len(s) \in 0 .. Len(s)
  OBVIOUS
<1> QED BY <1>1, <1>2 DEF Prefix

LEMMA GrowthsRun ==
  ASSUME NEW s \in Seq(Piece), NEW cols \in Int
  PROVE  Growths(s, cols)
<1>1. ShelfWidth(s) \in Int
  BY ShelfWidthIsInt
<1>2. \A a \in Growing, k \in 1 .. Len(s) : Grown(a, Reverse(s)[k], cols) \in Growing
  <2> TAKE a \in Growing, k \in 1 .. Len(s)
  <2>1. Reverse(s)[k] \in Piece
    BY ReverseIs
  <2> QED BY <2>1, GrownGrows
<1> QED BY <1>1, <1>2, GrownFold

LEMMA GrownOnceTyped ==
  ASSUME NEW s \in Seq(Piece), NEW cols \in Int
  PROVE  GrownOnce(s, cols) \in Seq(Piece)
<1>1. PICK f \in [0 .. Len(s) -> Growing] : GrownOnce(s, cols) = f[Len(s)].row
  BY GrowthsRun DEF Growths
<1>2. Len(s) \in 0 .. Len(s)
  OBVIOUS
<1> QED BY <1>1, <1>2 DEF Growing

\* `f` after `k` pieces from the right.
Grew(f, s, k) ==
  /\ Len(f[k].row) = k /\ f[k].left >= 0
  /\ \A i \in 1 .. k : Wider(f[k].row[i], s[Len(s) - k + i], f[k - i].left - f[(k - i) + 1].left)

LEMMA GrewOneMore ==
  ASSUME NEW s \in Seq(Piece), NEW cols \in Int, NEW f \in [0 .. Len(s) -> Growing],
         NEW k \in 0 .. Len(s) - 1, Grew(f, s, k), f[k + 1] = Grown(f[k], Reverse(s)[k + 1], cols)
  PROVE  Grew(f, s, k + 1)
<1> DEFINE n == Len(s)
           a == f[k]
           b == f[k + 1]
           e == s[n - k]
<1>1. n \in Nat /\ k + 1 \in 1 .. n /\ k \in 0 .. n /\ k + 1 \in 0 .. n /\ n - (k + 1) + 1 = n - k
      /\ k \in Nat /\ n - k \in 1 .. n
  OBVIOUS
<1>2. a \in Growing /\ b \in Growing /\ e \in Piece /\ Reverse(s)[k + 1] = e
  BY <1>1, ReverseIs
<1>3. PICK q \in Piece : /\ Wider(q, e, a.left - b.left) /\ b.row = << q >> \o a.row
                         /\ a.left >= 0 => b.left >= 0
  <2>1. GrowsBy(a, b, e)
    <3> HIDE DEF e
    <3> QED BY <1>2, GrownGrows
  <2> QED BY <2>1 DEF GrowsBy
<1>4. a.row \in Seq(Piece) /\ Len(a.row) = k /\ b.left >= 0
  BY <1>2, <1>3 DEF Growing, Grew
<1> DEFINE R == a.row
           T == b.row
<1>5. R \in Seq(Piece) /\ Len(R) = k /\ T = << q >> \o R
  BY <1>3, <1>4
<1> HIDE DEF R, T
<1>6. Len(T) = k + 1 /\ T[1] = q /\ \A i \in 2 .. k + 1 : T[i] = R[i - 1]
  BY <1>1, <1>5
<1>7. ASSUME NEW i \in 1 .. k + 1
      PROVE  Wider(T[i], s[n - (k + 1) + i], f[(k + 1) - i].left - f[((k + 1) - i) + 1].left)
  <2>1. CASE i = 1
    <3>1. n - (k + 1) + i = n - k /\ (k + 1) - i = k /\ ((k + 1) - i) + 1 = k + 1
      BY <1>1, <2>1
    <3> QED BY <1>3, <1>6, <2>1, <3>1
  <2>2. CASE i # 1
    <3> DEFINE j == i - 1
    <3>1. /\ j \in 1 .. k /\ n - (k + 1) + i = n - k + j /\ (k + 1) - i = k - j
          /\ ((k + 1) - i) + 1 = (k - j) + 1 /\ i \in 2 .. k + 1
      BY <1>1, <2>2
    <3>2. T[i] = R[j]
      BY <1>6, <3>1
    <3>3. Wider(R[j], s[n - k + j], f[k - j].left - f[(k - j) + 1].left)
      BY <3>1 DEF Grew, R
    <3> HIDE DEF j
    <3> QED BY <3>1, <3>2, <3>3
  <2> QED BY <2>1, <2>2
<1> QED BY <1>4, <1>6, <1>7 DEF Grew, T

LEMMA GrewAll ==
  ASSUME NEW s \in Seq(Piece), NEW cols \in Int, ShelfWidth(s) <= cols
  PROVE  \E f \in [0 .. Len(s) -> Growing] :
           /\ GrownOnce(s, cols) = f[Len(s)].row /\ f[0].left = cols - ShelfWidth(s)
           /\ \A k \in 0 .. Len(s) : Grew(f, s, k)
<1> DEFINE n == Len(s)
<1>1. n \in Nat /\ ShelfWidth(s) \in Int
  BY ShelfWidthIsInt
<1>2. PICK f \in [0 .. n -> Growing] :
    /\ GrownOnce(s, cols) = f[n].row
    /\ f[0] = [left |-> cols - ShelfWidth(s), row |-> <<>>]
    /\ \A k \in 1 .. n : f[k] = Grown(f[k - 1], Reverse(s)[k], cols)
  BY GrowthsRun DEF Growths
<1> DEFINE S == {k \in 0 .. n : Grew(f, s, k)}
<1>3. 0 \in S
  BY <1>1, <1>2 DEF Grew
<1>4. \A k \in 0 .. n - 1 : k \in S => k + 1 \in S
  <2> SUFFICES ASSUME NEW k \in 0 .. n - 1, k \in S PROVE k + 1 \in S
    OBVIOUS
  <2>1. k + 1 \in 1 .. n /\ (k + 1) - 1 = k /\ k + 1 \in 0 .. n
    BY <1>1
  <2>2. f[k + 1] = Grown(f[k], Reverse(s)[k + 1], cols)
    BY <1>2, <2>1
  <2>3. Grew(f, s, k + 1)
    BY <1>2, <2>1, <2>2, GrewOneMore
  <2> QED BY <2>1, <2>3
<1>5. 0 .. n \subseteq S
  <2> HIDE DEF S
  <2> QED BY <1>1, <1>3, <1>4, InductionUpTo
<1> QED BY <1>2, <1>5

LEMMA GrownOnceKeeps ==
  ASSUME NEW s, NEW cols \in Int, ShelfFits(s, cols)
  PROVE  ShelfFits(GrownOnce(s, cols), cols) /\ Reshelved(GrownOnce(s, cols), s)
<1> DEFINE n == Len(s)
           r == GrownOnce(s, cols)
<1>1. s \in Seq(Piece) /\ n \in Nat /\ ShelfWidth(s) <= cols
  BY DEF ShelfFits
<1>2. PICK f \in [0 .. n -> Growing] :
           /\ r = f[n].row /\ f[0].left = cols - ShelfWidth(s)
           /\ \A k \in 0 .. n : Grew(f, s, k)
  BY <1>1, GrewAll
<1> HIDE DEF r
<1>3. r \in Seq(Piece) /\ Len(r) = n /\ f[n].left >= 0
  <2>1. n \in 0 .. n
    BY <1>1
  <2>2. Len(f[n].row) = n /\ f[n].left >= 0
    BY <1>2, <2>1 DEF Grew
  <2>3. r \in Seq(Piece)
    BY <1>1, GrownOnceTyped DEF r
  <2> QED BY <1>2, <2>2, <2>3
<1>4. \A k \in 0 .. n : f[k].left \in Int
  BY <1>2 DEF Growing
<1>5. ASSUME NEW i \in 1 .. n PROVE Wider(r[i], s[i], f[n - i].left - f[(n - i) + 1].left)
  <2>1. n - n + i = i /\ n \in 0 .. n
    BY <1>1
  <2> QED BY <1>2, <2>1 DEF Grew
<1>6. PICK W : Prefix(W, s) /\ ShelfWidth(s) = W[n]
  BY <1>1, WidthIsSum DEF Prefixed
<1> DEFINE L == [k \in 0 .. n |-> f[k].left]
           V == [i \in 0 .. n |-> W[i] + L[n - i] - L[n]]
<1>7. /\ L \in [0 .. n -> Int] /\ L[n] >= 0 /\ L[0] = cols - W[n] /\ W[n] \in Int
      /\ \A i \in 1 .. n : Wider(r[i], s[i], L[n - i] - L[(n - i) + 1])
  <2>1. \A i \in 1 .. n : n - i \in 0 .. n /\ (n - i) + 1 \in 0 .. n
    BY <1>1
  <2>2. n \in 0 .. n /\ 0 \in 0 .. n
    BY <1>1
  <2> QED BY <1>2, <1>3, <1>4, <1>5, <1>6, <2>1, <2>2 DEF Prefix
<1> HIDE DEF L
<1>8. \A i \in 0 .. n : V[i] = W[i] + L[n - i] - L[n] /\ W[i] \in Int /\ L[n - i] \in Int /\ n - i \in 0 .. n
  <2> SUFFICES ASSUME NEW i \in 0 .. n
               PROVE  V[i] = W[i] + L[n - i] - L[n] /\ W[i] \in Int /\ L[n - i] \in Int /\ n - i \in 0 .. n
    OBVIOUS
  <2>1. n - i \in 0 .. n
    BY <1>1
  <2>2. W[i] \in Int
    BY <1>6 DEF Prefix
  <2>3. L[n - i] \in Int
    BY <1>7, <2>1
  <2> QED BY <2>1, <2>2, <2>3
<1>9. Prefix(V, r)
  <2>1. V \in [0 .. n -> Int]
    <3>1. L[n] \in Int
      BY <1>1, <1>7
    <3>2. \A i \in 0 .. n : V[i] \in Int
      BY <1>8, <3>1
    <3> QED BY <3>2
  <2>2. V[0] = 0
    <3>1. 0 \in 0 .. n /\ n - 0 = n /\ W[0] = 0
      BY <1>1, <1>6 DEF Prefix
    <3>2. V[0] = W[0] + L[n] - L[n] /\ L[n] \in Int
      BY <1>1, <1>7, <1>8, <3>1
    <3> QED BY <3>1, <3>2
  <2>3. ASSUME NEW i \in 1 .. n PROVE V[i] = V[i - 1] + r[i].w
    <3>1. i \in 0 .. n /\ i - 1 \in 0 .. n /\ n - (i - 1) = (n - i) + 1
      BY <1>1
    <3>2. W[i] = W[i - 1] + s[i].w
      BY <1>6 DEF Prefix
    <3>3. r[i].w = s[i].w + (L[n - i] - L[(n - i) + 1])
      BY <1>7 DEF Wider
    <3>4. s[i].w \in Int /\ L[n] \in Int
      BY <1>1, <1>7, PieceFields
    <3>5. V[i] = W[i] + L[n - i] - L[n] /\ V[i - 1] = W[i - 1] + L[(n - i) + 1] - L[n]
          /\ W[i - 1] \in Int /\ L[n - i] \in Int /\ L[(n - i) + 1] \in Int
      BY <1>8, <3>1
    <3> DEFINE a == W[i - 1]
               b == L[n - i]
               c == L[(n - i) + 1]
               w == s[i].w
               z == L[n]
    <3>6. /\ a \in Int /\ b \in Int /\ c \in Int /\ w \in Int /\ z \in Int
          /\ V[i] = (a + w) + b - z /\ V[i - 1] = a + c - z /\ r[i].w = w + (b - c)
      BY <3>2, <3>3, <3>4, <3>5
    <3> HIDE DEF V, a, b, c, w, z
    <3> QED BY <3>6
  <2> HIDE DEF V
  <2> QED BY <1>3, <2>1, <2>2, <2>3 DEF Prefix
<1>10. ShelfWidth(r) = cols - L[n] /\ L[n] \in Int
  <2>1. ShelfWidth(r) = V[n]
    <3> HIDE DEF V
    <3> QED BY <1>3, <1>9, SumIsUnique
  <2>2. n \in 0 .. n /\ n - n = 0
    BY <1>1
  <2>3. V[n] = W[n] + L[0] - L[n] /\ L[n] \in Int
    BY <1>7, <1>8, <2>2
  <2> QED BY <1>7, <2>1, <2>3
<1>11. ASSUME NEW i \in 1 .. n
       PROVE  PieceFits(r[i], cols) /\ r[i].id = s[i].id /\ r[i].h = s[i].h /\ r[i].k = s[i].k
  <2> DEFINE d == L[n - i] - L[(n - i) + 1]
             q == r[i]
             e == s[i]
  <2>1. Wider(q, e, d)
    BY <1>7
  <2>2. PieceFits(e, cols)
    BY DEF ShelfFits
  <2> HIDE DEF d, q, e
  <2>3. q \in Piece /\ q.id = e.id /\ q.h = e.h /\ q.k = e.k
    BY <2>1 DEF Wider
  <2>4. q.w \in e.k.minW .. e.k.maxW
    <3>1. e.w \in Int /\ e.k.minW \in Int /\ e.k.maxW \in Int
      BY <2>2, PieceFields DEF PieceFits
    <3> QED BY <2>1, <2>2, <3>1 DEF Wider, PieceFits
  <2>5. PieceFits(q, cols)
    BY <2>2, <2>3, <2>4 DEF PieceFits
  <2> QED BY <2>3, <2>5 DEF q, e
<1> QED BY <1>3, <1>7, <1>10, <1>11 DEF ShelfFits, Reshelved, r

LEMMA JustifiedKeeps ==
  ASSUME NEW s, NEW cols \in Colcount, ShelfFits(s, cols)
  PROVE  ShelfFits(Justified(s, cols), cols) /\ Reshelved(Justified(s, cols), s)
<1> DEFINE m == cols * 2
<1>1. m \in Nat /\ cols \in Int /\ cols \in Nat /\ s \in Seq(Piece)
  BY DEF Colcount, ShelfFits
<1>2. Justifications(s, cols)
  BY <1>1, GrownOnceTyped, JustifiedFold
<1>3. PICK f \in [0 .. m -> Seq(Piece)] :
    /\ Justified(s, cols) = f[m]
    /\ f[0] = s
    /\ \A k \in 1 .. m : f[k] = GrownOnce(f[k - 1], cols)
  BY <1>2 DEF Justifications
<1> HIDE DEF m
<1> DEFINE S == {k \in 0 .. m : ShelfFits(f[k], cols) /\ Reshelved(f[k], s)}
<1>4. 0 \in S
  BY <1>1, <1>3 DEF Reshelved
<1>5. \A k \in 0 .. m - 1 : k \in S => k + 1 \in S
  <2> SUFFICES ASSUME NEW k \in 0 .. m - 1, k \in S PROVE k + 1 \in S
    OBVIOUS
  <2>1. k + 1 \in 1 .. m /\ (k + 1) - 1 = k /\ k + 1 \in 0 .. m
    BY <1>1
  <2>2. f[k + 1] = GrownOnce(f[k], cols)
    BY <1>3, <2>1
  <2>3. ShelfFits(f[k + 1], cols) /\ Reshelved(f[k + 1], f[k])
    BY <1>1, <2>2, GrownOnceKeeps
  <2>4. Reshelved(f[k + 1], s)
    BY <2>3 DEF Reshelved
  <2> QED BY <2>1, <2>3, <2>4
<1>6. 0 .. m \subseteq S
  <2> HIDE DEF S
  <2> QED BY <1>1, <1>4, <1>5, InductionUpTo
<1>7. m \in S
  BY <1>1, <1>6
<1> QED BY <1>3, <1>7

---------------------------------------------------------------------------
(* A shelf is written *)

\* The tile a piece becomes, at column `x`.
Laying(e, x, y, height) ==
  [id |-> e.id, x |-> x, y |-> y, w |-> e.w, h |-> Clamp(height, e.k.minH, e.k.maxH)]

LEMMA LayingIsTile ==
  ASSUME NEW e \in Piece, NEW x \in Int, NEW y \in Int, NEW height \in Int
  PROVE  /\ Laying(e, x, y, height) \in Tile
         /\ Laying(e, x, y, height).id = e.id /\ Laying(e, x, y, height).x = x
         /\ Laying(e, x, y, height).y = y /\ Laying(e, x, y, height).w = e.w
         /\ Laying(e, x, y, height).h = Clamp(height, e.k.minH, e.k.maxH)
<1>1. Clamp(height, e.k.minH, e.k.maxH) \in Int
  BY PieceFields DEF Clamp, Lesser, Greater
<1> QED BY <1>1, PieceFields DEF Laying, Tile

LEMMA PutIs ==
  ASSUME NEW a \in Writing, NEW e \in Piece, NEW y \in Int, NEW height \in Int
  PROVE  /\ Put(a, e, y, height) \in Writing
         /\ Put(a, e, y, height).x = a.x + e.w
         /\ Put(a, e, y, height).out = Append(a.out, Laying(e, a.x, y, height))
<1>1. a.x \in Int /\ a.out \in Seq(Tile) /\ e.w \in Int
  BY PieceFields DEF Writing
<1>2. Laying(e, a.x, y, height) \in Tile
  BY <1>1, LayingIsTile
<1>3. Put(a, e, y, height) = [x |-> a.x + e.w, out |-> Append(a.out, Laying(e, a.x, y, height))]
  BY DEF Put, Laying
<1>4. Append(a.out, Laying(e, a.x, y, height)) \in Seq(Tile) /\ a.x + e.w \in Int
  BY <1>1, <1>2
<1> QED BY <1>3, <1>4 DEF Writing

\* `r` is `out` with the first `k` pieces of `row` after it.
WrittenBy(r, out, y, row, height, W, k) ==
  /\ r \in Seq(Tile) /\ Len(r) = Len(out) + k
  /\ \A i \in 1 .. Len(out) : r[i] = out[i]
  /\ \A i \in 1 .. k : r[Len(out) + i] = Laying(row[i], W[i - 1], y, height)

LEMMA WrittenIs ==
  ASSUME NEW row \in Seq(Piece), NEW out \in Seq(Tile), NEW y \in Int, NEW height \in Int,
         NEW W, Prefix(W, row)
  PROVE  WrittenBy(Written(out, y, row, height), out, y, row, height, W, Len(row))
<1> DEFINE n == Len(row)
           m == Len(out)
<1>1. n \in Nat /\ m \in Nat /\ \A k \in 1 .. n : row[k] \in Piece
  OBVIOUS
<1>2. Writings(row, out, y, height)
  BY <1>1, PutIs, WrittenFold
<1>3. PICK f \in [0 .. n -> Writing] :
    /\ Written(out, y, row, height) = f[n].out
    /\ f[0] = [x |-> 0, out |-> out]
    /\ \A k \in 1 .. n : f[k] = Put(f[k - 1], row[k], y, height)
  BY <1>2 DEF Writings
<1> DEFINE S == {k \in 0 .. n : f[k].x = W[k] /\ WrittenBy(f[k].out, out, y, row, height, W, k)}
<1>4. 0 \in S
  BY <1>1, <1>3 DEF Prefix, WrittenBy
<1>5. \A k \in 0 .. n - 1 : k \in S => k + 1 \in S
  <2> SUFFICES ASSUME NEW k \in 0 .. n - 1, k \in S PROVE k + 1 \in S
    OBVIOUS
  <2>1. k + 1 \in 1 .. n /\ (k + 1) - 1 = k /\ k + 1 \in 0 .. n /\ k \in 0 .. n /\ k \in Nat
    BY <1>1
  <2>2. f[k + 1] = Put(f[k], row[k + 1], y, height) /\ f[k] \in Writing /\ row[k + 1] \in Piece
    BY <1>1, <1>3, <2>1
  <2> DEFINE a == f[k]
             b == f[k + 1]
             e == row[k + 1]
             t == Laying(e, a.x, y, height)
             R == a.out
             T == b.out
  <2>3. b.x = a.x + e.w /\ T = Append(R, t)
    BY <2>2, PutIs
  <2>4. b.x = W[k + 1] /\ a.x = W[k]
    BY <2>1, <2>3 DEF Prefix
  <2>5. WrittenBy(R, out, y, row, height, W, k)
    OBVIOUS
  <2>6. t \in Tile
    <3>1. a.x \in Int
      BY <2>2 DEF Writing
    <3> HIDE DEF a, e
    <3>2. e \in Piece
      BY <2>2 DEF e
    <3> QED BY <3>1, <3>2, LayingIsTile
  <2>7. t = Laying(row[k + 1], W[(k + 1) - 1], y, height)
    BY <2>1, <2>4
  <2> HIDE DEF a, b, t, R, T
  <2>8. R \in Seq(Tile) /\ Len(R) = m + k
    BY <2>5 DEF WrittenBy
  <2>9. /\ T \in Seq(Tile) /\ Len(T) = m + (k + 1) /\ T[m + (k + 1)] = t
        /\ \A i \in 1 .. m + k : T[i] = R[i]
    <3> DEFINE l == m + k
    <3>1. l = Len(R) /\ l + 1 = m + (k + 1) /\ l \in Nat
      BY <1>1, <2>1, <2>8
    <3> HIDE DEF l
    <3>2. T \in Seq(Tile) /\ Len(T) = l + 1 /\ T[l + 1] = t /\ \A i \in 1 .. l : T[i] = R[i]
      BY <2>3, <2>6, <2>8, <3>1
    <3> QED BY <3>1, <3>2 DEF l
  <2>10. \A i \in 1 .. m : T[i] = out[i]
    BY <1>1, <2>1, <2>5, <2>9 DEF WrittenBy
  <2>11. ASSUME NEW i \in 1 .. k + 1 PROVE T[m + i] = Laying(row[i], W[i - 1], y, height)
    <3>1. CASE i = k + 1
      BY <2>7, <2>9, <3>1
    <3>2. CASE i # k + 1
      <4>1. i \in 1 .. k /\ m + i \in 1 .. m + k
        BY <1>1, <2>1, <3>2
      <4> QED BY <2>5, <2>9, <4>1 DEF WrittenBy
    <3> QED BY <3>1, <3>2
  <2>12. WrittenBy(T, out, y, row, height, W, k + 1)
    BY <2>9, <2>10, <2>11 DEF WrittenBy
  <2> QED BY <2>1, <2>4, <2>12 DEF b, T
<1>6. 0 .. n \subseteq S
  <2> HIDE DEF S
  <2> QED BY <1>1, <1>4, <1>5, InductionUpTo
<1>7. n \in S
  BY <1>1, <1>6
<1> QED BY <1>3, <1>7

---------------------------------------------------------------------------
(* Shelves below one another *)

\* In reading order, and off each other.
Follows(p, q) == (p.y = q.y /\ p.x + p.w <= q.x) \/ p.y + p.h <= q.y

\* Above row `y`, in the columns, and within the limits.
Inside(p, limits, cols, y) ==
  /\ p.x >= 0 /\ p.x + p.w <= cols /\ p.y >= 0 /\ p.y + p.h <= y
  /\ Ranged(limits[p.id], cols)
  /\ p.w \in limits[p.id].minW .. limits[p.id].maxW
  /\ p.h \in limits[p.id].minH .. limits[p.id].maxH

Laid(out, limits, cols, y) ==
  /\ out \in Seq(Tile)
  /\ \A i \in 1 .. Len(out) : Inside(out[i], limits, cols, y)
  /\ \A i, j \in 1 .. Len(out) : i < j => Follows(out[i], out[j])

ShelfFor(shelf, limits) == \A i \in 1 .. Len(shelf) : shelf[i].k = limits[shelf[i].id]

\* The ids of `s` in order are those of `a`, then those of `b`.
IdsJoin(s, a, b) ==
  /\ Len(s) = Len(a) + Len(b)
  /\ \A i \in 1 .. Len(a) : s[i].id = a[i].id
  /\ \A i \in 1 .. Len(b) : s[Len(a) + i].id = b[i].id

LEMMA TallestIs ==
  ASSUME NEW s \in Seq(Piece), s # <<>>
  PROVE  LET m == Max({e.h : e \in ToSet(s)})
         IN  m \in Int /\ \A i \in 1 .. Len(s) : s[i].h <= m
<1> DEFINE H == {e.h : e \in ToSet(s)}
<1>1. /\ Len(s) \in Nat /\ 1 \in 1 .. Len(s) /\ DOMAIN s = 1 .. Len(s)
      /\ \A i \in 1 .. Len(s) : s[i] \in Piece
  OBVIOUS
<1>2. \A e \in ToSet(s) : e \in Piece
  BY <1>1 DEF ToSet
<1>3. \A e \in Piece : e.h \in Int
  BY PieceFields
<1>4. \A i \in 1 .. Len(s) : s[i].h \in H
  BY <1>1 DEF ToSet
<1>5. H \in SUBSET Int
  BY <1>2, <1>3
<1>6. H # {}
  BY <1>1, <1>4
<1>7. IsFiniteSet(H)
  <2>1. IsFiniteSet(1 .. Len(s))
    BY <1>1, FS_Interval
  <2> DEFINE D == 1 .. Len(s)
             f == [i \in D |-> s[i].h]
  <2>2. \A t \in H : \E i \in D : f[i] = t
    BY <1>1 DEF ToSet
  <2>3. f \in [D -> H]
    BY <1>4
  <2> HIDE DEF D, f, H
  <2>4. f \in Surjection(D, H)
    BY <2>2, <2>3 DEF Surjection
  <2> QED BY <2>1, <2>4, FS_Surjection DEF D
<1> HIDE DEF H
<1>8. Max(H) \in H /\ \A y \in H : y <= Max(H)
  BY <1>5, <1>6, <1>7, MaxOf
<1> QED BY <1>4, <1>5, <1>8 DEF H

LEMMA FlushedLays ==
  ASSUME NEW limits, NEW cols \in Colcount, NEW y \in Nat, NEW out, Laid(out, limits, cols, y),
         NEW shelf, ShelfFits(shelf, cols), ShelfFor(shelf, limits)
  PROVE  LET f == Flushed(out, y, shelf, cols)
         IN  f.y \in Nat /\ Laid(f.out, limits, cols, f.y) /\ IdsJoin(f.out, out, shelf)
<1> DEFINE f == Flushed(out, y, shelf, cols)
           height == Max({e.h : e \in ToSet(shelf)})
           row == Justified(shelf, cols)
           r == Written(out, y, row, height)
           n == Len(shelf)
           m == Len(out)
<1>1. shelf \in Seq(Piece) /\ out \in Seq(Tile) /\ n \in Nat /\ m \in Nat
  BY DEF ShelfFits, Laid
<1>2. CASE shelf = <<>>
  <2>1. f.out = out /\ f.y = y
    BY <1>2 DEF Flushed
  <2> QED BY <1>1, <1>2, <2>1 DEF IdsJoin
<1>3. CASE shelf # <<>>
  <2>1. f.out = r /\ f.y = y + height
    BY <1>3 DEF Flushed
  <2>2. height \in Int /\ \A i \in 1 .. n : shelf[i].h <= height
    BY <1>1, <1>3, TallestIs
  <2> HIDE DEF height
  <2>3. ShelfFits(row, cols) /\ Reshelved(row, shelf)
    BY JustifiedKeeps
  <2> HIDE DEF row
  <2>4. row \in Seq(Piece) /\ Len(row) = n /\ \A i \in 1 .. n : row[i] \in Piece
    BY <1>1, <2>3 DEF ShelfFits, Reshelved
  <2>5. PICK W : Prefix(W, row) /\ ShelfWidth(row) = W[n]
    BY <2>4, WidthIsSum DEF Prefixed
  <2>6. WrittenBy(r, out, y, row, height, W, n)
    BY <1>1, <2>2, <2>4, <2>5, WrittenIs
  <2> HIDE DEF r
  <2>7. ASSUME NEW i \in 1 .. n
        PROVE  /\ row[i].id = shelf[i].id /\ row[i].k = limits[row[i].id] /\ Ranged(row[i].k, cols)
               /\ row[i].w \in row[i].k.minW .. row[i].k.maxW
               /\ row[i].k.minH <= height
    <3>1. row[i].id = shelf[i].id /\ row[i].k = shelf[i].k /\ row[i].h = shelf[i].h
      BY <2>3 DEF Reshelved
    <3>2. PieceFits(row[i], cols)
      BY <2>3, <2>4 DEF ShelfFits
    <3>3. row[i].k.minH <= row[i].h /\ row[i].k.minH \in Int /\ row[i].h \in Int
      BY <2>4, <3>2, PieceFields DEF PieceFits
    <3>4. row[i].h <= height
      BY <2>2, <3>1
    <3>5. row[i].k.minH <= height
      BY <2>2, <3>3, <3>4
    <3>6. row[i].k = limits[row[i].id]
      BY <3>1 DEF ShelfFor
    <3>7. Ranged(row[i].k, cols) /\ row[i].w \in row[i].k.minW .. row[i].k.maxW
      BY <3>2 DEF PieceFits
    <3> QED BY <3>1, <3>5, <3>6, <3>7
  <2>8. \A i \in 1 .. n : row[i].w \in Int /\ row[i].w >= 1
    <3> SUFFICES ASSUME NEW i \in 1 .. n PROVE row[i].w \in Int /\ row[i].w >= 1
      OBVIOUS
    <3>1. row[i].w \in Int /\ row[i].k.minW \in Int /\ row[i].k.maxW \in Int
      BY <2>4, PieceFields
    <3> QED BY <2>7, <3>1 DEF Ranged
  <2>9. /\ \A i \in 0 .. n : W[i] \in Int /\ 0 <= W[i] /\ W[i] <= cols
        /\ \A i, j \in 0 .. n : i <= j => W[i] <= W[j]
        /\ \A i \in 1 .. n : i - 1 \in 0 .. n /\ i \in 0 .. n /\ W[i] = W[i - 1] + row[i].w
    <3>1. \A i, j \in 0 .. n : i <= j => W[i] <= W[j]
      <4>1. \A k \in 1 .. Len(row) : row[k].w >= 0
        BY <2>4, <2>8
      <4> QED BY <2>4, <2>5, <4>1, PrefixGrows
    <3>2. \A i \in 0 .. n : W[i] \in Int
      BY <2>4, <2>5 DEF Prefix
    <3>3. W[n] <= cols /\ W[0] = 0
      BY <2>3, <2>5 DEF ShelfFits, Prefix
    <3>4. \A i \in 0 .. n : 0 <= W[i] /\ W[i] <= cols
      <4>1. 0 \in 0 .. n /\ n \in 0 .. n /\ cols \in Int
        BY <1>1 DEF Colcount
      <4> QED BY <3>1, <3>2, <3>3, <4>1
    <3>5. \A k \in 1 .. n : W[k] = W[k - 1] + row[k].w
      BY <2>4, <2>5 DEF Prefix
    <3>6. \A k \in 1 .. n : k - 1 \in 0 .. n /\ k \in 0 .. n
      BY <1>1
    <3>7. \A i, j \in 0 .. n : i <= j => W[i] <= W[j]
      BY <2>4, <3>1
    <3> QED BY <3>2, <3>4, <3>5, <3>6, <3>7
  <2>10. ASSUME NEW i \in 1 .. n
         PROVE  LET q == r[m + i]
                IN  /\ q \in Tile /\ q.id = row[i].id /\ q.x = W[i - 1] /\ q.y = y /\ q.w = row[i].w
                    /\ q.h \in row[i].k.minH .. row[i].k.maxH /\ q.h <= height
                    /\ Inside(q, limits, cols, y + height)
    <3> DEFINE q == r[m + i]
               x == W[i - 1]
               e == row[i]
    <3>1. q = Laying(e, x, y, height)
      BY <2>6 DEF WrittenBy
    <3>2. e \in Piece /\ x \in Int /\ x >= 0 /\ x + e.w <= cols
      BY <2>4, <2>9
    <3>3. /\ e.k = limits[e.id] /\ Ranged(e.k, cols) /\ e.w \in e.k.minW .. e.k.maxW
          /\ e.k.minH <= height
      BY <2>7
    <3> HIDE DEF q, x, e
    <3>4. /\ q \in Tile /\ q.id = e.id /\ q.x = x /\ q.y = y /\ q.w = e.w
          /\ q.h = Clamp(height, e.k.minH, e.k.maxH)
      BY <2>2, <3>1, <3>2, LayingIsTile
    <3>5. e.k.minH \in Int /\ e.k.maxH \in Int /\ e.k.minH <= e.k.maxH
      BY <3>2, <3>3, PieceFields DEF Ranged
    <3>6. q.h \in e.k.minH .. e.k.maxH /\ q.h <= height
      BY <2>2, <3>3, <3>4, <3>5 DEF Clamp, Lesser, Greater
    <3>7. Inside(q, limits, cols, y + height)
      <4>1. q.h \in Int /\ q.y >= 0 /\ q.y + q.h <= y + height
        BY <2>2, <3>4, <3>5, <3>6
      <4> QED BY <3>2, <3>3, <3>4, <3>6, <4>1 DEF Inside
    <3> QED BY <3>4, <3>6, <3>7 DEF q, x, e
  <2>11. r \in Seq(Tile) /\ Len(r) = m + n /\ \A i \in 1 .. m : r[i] = out[i]
    BY <2>6 DEF WrittenBy
  <2>12. n >= 1 /\ height \in Nat
    <3>1. n >= 1 /\ 1 \in 1 .. n
      BY <1>1, <1>3
    <3>2. 1 <= row[1].k.minH /\ row[1].k.minH <= height /\ row[1].k.minH \in Int
      BY <2>4, <2>7, <3>1, PieceFields DEF Ranged
    <3> QED BY <2>2, <3>1, <3>2
  <2>13. ASSUME NEW i \in 1 .. m PROVE Inside(r[i], limits, cols, y + height) /\ r[i].y + r[i].h <= y
    <3> DEFINE p == r[i]
    <3>1. p \in Tile /\ Inside(p, limits, cols, y)
      BY <1>1, <2>11 DEF Laid
    <3> HIDE DEF p
    <3>2. p.y + p.h \in Int /\ p.y + p.h <= y
      BY <3>1, TileFields DEF Inside
    <3>3. p.y + p.h <= y + height
      BY <2>12, <3>2
    <3> QED BY <3>1, <3>2, <3>3 DEF Inside, p
  <2>14. \A i \in 1 .. m + n : i \in 1 .. m \/ (i - m \in 1 .. n /\ i = m + (i - m))
    BY <1>1
  <2>15. ASSUME NEW i \in 1 .. m + n, NEW j \in 1 .. m + n, i < j
         PROVE  Follows(r[i], r[j])
    <3>1. CASE i \in 1 .. m /\ j \in 1 .. m
      BY <2>11, <2>15, <3>1 DEF Laid
    <3>2. CASE i \in 1 .. m /\ j \notin 1 .. m
      <4> DEFINE l == j - m
      <4>1. l \in 1 .. n /\ j = m + l
        BY <2>14, <3>2
      <4>2. r[m + l].y = y
        <5> HIDE DEF l
        <5> QED BY <2>10, <4>1
      <4> QED BY <2>13, <3>2, <4>1, <4>2 DEF Follows
    <3>3. CASE i \notin 1 .. m
      <4> DEFINE k == i - m
                 l == j - m
      <4>1. k \in 1 .. n /\ i = m + k /\ l \in 1 .. n /\ j = m + l /\ k <= l - 1 /\ l - 1 \in 0 .. n
            /\ k \in 0 .. n
        BY <1>1, <2>14, <2>15, <3>3
      <4> HIDE DEF k, l
      <4>2. /\ r[i].y = y /\ r[j].y = y /\ r[i].x = W[k - 1] /\ r[i].w = row[k].w
            /\ r[j].x = W[l - 1]
        BY <2>10, <4>1
      <4>3. W[k - 1] + row[k].w <= W[l - 1]
        BY <2>9, <4>1
      <4> QED BY <4>2, <4>3 DEF Follows
    <3> QED BY <1>1, <2>15, <3>1, <3>2, <3>3
  <2>16. \A i \in 1 .. m + n : Inside(r[i], limits, cols, y + height)
    <3> SUFFICES ASSUME NEW i \in 1 .. m + n PROVE Inside(r[i], limits, cols, y + height)
      OBVIOUS
    <3>1. CASE i \in 1 .. m
      BY <2>13, <3>1
    <3>2. CASE i \notin 1 .. m
      <4> DEFINE k == i - m
      <4>1. k \in 1 .. n /\ i = m + k
        BY <2>14, <3>2
      <4> HIDE DEF k
      <4> QED BY <2>10, <4>1
    <3> QED BY <3>1, <3>2
  <2>17. IdsJoin(r, out, shelf)
    <3>1. \A i \in 1 .. n : r[m + i].id = shelf[i].id
      BY <2>7, <2>10
    <3> QED BY <2>11, <3>1 DEF IdsJoin
  <2>18. y + height \in Nat
    BY <2>12
  <2> HIDE DEF f
  <2> QED BY <2>1, <2>11, <2>15, <2>16, <2>17, <2>18 DEF Laid, f
<1> QED BY <1>2, <1>3

LEMMA JustifiedTyped ==
  ASSUME NEW s \in Seq(Piece), NEW cols \in Colcount
  PROVE  Justified(s, cols) \in Seq(Piece)
<1>1. cols * 2 \in Nat /\ cols \in Int /\ cols \in Nat
  BY DEF Colcount
<1>2. Justifications(s, cols)
  BY <1>1, GrownOnceTyped, JustifiedFold
<1> DEFINE m == cols * 2
<1>3. PICK f \in [0 .. m -> Seq(Piece)] : Justified(s, cols) = f[m]
  BY <1>2 DEF Justifications
<1>4. m \in 0 .. m
  <2>1. m \in Nat
    BY <1>1
  <2> HIDE DEF m
  <2> QED BY <2>1
<1> QED BY <1>3, <1>4

LEMMA FlushedTyped ==
  ASSUME NEW out \in Seq(Tile), NEW y \in Int, NEW shelf \in Seq(Piece), NEW cols \in Colcount
  PROVE  Flushed(out, y, shelf, cols).out \in Seq(Tile) /\ Flushed(out, y, shelf, cols).y \in Int
<1> DEFINE f == Flushed(out, y, shelf, cols)
           height == Max({e.h : e \in ToSet(shelf)})
           row == Justified(shelf, cols)
           r == Written(out, y, row, height)
<1>1. CASE shelf = <<>>
  BY <1>1 DEF Flushed
<1>2. CASE shelf # <<>>
  <2>1. f.out = r /\ f.y = y + height
    BY <1>2 DEF Flushed
  <2>2. height \in Int
    BY <1>2, TallestIs
  <2> HIDE DEF height
  <2>3. row \in Seq(Piece)
    BY JustifiedTyped
  <2> HIDE DEF row
  <2>4. PICK W : Prefix(W, row)
    BY <2>3, WidthIsSum DEF Prefixed
  <2>5. r \in Seq(Tile)
    BY <2>2, <2>3, <2>4, WrittenIs DEF WrittenBy
  <2> HIDE DEF f, r
  <2> QED BY <2>1, <2>2, <2>5 DEF f
<1> QED BY <1>1, <1>2

---------------------------------------------------------------------------
(* A tile goes on a shelf *)

LEMMA RoundedIsInt ==
  ASSUME NEW a \in Int, NEW b \in Colcount
  PROVE  Rounded(a, b) \in Int
<1>1. 2 * a + b \in Int /\ 2 * b \in Nat \ {0}
  BY DEF Colcount
<1> DEFINE c == 2 * a + b
           d == 2 * b
<1>2. c \in Int /\ d \in Nat \ {0}
  BY <1>1
<1> HIDE DEF c, d
<1>3. c \div d \in Int
  BY <1>2
<1> QED BY <1>3 DEF Rounded, c, d

\* The width and the piece of a tile on a shelf.
ShelfSize(it, cols, k, from) == Clamp(Rounded(it.w * cols, from), k.minW, Lesser(k.maxW, cols))
AsPiece(it, cols, k, from) ==
  [id |-> it.id, w |-> ShelfSize(it, cols, k, from), h |-> Clamp(it.h, k.minH, k.maxH), k |-> k]

LEMMA AsPieceFits ==
  ASSUME NEW it \in Tile, NEW cols \in Colcount, NEW from \in Colcount, NEW k, Ranged(k, cols)
  PROVE  LET e == AsPiece(it, cols, k, from)
         IN  /\ PieceFits(e, cols) /\ e.id = it.id /\ e.k = k
             /\ e.w = ShelfSize(it, cols, k, from) /\ e.w <= cols
<1> DEFINE v == Rounded(it.w * cols, from)
           h == Clamp(it.h, k.minH, k.maxH)
           w == ShelfSize(it, cols, k, from)
           e == AsPiece(it, cols, k, from)
<1>1. it.w \in Int /\ it.h \in Int /\ cols \in Int /\ it.id \in TileIds
  BY TileFields DEF Colcount
<1>2. v \in Int
  <2> DEFINE a == it.w * cols
  <2>1. a \in Int
    BY <1>1
  <2> HIDE DEF a
  <2> QED BY <2>1, RoundedIsInt DEF a
<1>3. /\ k.minW \in Int /\ k.maxW \in Int /\ k.minH \in Int /\ k.maxH \in Int
      /\ 1 <= k.minW /\ k.minW <= k.maxW /\ k.maxW <= cols /\ k.minH <= k.maxH
  BY DEF Ranged, Range4
<1>4. h \in k.minH .. k.maxH
  BY <1>1, <1>3, ClampBetween
<1>5. w \in k.minW .. k.maxW
  <2> HIDE DEF v
  <2>1. Lesser(k.maxW, cols) = k.maxW
    BY <1>1, <1>3 DEF Lesser
  <2>2. w = Clamp(v, k.minW, k.maxW)
    BY <2>1 DEF v, ShelfSize
  <2> QED BY <1>2, <1>3, <2>2, ClampBetween
<1>6. e = [id |-> it.id, w |-> w, h |-> h, k |-> k]
  BY DEF AsPiece
<1> HIDE DEF h, w, e
<1>7. w \in Int /\ h \in Int /\ w <= cols /\ k \in Range4
  BY <1>1, <1>3, <1>4, <1>5 DEF Ranged
<1>8. e \in Piece /\ e.id = it.id /\ e.k = k /\ e.w = w /\ e.h = h
  BY <1>1, <1>6, <1>7 DEF Piece
<1> QED BY <1>4, <1>5, <1>7, <1>8 DEF PieceFits, e, w

LEMMA ShelvedIs ==
  ASSUME NEW a, NEW it, NEW cols, NEW limits, NEW from
  PROVE  LET w == ShelfSize(it, cols, limits[it.id], from)
             e == AsPiece(it, cols, limits[it.id], from)
             f == Flushed(a.out, a.y, a.shelf, cols)
         IN  Shelved(a, it, cols, limits, from) =
               IF a.used + w > cols
               THEN [out |-> f.out, y |-> f.y, shelf |-> << e >>, used |-> w]
               ELSE [out |-> a.out, y |-> a.y, shelf |-> Append(a.shelf, e), used |-> a.used + w]
BY DEF Shelved, ShelfSize, AsPiece

LEMMA ShelvedTyped ==
  ASSUME NEW a \in Shelving, NEW it \in Tile, NEW cols \in Colcount, NEW from \in Colcount,
         NEW limits, Ranged(limits[it.id], cols)
  PROVE  Shelved(a, it, cols, limits, from) \in Shelving
<1> DEFINE w == ShelfSize(it, cols, limits[it.id], from)
           e == AsPiece(it, cols, limits[it.id], from)
           f == Flushed(a.out, a.y, a.shelf, cols)
<1>1. a.out \in Seq(Tile) /\ a.y \in Int /\ a.shelf \in Seq(Piece) /\ a.used \in Int
  BY DEF Shelving
<1>2. f.out \in Seq(Tile) /\ f.y \in Int
  BY <1>1, FlushedTyped
<1>3. e \in Piece /\ w \in Int
  <2>1. e \in Piece /\ e.w = w
    BY AsPieceFits DEF PieceFits
  <2> QED BY <2>1, PieceFields
<1> DEFINE r == Shelved(a, it, cols, limits, from)
<1>4. r = IF a.used + w > cols
          THEN [out |-> f.out, y |-> f.y, shelf |-> << e >>, used |-> w]
          ELSE [out |-> a.out, y |-> a.y, shelf |-> Append(a.shelf, e), used |-> a.used + w]
  BY ShelvedIs
<1> HIDE DEF w, e, f, r
<1>5. << e >> \in Seq(Piece) /\ Append(a.shelf, e) \in Seq(Piece) /\ a.used + w \in Int
  BY <1>1, <1>3
<1> QED BY <1>1, <1>2, <1>3, <1>4, <1>5 DEF Shelving, r

\* The first `k` tiles of `s`, in order: those written, then those on the shelf.
Collected(out, shelf, s, k) ==
  /\ Len(out) + Len(shelf) = k
  /\ \A i \in 1 .. Len(out) : out[i].id = s[i].id
  /\ \A i \in 1 .. Len(shelf) : shelf[i].id = s[Len(out) + i].id

ShelvesUpTo(a, s, k, limits, cols) ==
  /\ a \in Shelving /\ a.y \in Nat /\ Laid(a.out, limits, cols, a.y)
  /\ ShelfFits(a.shelf, cols) /\ ShelfFor(a.shelf, limits) /\ a.used = ShelfWidth(a.shelf)
  /\ Collected(a.out, a.shelf, s, k)

LEMMA JoinedIds ==
  ASSUME NEW out \in Seq(Tile), NEW shelf \in Seq(Piece), NEW s \in Seq(Tile), NEW k \in 0 .. Len(s),
         Collected(out, shelf, s, k), NEW r \in Seq(Tile), IdsJoin(r, out, shelf)
  PROVE  Len(r) = k /\ \A i \in 1 .. k : r[i].id = s[i].id
<1> DEFINE m == Len(out)
           n == Len(shelf)
<1>1. /\ m \in Nat /\ n \in Nat /\ m + n = k /\ Len(r) = k
      /\ \A i \in 1 .. k : i \in 1 .. m \/ (i - m \in 1 .. n /\ m + (i - m) = i)
  BY DEF Collected, IdsJoin
<1>2. ASSUME NEW i \in 1 .. k PROVE r[i].id = s[i].id
  <2>1. CASE i \in 1 .. m
    BY <2>1 DEF Collected, IdsJoin
  <2>2. CASE i \notin 1 .. m
    <3> DEFINE j == i - m
    <3>1. j \in 1 .. n /\ m + j = i
      BY <1>1, <2>2
    <3> HIDE DEF j
    <3>2. r[m + j].id = shelf[j].id /\ shelf[j].id = s[m + j].id
      BY <3>1 DEF Collected, IdsJoin
    <3> QED BY <3>1, <3>2
  <2> QED BY <2>1, <2>2
<1> QED BY <1>1, <1>2

LEMMA ShelvesOneMore ==
  ASSUME NEW s \in Seq(Tile), NEW k \in 0 .. Len(s) - 1, NEW limits, NEW cols \in Colcount,
         NEW from \in Colcount, NEW a, ShelvesUpTo(a, s, k, limits, cols),
         Ranged(limits[s[k + 1].id], cols)
  PROVE  ShelvesUpTo(Shelved(a, s[k + 1], cols, limits, from), s, k + 1, limits, cols)
<1> DEFINE it == s[k + 1]
           w == ShelfSize(it, cols, limits[it.id], from)
           e == AsPiece(it, cols, limits[it.id], from)
           f == Flushed(a.out, a.y, a.shelf, cols)
           r == Shelved(a, it, cols, limits, from)
           m == Len(a.out)
           n == Len(a.shelf)
<1>1. k \in Nat /\ k + 1 \in 1 .. Len(s) /\ it \in Tile /\ k \in 0 .. Len(s)
  OBVIOUS
<1>2. PieceFits(e, cols) /\ e.id = it.id /\ e.k = limits[it.id] /\ e.w = w /\ e.w <= cols
  BY <1>1, AsPieceFits
<1>3. r = IF a.used + w > cols
          THEN [out |-> f.out, y |-> f.y, shelf |-> << e >>, used |-> w]
          ELSE [out |-> a.out, y |-> a.y, shelf |-> Append(a.shelf, e), used |-> a.used + w]
  BY ShelvedIs
<1>4. /\ a \in Shelving /\ a.y \in Nat /\ Laid(a.out, limits, cols, a.y)
      /\ ShelfFits(a.shelf, cols) /\ ShelfFor(a.shelf, limits) /\ a.used = ShelfWidth(a.shelf)
      /\ Collected(a.out, a.shelf, s, k)
  BY DEF ShelvesUpTo
<1>5. r \in Shelving
  BY <1>1, <1>4, ShelvedTyped
<1> HIDE DEF w, e, r
<1>6. /\ a.out \in Seq(Tile) /\ a.shelf \in Seq(Piece) /\ m \in Nat /\ n \in Nat
      /\ e \in Piece /\ w \in Int /\ cols \in Int /\ ShelfWidth(a.shelf) \in Int /\ m + n = k
  <2>1. a.out \in Seq(Tile) /\ a.shelf \in Seq(Piece) /\ m \in Nat /\ n \in Nat
    BY <1>4 DEF Shelving, Collected
  <2>2. e \in Piece /\ cols \in Int
    BY <1>2 DEF PieceFits, Colcount
  <2>3. w \in Int
    BY <1>2, <2>2, PieceFields
  <2>4. ShelfWidth(a.shelf) \in Int
    BY <1>4 DEF Shelving
  <2>5. m + n = k
    BY <1>4 DEF Collected
  <2> QED BY <2>1, <2>2, <2>3, <2>4, <2>5
<1>7. CASE a.used + w > cols
  <2>1. r.out = f.out /\ r.y = f.y /\ r.shelf = << e >> /\ r.used = w
    BY <1>3, <1>7
  <2>2. f.y \in Nat /\ Laid(f.out, limits, cols, f.y) /\ IdsJoin(f.out, a.out, a.shelf)
    BY <1>4, FlushedLays
  <2> HIDE DEF f
  <2>3. f.out \in Seq(Tile)
    BY <2>2 DEF Laid
  <2>4. Len(f.out) = k /\ \A i \in 1 .. k : f.out[i].id = s[i].id
    <3> DEFINE O == f.out
               out == a.out
               shelf == a.shelf
    <3>1. O \in Seq(Tile) /\ out \in Seq(Tile) /\ shelf \in Seq(Piece) /\ Collected(out, shelf, s, k)
          /\ IdsJoin(O, out, shelf)
      BY <1>4, <1>6, <2>2, <2>3
    <3> HIDE DEF O, out, shelf
    <3>2. Len(O) = k /\ \A i \in 1 .. k : O[i].id = s[i].id
      BY <1>1, <3>1, JoinedIds
    <3> QED BY <3>2 DEF O
  <2>5. /\ << e >> \in Seq(Piece) /\ Len(<< e >>) = 1 /\ << e >>[1] = e
        /\ \A i \in 1 .. 1 : << e >>[i] = e
    BY <1>6
  <2>6. ShelfWidth(<< e >>) = w
    <3>1. << e >> = Append(<<>>, e) /\ <<>> \in Seq(Piece)
      OBVIOUS
    <3>2. ShelfWidth(Append(<<>>, e)) = ShelfWidth(<<>>) + e.w
      BY <1>6, <3>1, WidthOfOneMore
    <3> QED BY <1>2, <1>6, <3>1, <3>2, WidthOfNone
  <2>7. ShelfFits(<< e >>, cols) /\ ShelfFor(<< e >>, limits)
    BY <1>2, <1>6, <2>5, <2>6 DEF ShelfFits, ShelfFor
  <2>8. Collected(f.out, << e >>, s, k + 1)
    <3>1. \A i \in 1 .. 1 : << e >>[i].id = s[k + i].id
      BY <1>2, <2>5
    <3> QED BY <2>4, <2>5, <3>1 DEF Collected
  <2> QED BY <1>5, <2>1, <2>2, <2>6, <2>7, <2>8 DEF ShelvesUpTo, r, it
<1>8. CASE ~(a.used + w > cols)
  <2> DEFINE shelf == Append(a.shelf, e)
  <2>1. r.out = a.out /\ r.y = a.y /\ r.shelf = shelf /\ r.used = a.used + w
    BY <1>3, <1>8
  <2>2. /\ shelf \in Seq(Piece) /\ Len(shelf) = n + 1 /\ shelf[n + 1] = e
        /\ \A i \in 1 .. n : shelf[i] = a.shelf[i]
        /\ \A i \in 1 .. n + 1 : i \in 1 .. n \/ i = n + 1
    <3> DEFINE old == a.shelf
    <3>1. old \in Seq(Piece) /\ n = Len(old) /\ n \in Nat /\ e \in Piece /\ shelf = Append(old, e)
      BY <1>6
    <3> HIDE DEF old, n, shelf
    <3>2. /\ shelf \in Seq(Piece) /\ Len(shelf) = n + 1 /\ shelf[n + 1] = e
          /\ \A i \in 1 .. n : shelf[i] = old[i]
      BY <3>1
    <3>3. \A i \in 1 .. n + 1 : i \in 1 .. n \/ i = n + 1
      BY <3>1
    <3> QED BY <3>2, <3>3 DEF old
  <2>3. ShelfWidth(shelf) = a.used + w
    BY <1>2, <1>4, <1>6, WidthOfOneMore
  <2> HIDE DEF shelf
  <2>4. a.used + w \in Int /\ a.used + w <= cols
    BY <1>4, <1>6, <1>8
  <2>5. \A i \in 1 .. n + 1 : PieceFits(shelf[i], cols) /\ shelf[i].k = limits[shelf[i].id]
    <3>1. \A i \in 1 .. n : PieceFits(a.shelf[i], cols) /\ a.shelf[i].k = limits[a.shelf[i].id]
      BY <1>4 DEF ShelfFits, ShelfFor
    <3>2. PieceFits(e, cols) /\ e.k = limits[e.id]
      BY <1>2
    <3> HIDE DEF it
    <3> QED BY <2>2, <3>1, <3>2
  <2>6. ShelfFits(shelf, cols) /\ ShelfFor(shelf, limits)
    BY <2>2, <2>3, <2>4, <2>5 DEF ShelfFits, ShelfFor
  <2>7. Collected(a.out, shelf, s, k + 1)
    <3>1. m + (n + 1) = k + 1
      <4> HIDE DEF m, n, f, it
      <4>1. m \in Nat /\ n \in Nat /\ m + n = k
        BY <1>6
      <4> QED BY <4>1
    <3>2. shelf[n + 1].id = s[m + (n + 1)].id
      BY <1>2, <2>2, <3>1
    <3>3. \A i \in 1 .. n : shelf[i].id = s[m + i].id
      BY <1>4, <2>2 DEF Collected
    <3>4. \A i \in 1 .. n + 1 : shelf[i].id = s[m + i].id
      <4> HIDE DEF n, m
      <4> QED BY <2>2, <3>2, <3>3
    <3>5. \A i \in 1 .. m : a.out[i].id = s[i].id
      BY <1>4 DEF Collected
    <3>6. Len(a.out) + Len(shelf) = k + 1
      BY <2>2, <3>1
    <3>7. \A i \in 1 .. Len(shelf) : shelf[i].id = s[m + i].id
      BY <2>2, <3>4
    <3> QED BY <3>5, <3>6, <3>7 DEF Collected
  <2> QED BY <1>4, <1>5, <2>1, <2>3, <2>6, <2>7 DEF ShelvesUpTo, r, it
<1> QED BY <1>7, <1>8

LEMMA AllShelvedShelves ==
  ASSUME NEW s \in Seq(Tile), NEW limits, NEW cols \in Colcount, NEW from \in Colcount,
         \A i \in 1 .. Len(s) : Ranged(limits[s[i].id], cols)
  PROVE  ShelvesUpTo(AllShelved(s, cols, limits, from), s, Len(s), limits, cols)
<1> DEFINE n == Len(s)
<1>1. n \in Nat /\ \A k \in 1 .. n : s[k] \in Tile
  OBVIOUS
<1>2. Shelvings(s, cols, limits, from)
  <2>1. \A a \in Shelving, k \in 1 .. n : Shelved(a, s[k], cols, limits, from) \in Shelving
    BY <1>1, ShelvedTyped
  <2> QED BY <2>1, ShelvedFold
<1>3. PICK f \in [0 .. n -> Shelving] :
    /\ AllShelved(s, cols, limits, from) = f[n]
    /\ f[0] = [out |-> <<>>, y |-> 0, shelf |-> <<>>, used |-> 0]
    /\ \A k \in 1 .. n : f[k] = Shelved(f[k - 1], s[k], cols, limits, from)
  BY <1>2 DEF Shelvings
<1> DEFINE S == {k \in 0 .. n : ShelvesUpTo(f[k], s, k, limits, cols)}
<1>4. 0 \in S
  <2> DEFINE a == f[0]
  <2>1. a \in Shelving /\ a.out = <<>> /\ a.y = 0 /\ a.shelf = <<>> /\ a.used = 0
    BY <1>1, <1>3
  <2> HIDE DEF a
  <2>2. <<>> \in Seq(Tile) /\ <<>> \in Seq(Piece) /\ Len(<<>>) = 0 /\ 0 <= cols
    BY DEF Colcount
  <2>3. Laid(<<>>, limits, cols, 0)
    BY <2>2 DEF Laid
  <2>4. ShelfFits(<<>>, cols) /\ ShelfFor(<<>>, limits)
    BY <2>2, WidthOfNone DEF ShelfFits, ShelfFor
  <2>5. Collected(<<>>, <<>>, s, 0)
    BY <2>2 DEF Collected
  <2>6. ShelvesUpTo(a, s, 0, limits, cols)
    BY <2>1, <2>3, <2>4, <2>5, WidthOfNone DEF ShelvesUpTo
  <2> QED BY <1>1, <2>6 DEF a
<1>5. \A k \in 0 .. n - 1 : k \in S => k + 1 \in S
  <2> SUFFICES ASSUME NEW k \in 0 .. n - 1, k \in S PROVE k + 1 \in S
    OBVIOUS
  <2>1. k + 1 \in 1 .. n /\ (k + 1) - 1 = k /\ k + 1 \in 0 .. n
    BY <1>1
  <2>2. f[k + 1] = Shelved(f[k], s[k + 1], cols, limits, from)
    BY <1>3, <2>1
  <2>3. Ranged(limits[s[k + 1].id], cols)
    BY <2>1
  <2>4. ShelvesUpTo(f[k + 1], s, k + 1, limits, cols)
    BY <2>2, <2>3, ShelvesOneMore
  <2> QED BY <2>1, <2>4
<1>6. 0 .. n \subseteq S
  <2> HIDE DEF S
  <2> QED BY <1>1, <1>4, <1>5, InductionUpTo
<1>7. n \in S
  BY <1>1, <1>6
<1> QED BY <1>3, <1>7

\* The derived layout: shelves below one another, in reading order.
LEMMA ReflowLays ==
  ASSUME NEW items \in Seq(Tile), NEW limits, NEW cols \in Colcount, NEW from \in Colcount,
         \A t \in Ids(items) : Ranged(limits[t], cols)
  PROVE  LET r == Reflow(items, cols, limits, from)
         IN  SameIds(r, SortItems(items)) /\ \E y \in Nat : Laid(r, limits, cols, y)
<1> DEFINE s == SortItems(items)
           end == AllShelved(s, cols, limits, from)
           f == Flushed(end.out, end.y, end.shelf, cols)
           r == Reflow(items, cols, limits, from)
<1>1. r = f.out
  BY DEF Reflow
<1>2. s \in Seq(Tile) /\ Ids(s) = Ids(items)
  <2>1. PICK p : Permutes(p, Len(items)) /\ s = Permuted(items, p)
    BY SortItemsPermutes
  <2> QED BY <2>1, PermutedKeeps
<1> HIDE DEF s, r
<1>3. \A i \in 1 .. Len(s) : Ranged(limits[s[i].id], cols)
  BY <1>2, IdsOf
<1>4. ShelvesUpTo(end, s, Len(s), limits, cols)
  BY <1>2, <1>3, AllShelvedShelves
<1> HIDE DEF end
<1>5. /\ end.y \in Nat /\ Laid(end.out, limits, cols, end.y) /\ ShelfFits(end.shelf, cols)
      /\ ShelfFor(end.shelf, limits) /\ Collected(end.out, end.shelf, s, Len(s))
  BY <1>4 DEF ShelvesUpTo
<1>6. f.y \in Nat /\ Laid(f.out, limits, cols, f.y) /\ IdsJoin(f.out, end.out, end.shelf)
  BY <1>5, FlushedLays
<1> HIDE DEF f
<1>7. Laid(r, limits, cols, f.y) /\ IdsJoin(r, end.out, end.shelf)
  BY <1>1, <1>6
<1> DEFINE out == end.out
           shelf == end.shelf
<1>8. /\ r \in Seq(Tile) /\ out \in Seq(Tile) /\ shelf \in Seq(Piece)
      /\ Collected(out, shelf, s, Len(s)) /\ IdsJoin(r, out, shelf)
  BY <1>5, <1>7 DEF Laid, ShelfFits
<1> HIDE DEF out, shelf
<1>9. Len(r) = Len(s) /\ \A i \in 1 .. Len(s) : r[i].id = s[i].id
  <2> DEFINE n == Len(s)
  <2>1. n \in 0 .. Len(s) /\ Collected(out, shelf, s, n)
    BY <1>2, <1>8
  <2> HIDE DEF n
  <2>2. Len(r) = n /\ \A i \in 1 .. n : r[i].id = s[i].id
    BY <1>2, <1>8, <2>1, JoinedIds
  <2> QED BY <2>2 DEF n
<1>10. SameIds(r, s)
  BY <1>9 DEF SameIds
<1> QED BY <1>6, <1>7, <1>10 DEF r, s

---------------------------------------------------------------------------
(* What is on screen is a layout *)

LEMMA EffectiveRanged ==
  ASSUME NEW t \in TileIds, NEW cols \in Colcount
  PROVE  Ranged(EffectiveConstraints(t, cols), cols)
<1> DEFINE k == EffectiveConstraints(t, cols)
<1>1. /\ k.minW \in Nat \ {0} /\ k.minH \in Nat \ {0} /\ k.maxW \in Nat /\ k.maxH \in Nat
      /\ k.minW <= k.maxW /\ k.maxW <= cols /\ k.minH <= k.maxH
  BY ConstraintsConsistent
<1>2. k = [minW |-> k.minW, minH |-> k.minH, maxW |-> k.maxW, maxH |-> k.maxH]
  BY DEF EffectiveConstraints
<1> HIDE DEF k
<1>3. k \in Range4
  BY <1>1, <1>2 DEF Range4
<1> QED BY <1>1, <1>3 DEF Ranged, k

LEMMA PhoneRanged ==
  ASSUME NEW t \in TileIds
  PROVE  Ranged(PhoneConstraints(t), GRID_COLS)
<1> DEFINE c == EffectiveConstraints(t, GRID_COLS)
           m == PhoneRows[t]
           k == PhoneConstraints(t)
<1>1. Ranged(c, GRID_COLS)
  BY GridColsCount, EffectiveRanged
<1>2. m \in Nat
  BY GridAssumption DEF TileIds
<1>3. CASE m = 0
  BY <1>1, <1>3 DEF PhoneConstraints
<1>4. CASE m # 0
  <2> DEFINE d == [c EXCEPT !.minH = Lesser(@, m)]
  <2>1. c \in Range4 /\ c.minH \in Int /\ c.maxH \in Int
    BY <1>1 DEF Ranged, Range4
  <2>2. k = [c EXCEPT !.minH = Lesser(@, m), !.maxH = Lesser(@, m)]
    BY <1>4 DEF PhoneConstraints
  <2> HIDE DEF c, k, m
  <2>3. Lesser(c.minH, m) \in Int /\ Lesser(c.maxH, m) \in Int
    BY <1>2, <2>1 DEF Lesser
  <2>4. /\ k \in Range4 /\ k.minW = c.minW /\ k.maxW = c.maxW
        /\ k.minH = Lesser(c.minH, m) /\ k.maxH = Lesser(c.maxH, m)
    BY <2>1, <2>2, <2>3 DEF Range4
  <2>5. 1 <= k.minH /\ k.minH <= k.maxH
    BY <1>1, <1>2, <1>4, <2>1, <2>4 DEF Lesser, Ranged
  <2> QED BY <1>1, <2>4, <2>5 DEF Ranged, k
<1> QED BY <1>3, <1>4

LEMMA FollowsApart ==
  ASSUME NEW p \in Tile, NEW q \in Tile, Follows(p, q)
  PROVE  ~Collides(p, q) /\ ~Collides(q, p)
<1>1. /\ p.x \in Int /\ p.y \in Int /\ p.w \in Int /\ p.h \in Int
      /\ q.x \in Int /\ q.y \in Int /\ q.w \in Int /\ q.h \in Int
  BY TileFields
<1> QED BY <1>1 DEF Follows, Collides, SharesColumns

LEMMA LaidApart ==
  ASSUME NEW r, NEW limits, NEW cols, NEW y, Laid(r, limits, cols, y)
  PROVE  Apart(r)
<1>1. /\ r \in Seq(Tile) /\ DOMAIN r = 1 .. Len(r) /\ Len(r) \in Nat
      /\ \A i \in 1 .. Len(r) : r[i] \in Tile
  BY DEF Laid
<1>2. ASSUME NEW i \in 1 .. Len(r), NEW j \in 1 .. Len(r) PROVE ~Collides(r[i], r[j])
  <2>1. CASE i < j
    <3>1. Follows(r[i], r[j])
      BY <2>1 DEF Laid
    <3> QED BY <1>1, <3>1, FollowsApart
  <2>2. CASE j < i
    <3>1. Follows(r[j], r[i])
      BY <2>2 DEF Laid
    <3> QED BY <1>1, <3>1, FollowsApart
  <2>3. CASE i = j
    BY <2>3 DEF Collides
  <2> QED BY <1>1, <2>1, <2>2, <2>3
<1> QED BY <1>1, <1>2 DEF Apart

LEMMA ApartBySet ==
  ASSUME NEW r \in Seq(Tile), NEW b \in Seq(Tile), ToSet(b) = ToSet(r), Apart(r)
  PROVE  ~HasOverlap(b)
<1>1. /\ DOMAIN b = 1 .. Len(b) /\ DOMAIN r = 1 .. Len(r)
      /\ \A i \in 1 .. Len(b) : b[i] \in ToSet(b)
      /\ \A e \in ToSet(r) : \E i \in 1 .. Len(r) : r[i] = e
  BY ToSetIn
<1> SUFFICES ASSUME NEW i \in DOMAIN b, NEW j \in DOMAIN b, Collides(b[i], b[j]) PROVE FALSE
  BY DEF HasOverlap
<1>2. PICK k \in DOMAIN r, l \in DOMAIN r : r[k] = b[i] /\ r[l] = b[j]
  BY <1>1
<1> QED BY <1>2 DEF Apart

LEMMA BoardIsValid ==
  ASSUME NEW items, NEW cols, Board(items, cols)
  PROVE  ValidateGrid(items, cols) /\ \A p \in ToSet(items) : Rests(p, items)
<1>1. /\ items \in Seq(Tile) /\ Distinct(items) /\ Upright(items) /\ AllFit(items, cols)
      /\ Apart(items) /\ Resting(items)
  BY DEF Board
<1>2. ~HasOverlap(items)
  BY <1>1, ApartBySet
<1>3. /\ DOMAIN items = 1 .. Len(items)
      /\ \A e \in ToSet(items) : \E i \in 1 .. Len(items) : items[i] = e
  BY <1>1, ToSetIn
<1>4. ASSUME NEW p \in ToSet(items) PROVE p.y >= 0 /\ Fits(p, cols) /\ Rests(p, items)
  <2>1. PICK i \in DOMAIN items : items[i] = p
    BY <1>3
  <2>2. p.y >= 0 /\ Fits(p, cols) /\ RestsOn(p, ToSet(items))
    BY <1>1, <2>1 DEF Upright, AllFit, Resting
  <2> QED BY <2>2 DEF Rests, RestsOn
<1> QED BY <1>1, <1>2, <1>4 DEF ValidateGrid, Fits, Distinct

\* A derived layout, back in the order of the board.
LEMMA LaidInOrder ==
  ASSUME NEW items \in Seq(Tile), Distinct(items), NEW from \in Seq(Tile), Distinct(from),
         Ids(from) = Ids(items), NEW limits, NEW cols \in Colcount, NEW y,
         NEW r, SameIds(r, SortItems(from)), Laid(r, limits, cols, y)
  PROVE  LET b == RestoreOrder(items, r)
         IN  /\ b \in Seq(Tile) /\ SameIds(b, items) /\ Distinct(b) /\ ~HasOverlap(b)
             /\ \A p \in ToSet(b) : p \in Tile /\ Inside(p, limits, cols, y)
<1> DEFINE b == RestoreOrder(items, r)
           s == SortItems(from)
<1>1. s \in Seq(Tile) /\ Ids(s) = Ids(from) /\ Distinct(s)
  <2>1. PICK p : Permutes(p, Len(from)) /\ s = Permuted(from, p)
    BY SortItemsPermutes
  <2> QED BY <2>1, PermutedKeeps
<1> HIDE DEF s
<1>2. r \in Seq(Tile)
  BY DEF Laid
<1>3. Ids(r) = Ids(items) /\ Distinct(r)
  <2>1. SameIds(r, s)
    BY DEF s
  <2> QED BY <1>1, <1>2, <2>1, SameIdsIds
<1>4. ToSet(b) = ToSet(r)
  BY <1>2, <1>3, RestoreOrderPermutes
<1>5. b \in Seq(Tile) /\ SameIds(b, items)
  BY <1>2, RestoreOrderKeeps
<1> HIDE DEF b
<1>6. Distinct(b)
  BY <1>5, SameIdsIds
<1>7. ~HasOverlap(b)
  BY <1>2, <1>4, <1>5, LaidApart, ApartBySet
<1>8. ASSUME NEW p \in ToSet(r) PROVE p \in Tile /\ Inside(p, limits, cols, y)
  <2>1. PICK i \in 1 .. Len(r) : r[i] = p
    BY <1>2, ToSetIn
  <2> QED BY <1>2, <2>1 DEF Laid
<1> QED BY <1>4, <1>5, <1>6, <1>7, <1>8 DEF b

LEMMA TabletIsValid ==
  ASSUME NEW items \in Seq(Tile), Distinct(items)
  PROVE  LET b == DeriveLayout(items, "md")
         IN  ValidateGrid(b, TABLET_COLS) /\ b \in Seq(Tile) /\ SameIds(b, items)
<1> DEFINE s == SortItems(items)
           limits == [t \in Ids(items) |-> EffectiveConstraints(t, TABLET_COLS)]
           r == Reflow(s, TABLET_COLS, limits, GRID_COLS)
           b == RestoreOrder(items, r)
<1>1. DeriveLayout(items, "md") = b
  BY DEF DeriveLayout
<1>2. s \in Seq(Tile) /\ Ids(s) = Ids(items) /\ Distinct(s)
  <2>1. PICK p : Permutes(p, Len(items)) /\ s = Permuted(items, p)
    BY SortItemsPermutes
  <2> QED BY <2>1, PermutedKeeps
<1> HIDE DEF s
<1>3. TABLET_COLS \in Colcount /\ GRID_COLS \in Colcount
  BY GridColsCount
<1>4. \A t \in Ids(items) : t \in TileIds /\ limits[t] = EffectiveConstraints(t, TABLET_COLS)
                            /\ Ranged(limits[t], TABLET_COLS)
  BY <1>3, IdsOf, EffectiveRanged
<1> HIDE DEF limits
<1>5. SameIds(r, SortItems(s)) /\ \E y \in Nat : Laid(r, limits, TABLET_COLS, y)
  BY <1>2, <1>3, <1>4, ReflowLays
<1> HIDE DEF r
<1>6. PICK y \in Nat : Laid(r, limits, TABLET_COLS, y)
  BY <1>5
<1>7. /\ b \in Seq(Tile) /\ SameIds(b, items) /\ Distinct(b) /\ ~HasOverlap(b)
      /\ \A p \in ToSet(b) : p \in Tile /\ Inside(p, limits, TABLET_COLS, y)
  BY <1>2, <1>3, <1>5, <1>6, LaidInOrder
<1>8. Ids(b) = Ids(items)
  BY <1>7, SameIdsIds
<1> HIDE DEF b
<1>9. ASSUME NEW p \in ToSet(b)
      PROVE  LET k == EffectiveConstraints(p.id, TABLET_COLS)
             IN  /\ p.x >= 0 /\ p.y >= 0 /\ p.x + p.w <= TABLET_COLS
                 /\ p.w \in k.minW .. k.maxW /\ p.h \in k.minH .. k.maxH
  <2>1. p.id \in Ids(items)
    BY <1>7, <1>8, IdsOf
  <2> QED BY <1>4, <1>7, <2>1 DEF Inside
<1>10. ValidateGrid(b, TABLET_COLS)
  BY <1>7, <1>9 DEF ValidateGrid, Distinct
<1> QED BY <1>1, <1>7, <1>10

\* A tile of the phone layout before it is placed.
OnPhone(it, k) ==
  [id |-> it.id, x |-> 0, y |-> 0, w |-> IF it.w > NARROW THEN GRID_COLS ELSE GRID_COLS \div 2,
   h |-> Clamp(it.h, k.minH, k.maxH)]

LEMMA OnPhoneIsTile ==
  ASSUME NEW it \in Tile
  PROVE  LET q == OnPhone(it, PhoneConstraints(it.id))
         IN  q \in Tile /\ q.id = it.id /\ q.x = 0 /\ q.y = 0
<1> DEFINE k == PhoneConstraints(it.id)
           w == IF it.w > NARROW THEN GRID_COLS ELSE GRID_COLS \div 2
           h == Clamp(it.h, k.minH, k.maxH)
<1>1. it.id \in TileIds /\ it.w \in Int /\ it.h \in Int
  BY TileFields
<1>2. k.minH \in Int /\ k.maxH \in Int
  BY <1>1, PhoneRanged DEF Ranged, Range4
<1> HIDE DEF k
<1>3. h \in Int
  BY <1>1, <1>2 DEF Clamp, Lesser, Greater
<1>4. w \in Int
  <2>1. GRID_COLS \in Int /\ GRID_COLS \div 2 \in Int
    BY GridAssumption
  <2> QED BY <2>1
<1> HIDE DEF w, h
<1>5. OnPhone(it, k) = [id |-> it.id, x |-> 0, y |-> 0, w |-> w, h |-> h]
  BY DEF OnPhone, w, h
<1> QED BY <1>1, <1>3, <1>4, <1>5 DEF Tile, k

\* The tiles of the desktop board as the phone packs them.
Phoned(items) ==
  <<>> \o [i \in DOMAIN SortItems(items) |->
             OnPhone(SortItems(items)[i], PhoneConstraints(SortItems(items)[i].id))]

LEMMA PhonedKeeps ==
  ASSUME NEW items \in Seq(Tile)
  PROVE  LET r == Phoned(items)
         IN  /\ r \in Seq(Tile) /\ Len(r) = Len(items) /\ SameIds(r, SortItems(items))
             /\ Ids(r) = Ids(items) /\ (Distinct(items) => Distinct(r))
             /\ \A i \in 1 .. Len(items) : r[i].x = 0 /\ r[i].y = 0
<1> DEFINE s == SortItems(items)
           n == Len(s)
           f == [i \in DOMAIN s |-> OnPhone(s[i], PhoneConstraints(s[i].id))]
           r == Phoned(items)
<1>1. s \in Seq(Tile) /\ Ids(s) = Ids(items) /\ (Distinct(items) => Distinct(s)) /\ n = Len(items)
  <2>1. PICK p : Permutes(p, Len(items)) /\ s = Permuted(items, p)
    BY SortItemsPermutes
  <2> QED BY <2>1, PermutedKeeps
<1>2. r = <<>> \o f
  BY DEF Phoned
<1> HIDE DEF s, r
<1>3. n \in Nat /\ DOMAIN s = 1 .. n /\ \A i \in 1 .. n : s[i] \in Tile
  BY <1>1
<1>4. \A i \in 1 .. n : f[i] \in Tile /\ f[i].id = s[i].id /\ f[i].x = 0 /\ f[i].y = 0
  BY <1>3, OnPhoneIsTile
<1>5. f \in [1 .. n -> Tile]
  BY <1>3, <1>4
<1> HIDE DEF f, n
<1>6. r = f /\ r \in Seq(Tile) /\ Len(r) = n
  BY <1>2, <1>3, <1>5, MappedIs
<1>7. SameIds(r, s)
  BY <1>4, <1>6 DEF SameIds, n
<1>8. Ids(r) = Ids(s) /\ (Distinct(s) => Distinct(r))
  BY <1>1, <1>6, <1>7, SameIdsIds
<1> QED BY <1>1, <1>4, <1>6, <1>7, <1>8 DEF r, s, n

LEMMA PhoneIsReflow ==
  ASSUME NEW items \in Seq(Tile)
  PROVE  DeriveLayout(items, "sm") =
           RestoreOrder(items, Reflow(Phoned(items), GRID_COLS,
                                      [t \in Ids(items) |-> PhoneConstraints(t)], GRID_COLS))
<1> DEFINE s == SortItems(items)
           limits == [t \in Ids(items) |-> PhoneConstraints(t)]
<1>1. s \in Seq(Tile) /\ Ids(s) = Ids(items)
  <2>1. PICK p : Permutes(p, Len(items)) /\ s = Permuted(items, p)
    BY SortItemsPermutes
  <2> QED BY <2>1, PermutedKeeps
<1>2. \A i \in DOMAIN s : limits[s[i].id] = PhoneConstraints(s[i].id)
  BY <1>1 DEF Ids
<1>3. Phoned(items) = <<>> \o [i \in DOMAIN s |-> OnPhone(s[i], limits[s[i].id])]
  <2> HIDE DEF limits
  <2> QED BY <1>2 DEF Phoned
<1> QED BY <1>3 DEF DeriveLayout, Mapped, OnPhone

LEMMA PhoneIsValid ==
  ASSUME NEW items \in Seq(Tile), Distinct(items)
  PROVE  LET b == DeriveLayout(items, "sm")
         IN  /\ b \in Seq(Tile) /\ SameIds(b, items) /\ ~HasOverlap(b)
             /\ \A p \in ToSet(b) : p.x >= 0 /\ p.x + p.w <= GRID_COLS
<1> DEFINE s == SortItems(items)
           limits == [t \in Ids(items) |-> PhoneConstraints(t)]
           r == Reflow(Phoned(items), GRID_COLS, limits, GRID_COLS)
           b == RestoreOrder(items, r)
<1>1. DeriveLayout(items, "sm") = b
  BY PhoneIsReflow
<1>2. Phoned(items) \in Seq(Tile) /\ Ids(Phoned(items)) = Ids(items) /\ Distinct(Phoned(items))
  BY PhonedKeeps
<1>3. GRID_COLS \in Colcount
  BY GridColsCount
<1>4. \A t \in Ids(items) : Ranged(limits[t], GRID_COLS)
  BY IdsOf, PhoneRanged
<1> HIDE DEF limits
<1>5. SameIds(r, SortItems(Phoned(items))) /\ \E y \in Nat : Laid(r, limits, GRID_COLS, y)
  BY <1>2, <1>3, <1>4, ReflowLays
<1> HIDE DEF r
<1>6. PICK y \in Nat : Laid(r, limits, GRID_COLS, y)
  BY <1>5
<1>7. /\ b \in Seq(Tile) /\ SameIds(b, items) /\ Distinct(b) /\ ~HasOverlap(b)
      /\ \A p \in ToSet(b) : p \in Tile /\ Inside(p, limits, GRID_COLS, y)
  BY <1>2, <1>3, <1>5, <1>6, LaidInOrder
<1> HIDE DEF b
<1> QED BY <1>1, <1>7 DEF Inside

---------------------------------------------------------------------------
LEMMA BoardInvShown == BoardInv => ShownValid
<1> SUFFICES ASSUME BoardInv PROVE ValidBoard(shown)
  BY DEF ShownValid
<1>1. CASE Interacting
  <2>1. GestureFits /\ bp = "lg"
    BY <1>1 DEF BoardInv, GestureFits
  <2>2. shown = Preview /\ Board(Preview, GRID_COLS)
    BY <1>1, <2>1, PreviewIsBoard DEF shown
  <2> QED BY <1>1, <2>1, <2>2, BoardIsValid DEF ValidBoard
<1>2. CASE ~Interacting
  <2> DEFINE items == shownDesktop
  <2>1. shown = DeriveLayout(items, bp)
    BY <1>2 DEF shown, baseLayout
  <2>2. Board(items, GRID_COLS) /\ Ids(items) = ToSet(keys)
    BY ShownDesktopIsBoard DEF BoardInv
  <2>3. items \in Seq(Tile) /\ Distinct(items)
    BY <2>2 DEF Board
  <2> HIDE DEF items
  <2>4. CASE bp = "lg"
    <3>1. shown = items
      BY <2>1, <2>4 DEF DeriveLayout
    <3> QED BY <2>2, <2>4, <3>1, BoardIsValid DEF ValidBoard
  <2>5. CASE bp = "md"
    <3>1. ValidateGrid(shown, TABLET_COLS) /\ shown \in Seq(Tile) /\ SameIds(shown, items)
      BY <2>1, <2>3, <2>5, TabletIsValid
    <3>2. Ids(shown) = ToSet(keys)
      BY <2>2, <2>3, <3>1, SameIdsIds
    <3> QED BY <2>5, <3>1, <3>2 DEF ValidBoard
  <2>6. CASE bp = "sm"
    <3>1. /\ shown \in Seq(Tile) /\ SameIds(shown, items) /\ ~HasOverlap(shown)
          /\ \A p \in ToSet(shown) : p.x >= 0 /\ p.x + p.w <= GRID_COLS
      BY <2>1, <2>3, <2>6, PhoneIsValid
    <3>2. Ids(shown) = ToSet(keys)
      BY <2>2, <2>3, <3>1, SameIdsIds
    <3> QED BY <2>6, <3>1, <3>2 DEF ValidBoard
  <2> QED BY <2>4, <2>5, <2>6 DEF BoardInv, Breakpoints
<1> QED BY <1>1, <1>2

\* What the dashboard draws is a layout at every breakpoint and during a
\* gesture: no tile is missing, none overlaps another or leaves its columns,
\* and on the desktop board none breaks its limits or could float up.
THEOREM BoardAlwaysValid == Spec => []ShownValid
<1>1. BoardInv => ShownValid
  BY BoardInvShown
<1> QED BY <1>1, BoardKept, PTL

---------------------------------------------------------------------------
(* The derived boards read in the order of the desktop board *)

LEMMA IncreasingIsIdentity ==
  ASSUME NEW n \in Nat, NEW q \in [1 .. n -> 1 .. n],
         \A i, j \in 1 .. n : i < j => q[i] < q[j]
  PROVE  \A i \in 1 .. n : q[i] = i
<1> DEFINE S == {k \in 0 .. n : k = 0 \/ q[k] >= k}
           U == {k \in 0 .. n : k = n \/ q[n - k] <= n - k}
<1>1. 0 .. n \subseteq S
  <2>1. 0 \in S
    OBVIOUS
  <2>2. \A k \in 0 .. n - 1 : k \in S => k + 1 \in S
    <3> SUFFICES ASSUME NEW k \in 0 .. n - 1, k \in S PROVE k + 1 \in S
      OBVIOUS
    <3>1. k + 1 \in 1 .. n /\ k + 1 \in 0 .. n /\ q[k + 1] \in 1 .. n
      OBVIOUS
    <3>2. CASE k = 0
      BY <3>1, <3>2
    <3>3. CASE k # 0
      <4>1. k \in 1 .. n /\ q[k] \in 1 .. n /\ q[k] >= k
        BY <3>3
      <4>2. q[k] < q[k + 1]
        BY <3>1, <4>1
      <4> QED BY <3>1, <4>1, <4>2
    <3> QED BY <3>2, <3>3
  <2> HIDE DEF S
  <2> QED BY <2>1, <2>2, InductionUpTo
<1>2. 0 .. n \subseteq U
  <2>1. 0 \in U
    <3>1. CASE n = 0
      BY <3>1
    <3>2. CASE n # 0
      <4>1. n \in 1 .. n /\ n - 0 = n /\ q[n] \in 1 .. n
        BY <3>2
      <4> QED BY <4>1
    <3> QED BY <3>1, <3>2
  <2>2. \A k \in 0 .. n - 1 : k \in U => k + 1 \in U
    <3> SUFFICES ASSUME NEW k \in 0 .. n - 1, k \in U PROVE k + 1 \in U
      OBVIOUS
    <3>1. k + 1 \in 0 .. n
      OBVIOUS
    <3>2. CASE k + 1 = n
      BY <3>1, <3>2
    <3>3. CASE k + 1 # n
      <4> DEFINE i == n - (k + 1)
      <4>1. i \in 1 .. n /\ i + 1 \in 1 .. n /\ n - k = i + 1 /\ q[i] \in 1 .. n
        BY <3>3
      <4>2. q[i + 1] <= i + 1 /\ q[i + 1] \in 1 .. n
        BY <3>3, <4>1
      <4> HIDE DEF i
      <4>3. q[i] < q[i + 1]
        BY <4>1
      <4>4. q[i] <= i
        BY <4>1, <4>2, <4>3
      <4> QED BY <3>1, <4>4 DEF i
    <3> QED BY <3>2, <3>3
  <2> HIDE DEF U
  <2> QED BY <2>1, <2>2, InductionUpTo
<1> SUFFICES ASSUME NEW i \in 1 .. n PROVE q[i] = i
  OBVIOUS
<1>3. i \in S
  BY <1>1
<1>4. n - i \in U /\ n - (n - i) = i /\ n - i # n
  <2>1. n - i \in 0 .. n /\ n - (n - i) = i /\ n - i # n
    OBVIOUS
  <2> QED BY <1>2, <2>1
<1> QED BY <1>3, <1>4

\* Tiles in order, each strictly after the one before.
StrictlyInOrder(s) ==
  \A i, j \in DOMAIN s : i < j => s[i].y < s[j].y \/ (s[i].y = s[j].y /\ s[i].x < s[j].x)

\* The sort is stable.
LEMMA SortedStays ==
  ASSUME NEW s \in Seq(Tile), InOrder(s)
  PROVE  SortItems(s) = s
<1> DEFINE n == Len(s)
<1>1. n \in Nat /\ DOMAIN s = 1 .. n /\ \A i \in 1 .. n : s[i].x \in Int /\ s[i].y \in Int
  <2>1. n \in Nat /\ DOMAIN s = 1 .. n /\ \A i \in 1 .. n : s[i] \in Tile
    OBVIOUS
  <2> QED BY <2>1, TileFields
<1>2. PICK p : /\ Permutes(p, n) /\ SortItems(s) = Permuted(s, p)
               /\ \A i, j \in 1 .. n : i < j => Earlier(s, p[i], p[j])
  BY SortItemsSorts
<1>3. p \in [1 .. n -> 1 .. n] /\ \A i, j \in 1 .. n : p[i] = p[j] => i = j
  BY <1>2 DEF Permutes
<1>4. ASSUME NEW i \in 1 .. n, NEW j \in 1 .. n, i < j PROVE p[i] < p[j]
  <2> DEFINE a == p[i]
             b == p[j]
  <2>1. a \in 1 .. n /\ b \in 1 .. n /\ a # b /\ Earlier(s, a, b)
    BY <1>2, <1>3, <1>4
  <2> HIDE DEF a, b
  <2>2. CASE b < a
    <3>1. s[b].y < s[a].y \/ (s[b].y = s[a].y /\ s[b].x <= s[a].x)
      BY <1>1, <2>1, <2>2 DEF InOrder
    <3>2. s[a].y < s[b].y \/ (s[a].y = s[b].y /\ s[a].x < s[b].x)
      BY <1>1, <2>1, <2>2 DEF Earlier
    <3>3. s[a].y \in Int /\ s[b].y \in Int /\ s[a].x \in Int /\ s[b].x \in Int
      BY <1>1, <2>1
    <3> QED BY <3>1, <3>2, <3>3
  <2> QED BY <1>1, <2>1, <2>2 DEF a, b
<1> HIDE DEF n
<1>5. \A i \in 1 .. n : p[i] = i
  BY <1>1, <1>3, <1>4, IncreasingIsIdentity
<1>6. SortItems(s) = [k \in 1 .. n |-> s[p[k]]]
  BY <1>2 DEF Permuted, n
<1>7. SortItems(s) = [k \in 1 .. n |-> s[k]]
  BY <1>5, <1>6
<1> QED BY <1>1, <1>7

\* There is one way to order tiles at different places.
LEMMA OrderIsUnique ==
  ASSUME NEW r \in Seq(Tile), StrictlyInOrder(r), NEW b \in Seq(Tile), ToSet(b) = ToSet(r),
         Len(b) = Len(r), NoRepeats(b)
  PROVE  SortItems(b) = r
<1> DEFINE n == Len(r)
           c == SortItems(b)
<1>1. /\ n \in Nat /\ DOMAIN r = 1 .. n /\ DOMAIN b = 1 .. n
      /\ \A i \in 1 .. n : r[i] \in Tile /\ r[i].x \in Int /\ r[i].y \in Int
  <2>1. /\ n \in Nat /\ DOMAIN r = 1 .. n /\ DOMAIN b = 1 .. n
        /\ \A i \in 1 .. n : r[i] \in Tile
    OBVIOUS
  <2> QED BY <2>1, TileFields
<1>2. PICK p : Permutes(p, n) /\ c = Permuted(b, p)
  BY SortItemsPermutes
<1>3. InOrder(c)
  BY SortItemsPermutes
<1>4. c = [k \in 1 .. n |-> b[p[k]]]
  BY <1>2 DEF Permuted
<1>5. p \in [1 .. n -> 1 .. n] /\ \A i, j \in 1 .. n : p[i] = p[j] => i = j
  BY <1>2 DEF Permutes
<1> HIDE DEF c, n
<1>6. DOMAIN c = 1 .. n /\ \A i \in 1 .. n : c[i] = b[p[i]] /\ p[i] \in 1 .. n
  BY <1>4, <1>5
<1>7. \A i, j \in 1 .. n : c[i] = c[j] => i = j
  BY <1>1, <1>5, <1>6 DEF NoRepeats
<1>8. \A i \in 1 .. n : \E k \in 1 .. n : r[k] = c[i]
  <2> SUFFICES ASSUME NEW i \in 1 .. n PROVE \E k \in 1 .. n : r[k] = c[i]
    OBVIOUS
  <2>1. c[i] \in ToSet(b)
    BY <1>1, <1>6 DEF ToSet
  <2> QED BY <1>1, <2>1 DEF ToSet
<1> DEFINE q == [i \in 1 .. n |-> CHOOSE k \in 1 .. n : r[k] = c[i]]
<1>9. q \in [1 .. n -> 1 .. n] /\ \A i \in 1 .. n : r[q[i]] = c[i]
  BY <1>8
<1> HIDE DEF q
<1>10. ASSUME NEW i \in 1 .. n, NEW j \in 1 .. n, i < j PROVE q[i] < q[j]
  <2> DEFINE k == q[i]
             l == q[j]
  <2>1. k \in 1 .. n /\ l \in 1 .. n /\ r[k] = c[i] /\ r[l] = c[j]
    BY <1>9
  <2>2. i # j
    BY <1>1, <1>10
  <2> HIDE DEF k, l
  <2>3. k # l
    BY <1>7, <2>1, <2>2
  <2>4. CASE l < k
    <3>1. r[l].y < r[k].y \/ (r[l].y = r[k].y /\ r[l].x < r[k].x)
      BY <1>1, <2>1, <2>4 DEF StrictlyInOrder
    <3>2. r[k].y < r[l].y \/ (r[k].y = r[l].y /\ r[k].x <= r[l].x)
      <4>1. DOMAIN c = 1 .. n
        BY <1>6
      <4>2. c[i].y < c[j].y \/ (c[i].y = c[j].y /\ c[i].x <= c[j].x)
        BY <1>3, <1>10, <4>1 DEF InOrder
      <4> QED BY <2>1, <4>2
    <3> QED BY <1>1, <2>1, <3>1, <3>2
  <2> QED BY <1>1, <2>1, <2>3, <2>4 DEF k, l
<1>11. \A i \in 1 .. n : q[i] = i
  BY <1>1, <1>9, <1>10, IncreasingIsIdentity
<1>12. \A i \in 1 .. n : c[i] = r[i]
  BY <1>9, <1>11
<1>13. c = r
  BY <1>1, <1>4, <1>6, <1>12
<1> QED BY <1>13 DEF c

LEMMA LaidStrictly ==
  ASSUME NEW r, NEW limits, NEW cols, NEW y, Laid(r, limits, cols, y)
  PROVE  StrictlyInOrder(r)
<1>1. r \in Seq(Tile) /\ DOMAIN r = 1 .. Len(r) /\ \A i \in 1 .. Len(r) : r[i] \in Tile
  BY DEF Laid
<1> SUFFICES ASSUME NEW i \in 1 .. Len(r), NEW j \in 1 .. Len(r), i < j
             PROVE  r[i].y < r[j].y \/ (r[i].y = r[j].y /\ r[i].x < r[j].x)
  BY <1>1 DEF StrictlyInOrder
<1> DEFINE p == r[i]
           q == r[j]
           k == limits[p.id]
<1>2. p \in Tile /\ q \in Tile /\ Inside(p, limits, cols, y) /\ Follows(p, q)
  BY <1>1 DEF Laid
<1> HIDE DEF p, q
<1>3. /\ p.x \in Int /\ p.y \in Int /\ p.w \in Int /\ p.h \in Int
      /\ q.x \in Int /\ q.y \in Int
  BY <1>2, TileFields
<1>4. Ranged(k, cols) /\ p.w \in k.minW .. k.maxW /\ p.h \in k.minH .. k.maxH
  BY <1>2 DEF Inside
<1> HIDE DEF k
<1>5. p.w >= 1 /\ p.h >= 1
  BY <1>3, <1>4 DEF Ranged, Range4
<1>6. p.y < q.y \/ (p.y = q.y /\ p.x < q.x)
  BY <1>2, <1>3, <1>5 DEF Follows
<1> QED BY <1>6 DEF p, q

\* Sorted, a derived layout has the tiles in the order it was made from.
LEMMA LaidReads ==
  ASSUME NEW items \in Seq(Tile), Distinct(items), NEW from \in Seq(Tile), Distinct(from),
         Ids(from) = Ids(items), Len(from) = Len(items), InOrder(from), NEW limits, NEW cols \in Colcount, NEW y,
         NEW r, SameIds(r, SortItems(from)), Laid(r, limits, cols, y)
  PROVE  SameIds(SortItems(RestoreOrder(items, r)), from)
<1> DEFINE b == RestoreOrder(items, r)
<1>1. SortItems(from) = from
  BY SortedStays
<1>2. r \in Seq(Tile) /\ SameIds(r, from) /\ StrictlyInOrder(r)
  BY <1>1, LaidStrictly DEF Laid
<1>3. Ids(r) = Ids(items) /\ Distinct(r)
  BY <1>2, SameIdsIds
<1>4. ToSet(b) = ToSet(r)
  BY <1>2, <1>3, RestoreOrderPermutes
<1>5. b \in Seq(Tile) /\ SameIds(b, items)
  BY <1>2, RestoreOrderKeeps
<1> HIDE DEF b
<1>6. Distinct(b) /\ NoRepeats(b)
  BY <1>5, SameIdsIds, DistinctBySet
<1>7. Len(b) = Len(r)
  BY <1>2, <1>5 DEF SameIds
<1>8. SortItems(b) = r
  BY <1>2, <1>4, <1>5, <1>6, <1>7, OrderIsUnique
<1> QED BY <1>2, <1>8 DEF b

---------------------------------------------------------------------------
LEMMA DerivedReads ==
  ASSUME NEW items \in Seq(Tile), Distinct(items), NEW b \in {"md", "sm"}
  PROVE  SameIds(SortItems(DeriveLayout(items, b)), SortItems(items))
<1> DEFINE s == SortItems(items)
<1>1. /\ s \in Seq(Tile) /\ Ids(s) = Ids(items) /\ Distinct(s) /\ Len(s) = Len(items) /\ InOrder(s)
  <2>1. PICK p : Permutes(p, Len(items)) /\ s = Permuted(items, p)
    BY SortItemsPermutes
  <2>2. InOrder(s)
    BY SortItemsPermutes
  <2> QED BY <2>1, <2>2, PermutedKeeps
<1>2. TABLET_COLS \in Colcount /\ GRID_COLS \in Colcount
  BY GridColsCount
<1>3. CASE b = "md"
  <2> DEFINE limits == [t \in Ids(items) |-> EffectiveConstraints(t, TABLET_COLS)]
             r == Reflow(s, TABLET_COLS, limits, GRID_COLS)
  <2>1. DeriveLayout(items, "md") = RestoreOrder(items, r)
    BY DEF DeriveLayout
  <2> HIDE DEF s
  <2>2. \A t \in Ids(items) : Ranged(limits[t], TABLET_COLS)
    BY <1>2, IdsOf, EffectiveRanged
  <2> HIDE DEF limits
  <2>3. SameIds(r, SortItems(s)) /\ \E y \in Nat : Laid(r, limits, TABLET_COLS, y)
    BY <1>1, <1>2, <2>2, ReflowLays
  <2> HIDE DEF r
  <2>4. PICK y \in Nat : Laid(r, limits, TABLET_COLS, y)
    BY <2>3
  <2>5. SameIds(SortItems(RestoreOrder(items, r)), s)
    BY <1>1, <1>2, <2>3, <2>4, LaidReads
  <2> QED BY <1>3, <2>1, <2>5 DEF s
<1>4. CASE b = "sm"
  <2> DEFINE limits == [t \in Ids(items) |-> PhoneConstraints(t)]
             from == Phoned(items)
             r == Reflow(from, GRID_COLS, limits, GRID_COLS)
  <2>1. DeriveLayout(items, "sm") = RestoreOrder(items, r)
    BY PhoneIsReflow
  <2>2. \A t \in Ids(items) : Ranged(limits[t], GRID_COLS)
    BY IdsOf, PhoneRanged
  <2> HIDE DEF limits
  <2>3. /\ from \in Seq(Tile) /\ Len(from) = Len(items) /\ SameIds(from, s)
        /\ Ids(from) = Ids(items) /\ Distinct(from)
        /\ \A i \in 1 .. Len(items) : from[i].x = 0 /\ from[i].y = 0
    BY PhonedKeeps
  <2> HIDE DEF from, s
  <2>4. DOMAIN from = 1 .. Len(items)
    BY <2>3
  <2>5. InOrder(from)
    BY <2>3, <2>4 DEF InOrder
  <2>6. SameIds(r, SortItems(from)) /\ \E y \in Nat : Laid(r, limits, GRID_COLS, y)
    BY <1>2, <2>2, <2>3, ReflowLays
  <2> HIDE DEF r
  <2>7. PICK y \in Nat : Laid(r, limits, GRID_COLS, y)
    BY <2>6
  <2>8. SameIds(SortItems(RestoreOrder(items, r)), from)
    BY <1>2, <2>3, <2>5, <2>6, <2>7, LaidReads
  <2> QED BY <1>4, <2>1, <2>3, <2>8, SameIdsTransitive DEF s
<1> QED BY <1>3, <1>4

LEMMA BoardInvReads == BoardInv => ReadingOrderKept
<1> SUFFICES ASSUME BoardInv, bp # "lg"
             PROVE  [i \in DOMAIN baseLayout |-> SortItems(baseLayout)[i].id]
                      = [i \in DOMAIN shownDesktop |-> SortItems(shownDesktop)[i].id]
  BY DEF ReadingOrderKept
<1> DEFINE items == shownDesktop
           b == baseLayout
<1>1. items \in Seq(Tile) /\ Distinct(items)
  BY ShownDesktopIsBoard DEF BoardInv, Board
<1>2. bp \in {"md", "sm"}
  BY DEF BoardInv, Breakpoints
<1>3. b = DeriveLayout(items, bp)
  BY DEF baseLayout
<1> HIDE DEF items, b
<1>4. SameIds(SortItems(b), SortItems(items))
  BY <1>1, <1>2, <1>3, DerivedReads
<1>5. b \in Seq(Tile) /\ SameIds(b, items)
  BY <1>1, <1>2, <1>3, TabletIsValid, PhoneIsValid
<1>6. DOMAIN b = DOMAIN items /\ DOMAIN items = 1 .. Len(items)
  BY <1>1, <1>5 DEF SameIds
<1>7. Len(SortItems(items)) = Len(items)
  <2>1. PICK p : Permutes(p, Len(items)) /\ SortItems(items) = Permuted(items, p)
    BY <1>1, SortItemsPermutes
  <2> QED BY <1>1, <2>1, PermutedKeeps
<1>8. \A i \in DOMAIN items : SortItems(b)[i].id = SortItems(items)[i].id
  BY <1>4, <1>6, <1>7 DEF SameIds
<1> QED BY <1>6, <1>8 DEF items, b

\* The tablet and phone boards read in the order of the desktop board.
THEOREM OrderAlwaysKept == Spec => []ReadingOrderKept
<1>1. BoardInv => ReadingOrderKept
  BY BoardInvReads
<1> QED BY <1>1, BoardKept, PTL

---------------------------------------------------------------------------
(* A sweep never takes a tile down *)

LEMMA FitsTall ==
  ASSUME NEW p \in Tile, NEW cols \in Colcount, Fits(p, cols)
  PROVE  p.h >= 1 /\ p.w >= 1
<1>1. p.id \in TileIds /\ p.h \in Int /\ p.w \in Int
  BY TileFields
<1> DEFINE k == EffectiveConstraints(p.id, cols)
<1>2. k.minW \in Nat \ {0} /\ k.minH \in Nat \ {0} /\ k.maxW \in Nat /\ k.maxH \in Nat
  BY <1>1, ConstraintsConsistent
<1>3. p.w \in k.minW .. k.maxW /\ p.h \in k.minH .. k.maxH
  BY DEF Fits
<1> HIDE DEF k
<1> QED BY <1>1, <1>2, <1>3

\* Among tiles in order the one that is settled meets no earlier one that is
\* not below its place.
LEMMA StaysClear ==
  ASSUME NEW p \in Tile, NEW q \in Tile, NEW y \in Int, y <= p.y, p.y <= q.y, q.h >= 1,
         ~Collides(p, q)
  PROVE  ~Collides(At(p, y), q)
<1>1. /\ At(p, y).y = y /\ At(p, y).id = p.id /\ At(p, y).x = p.x /\ At(p, y).w = p.w
      /\ At(p, y).h = p.h
  BY AtTile
<1>2. /\ p.x \in Int /\ p.y \in Int /\ p.w \in Int /\ p.h \in Int
      /\ q.x \in Int /\ q.y \in Int /\ q.w \in Int /\ q.h \in Int
  BY TileFields
<1> QED BY <1>1, <1>2 DEF Collides, SharesColumns

LEMMA NoneGoesDown ==
  ASSUME NEW s \in Seq(Tile), InOrder(s), NEW m \in 0 .. Len(s),
         \A i, j \in 1 .. m : ~Collides(s[i], s[j]),
         \A i \in 1 .. m : s[i].h >= 1,
         NEW r, Settled(r, s, Len(s))
  PROVE  \A i \in 1 .. m : r[i].y <= s[i].y
<1> DEFINE n == Len(s)
<1>1. /\ n \in Nat /\ DOMAIN s = 1 .. n /\ r \in Seq(Tile) /\ Len(r) = n
      /\ \A i \in 1 .. n : s[i] \in Tile /\ r[i] \in Tile /\ r[i].y \in Int /\ s[i].y \in Int
                           /\ s[i].x \in Int
  <2>1. n \in Nat /\ DOMAIN s = 1 .. n /\ r \in Seq(Tile) /\ Len(r) = n
    BY DEF Settled
  <2>2. \A i \in 1 .. n : s[i] \in Tile /\ r[i] \in Tile
    BY <2>1
  <2> QED BY <2>1, <2>2, TileFields
<1> DEFINE S == {k \in 0 .. m : \A i \in 1 .. k : r[i].y <= s[i].y}
<1>2. 0 \in S
  OBVIOUS
<1>3. \A k \in 0 .. m - 1 : k \in S => k + 1 \in S
  <2> SUFFICES ASSUME NEW k \in 0 .. m - 1, k \in S PROVE k + 1 \in S
    OBVIOUS
  <2> DEFINE l == k + 1
  <2>1. l \in 1 .. m /\ l \in 1 .. n /\ l \in 0 .. m /\ \A j \in 1 .. l - 1 : j \in 1 .. k /\ j \in 1 .. m /\ j \in 1 .. n /\ j < l
    BY <1>1
  <2>2. \A i \in 1 .. l : i \in 1 .. k \/ i = l
    BY <1>1
  <2> HIDE DEF l
  <2>3. ASSUME NEW j \in 1 .. l - 1 PROVE ~Collides(r[j], s[l])
    <3> DEFINE p == s[j]
               q == s[l]
               y == r[j].y
    <3>1. p \in Tile /\ q \in Tile /\ y \in Int /\ ~Collides(p, q) /\ q.h >= 1
      BY <1>1, <2>1
    <3>2. y <= p.y
      BY <2>1
    <3>3. p.y <= q.y
      <4>1. s[j].y < s[l].y \/ (s[j].y = s[l].y /\ s[j].x <= s[l].x)
        BY <1>1, <2>1 DEF InOrder
      <4> QED BY <1>1, <2>1, <4>1
    <3>4. r[j] = At(p, y)
      BY <1>1, <2>1 DEF Settled
    <3> HIDE DEF p, q, y
    <3>5. ~Collides(At(p, y), q)
      BY <3>1, <3>2, <3>3, StaysClear
    <3> QED BY <3>4, <3>5 DEF q
  <2>4. r[l].y <= s[l].y
    BY <1>1, <2>1, <2>3 DEF Settled
  <2> QED BY <2>1, <2>2, <2>4 DEF l
<1>4. 0 .. m \subseteq S
  <2> HIDE DEF S
  <2>1. m \in Nat
    BY <1>1
  <2> QED BY <1>2, <1>3, <2>1, InductionUpTo
<1> QED BY <1>4

\* A tile none of whose predecessors meets another is not taken down.
LEMMA SweepLifts ==
  ASSUME NEW s \in Seq(Tile), Upright(s), NEW cols \in Colcount, AllFit(s, cols), NEW e \in ToSet(s),
         \A p, q \in ToSet(s) : p.y <= e.y /\ q.y <= e.y => ~Collides(p, q)
  PROVE  \E f \in ToSet(SettleAll(SortItems(s))) : f = At(e, f.y) /\ f.y <= e.y
<1> DEFINE t == SortItems(s)
           r == SettleAll(t)
           n == Len(t)
<1>1. t \in Seq(Tile) /\ ToSet(t) = ToSet(s) /\ Upright(t) /\ AllFit(t, cols) /\ InOrder(t)
  <2>1. PICK p : Permutes(p, Len(s)) /\ t = Permuted(s, p)
    BY SortItemsPermutes
  <2>2. InOrder(t)
    BY SortItemsPermutes
  <2> QED BY <2>1, <2>2, PermutedKeeps
<1> HIDE DEF t
<1>2. Settled(r, t, n)
  BY <1>1, SettleAllSettles
<1> HIDE DEF r
<1>3. /\ n \in Nat /\ DOMAIN t = 1 .. n /\ r \in Seq(Tile) /\ Len(r) = n /\ DOMAIN r = 1 .. n
      /\ \A i \in 1 .. n : t[i] \in Tile /\ t[i] \in ToSet(t) /\ t[i].x \in Int /\ t[i].y \in Int
      /\ \A i \in 1 .. n : r[i] \in ToSet(r)
  <2>1. r \in Seq(Tile) /\ Len(r) = n
    BY <1>2 DEF Settled
  <2> QED BY <1>1, <2>1, ToSetIn, TileFields
<1>4. PICK m \in 1 .. n : t[m] = e
  BY <1>1, ToSetIn
<1>5. \A i \in 1 .. m : i \in 1 .. n /\ t[i] \in ToSet(s) /\ t[i].y <= e.y
  <2> SUFFICES ASSUME NEW i \in 1 .. m PROVE i \in 1 .. n /\ t[i] \in ToSet(s) /\ t[i].y <= e.y
    OBVIOUS
  <2>1. i \in 1 .. n /\ (i = m \/ i < m)
    BY <1>3
  <2>2. i < m => t[i].y < t[m].y \/ (t[i].y = t[m].y /\ t[i].x <= t[m].x)
    BY <1>1, <1>3, <2>1 DEF InOrder
  <2> QED BY <1>1, <1>3, <1>4, <2>1, <2>2
<1>6. \A i, j \in 1 .. m : ~Collides(t[i], t[j])
  BY <1>5
<1>7. \A i \in 1 .. m : t[i].h >= 1
  <2>1. \A i \in 1 .. m : t[i] \in Tile /\ Fits(t[i], cols)
    BY <1>1, <1>3, <1>5 DEF AllFit
  <2> QED BY <2>1, FitsTall
<1>8. m \in 0 .. n /\ m \in 1 .. m
  BY <1>3
<1>9. r[m].y <= t[m].y
  <2>1. \A i \in 1 .. m : r[i].y <= t[i].y
    BY <1>1, <1>2, <1>6, <1>7, <1>8, NoneGoesDown
  <2> QED BY <1>8, <2>1
<1>10. r[m] = At(t[m], r[m].y)
  BY <1>2 DEF Settled
<1> QED BY <1>3, <1>4, <1>9, <1>10 DEF r, t

---------------------------------------------------------------------------
(* The dragged tile *)

LEMMA FitItemSame ==
  ASSUME NEW it \in Tile, NEW cols \in Colcount, Fits(it, cols), it.y >= 0,
         it.y <= GRID_MAX_ROWS * 4
  PROVE  FitItem(it, cols) = it
<1> DEFINE k == EffectiveConstraints(it.id, cols)
<1>1. it.id \in TileIds /\ it.x \in Int /\ it.y \in Int /\ it.w \in Int /\ it.h \in Int /\ cols \in Int
  BY TileFields DEF Colcount
<1>2. k.minW \in Int /\ k.minH \in Int /\ k.maxW \in Int /\ k.maxH \in Int
  BY <1>1, ConstraintsConsistent
<1>3. it.x >= 0 /\ it.x + it.w <= cols /\ it.w \in k.minW .. k.maxW /\ it.h \in k.minH .. k.maxH
  BY DEF Fits
<1>4. FitItem(it, cols) =
        [id |-> it.id, w |-> Clamp(it.w, k.minW, k.maxW), h |-> Clamp(it.h, k.minH, k.maxH),
         x |-> Clamp(it.x, 0, cols - Clamp(it.w, k.minW, k.maxW)),
         y |-> Clamp(it.y, 0, GRID_MAX_ROWS * 4)]
  BY DEF FitItem
<1> HIDE DEF k
<1>5. Clamp(it.w, k.minW, k.maxW) = it.w /\ Clamp(it.h, k.minH, k.maxH) = it.h
  BY <1>1, <1>2, <1>3 DEF Clamp, Lesser, Greater
<1>6. Clamp(it.x, 0, cols - it.w) = it.x
  BY <1>1, <1>3 DEF Clamp, Lesser, Greater
<1>7. Clamp(it.y, 0, GRID_MAX_ROWS * 4) = it.y
  BY <1>1, GridAssumption DEF Clamp, Lesser, Greater
<1>8. it = [id |-> it.id, w |-> it.w, h |-> it.h, x |-> it.x, y |-> it.y]
  BY DEF Tile
<1> QED BY <1>4, <1>5, <1>6, <1>7, <1>8

\* The clamp of the rows takes a tile up, if anything.
LEMMA FitItemUp ==
  ASSUME NEW it \in Tile, NEW cols \in Colcount, Fits(it, cols), it.y >= 0
  PROVE  FitItem(it, cols).y = it.y \/ FitItem(it, cols).y = GRID_MAX_ROWS * 4
<1>1. it.y \in Int /\ GRID_MAX_ROWS \in Nat
  BY TileFields, GridAssumption
<1>2. FitItem(it, cols).y = Clamp(it.y, 0, GRID_MAX_ROWS * 4)
  BY DEF FitItem
<1>3. Clamp(it.y, 0, GRID_MAX_ROWS * 4) \in {it.y, GRID_MAX_ROWS * 4}
  BY <1>1 DEF Clamp, Lesser, Greater
<1> QED BY <1>2, <1>3

\* A tile above the last row that meets nothing there ends no lower, in its
\* columns, when the layout is compacted.
LEMMA CompactLifts ==
  ASSUME NEW items \in Seq(Tile), Distinct(items), Upright(items), NEW cols \in Colcount,
         AllFit(items, cols), Apart(items), NEW e \in ToSet(items), e.y < GRID_MAX_ROWS * 4
  PROVE  \E f \in ToSet(Compact(items, cols)) : f.id = e.id /\ f.x = e.x /\ f.y <= e.y
<1> DEFINE s == Fitted(items, cols)
           once == SettleAll(SortItems(s))
           twice == SettleAll(SortItems(once))
           r == RestoreOrder(items, twice)
           n == Len(items)
<1>1. Compact(items, cols) = r
  BY DEF Compact
<1>2. /\ s \in Seq(Tile) /\ Len(s) = n /\ Upright(s)
      /\ \A i \in 1 .. n : s[i] = FitItem(items[i], cols) /\ s[i].id = items[i].id /\ Fits(s[i], cols)
  BY FittedFits
<1> HIDE DEF s
<1>3. /\ n \in Nat /\ DOMAIN s = 1 .. n /\ DOMAIN items = 1 .. n
      /\ \A i \in 1 .. n : items[i] \in Tile /\ items[i].y >= 0 /\ Fits(items[i], cols)
                           /\ items[i].y \in Int
  <2>1. n \in Nat /\ DOMAIN s = 1 .. n /\ DOMAIN items = 1 .. n /\ \A i \in 1 .. n : items[i] \in Tile
    BY <1>2
  <2> QED BY <2>1, TileFields DEF Upright, AllFit
<1>4. Distinct(s) /\ Ids(s) = Ids(items) /\ AllFit(s, cols)
  <2>1. SameIds(s, items)
    BY <1>2 DEF SameIds
  <2> QED BY <1>2, <1>3, <2>1, SameIdsIds DEF AllFit
<1>5. \A i \in 1 .. n : s[i].y < GRID_MAX_ROWS * 4 \/ items[i].y < GRID_MAX_ROWS * 4 => s[i] = items[i]
  <2> SUFFICES ASSUME NEW i \in 1 .. n, s[i].y < GRID_MAX_ROWS * 4 \/ items[i].y < GRID_MAX_ROWS * 4
               PROVE  s[i] = items[i]
    OBVIOUS
  <2> DEFINE p == items[i]
  <2>1. p \in Tile /\ Fits(p, cols) /\ p.y >= 0 /\ s[i] = FitItem(p, cols) /\ p.y \in Int
    BY <1>2, <1>3
  <2> HIDE DEF p
  <2>2. GRID_MAX_ROWS \in Nat
    BY GridAssumption
  <2>3. s[i].y = p.y \/ s[i].y = GRID_MAX_ROWS * 4
    BY <2>1, FitItemUp
  <2>4. s[i].y < GRID_MAX_ROWS * 4 \/ p.y < GRID_MAX_ROWS * 4
    BY DEF p
  <2>5. p.y <= GRID_MAX_ROWS * 4
    BY <2>1, <2>2, <2>3, <2>4
  <2>6. FitItem(p, cols) = p
    BY <2>1, <2>5, FitItemSame
  <2> QED BY <2>1, <2>6 DEF p
<1>6. e \in Tile /\ e.y \in Int /\ e \in ToSet(s)
  <2>1. PICK i \in 1 .. n : items[i] = e
    BY ToSetIn
  <2> QED BY <1>2, <1>3, <1>5, <2>1, ToSetIn
<1>7. \A p, q \in ToSet(s) : p.y <= e.y /\ q.y <= e.y => ~Collides(p, q)
  <2> SUFFICES ASSUME NEW p \in ToSet(s), NEW q \in ToSet(s), p.y <= e.y, q.y <= e.y
               PROVE  ~Collides(p, q)
    OBVIOUS
  <2>1. PICK i \in 1 .. n, j \in 1 .. n : s[i] = p /\ s[j] = q
    BY <1>2, ToSetIn
  <2>2. p.y \in Int /\ q.y \in Int /\ GRID_MAX_ROWS * 4 \in Int
    BY <1>2, ToSetIn, TileFields, GridAssumption
  <2>3. p.y < GRID_MAX_ROWS * 4 /\ q.y < GRID_MAX_ROWS * 4
    <3> DEFINE top == GRID_MAX_ROWS * 4
    <3>1. p.y \in Int /\ q.y \in Int /\ top \in Int /\ e.y < top
      BY <2>2
    <3> HIDE DEF top
    <3>2. p.y < top /\ q.y < top
      BY <1>6, <3>1
    <3> QED BY <3>2 DEF top
  <2>4. s[i] = items[i] /\ s[j] = items[j]
    BY <1>5, <2>1, <2>3
  <2> QED BY <1>3, <2>1, <2>4 DEF Apart
<1>8. PICK f \in ToSet(once) : f = At(e, f.y) /\ f.y <= e.y
  BY <1>2, <1>4, <1>6, <1>7, SweepLifts
<1>9. Board(once, cols) /\ Ids(once) = Ids(s) /\ Len(once) = n
  BY <1>2, <1>4, Sweep
<1> HIDE DEF once
<1>10. once \in Seq(Tile) /\ Upright(once) /\ Distinct(once) /\ AllFit(once, cols) /\ Apart(once)
  BY <1>9 DEF Board
<1>11. \A p, q \in ToSet(once) : ~Collides(p, q)
  <2> SUFFICES ASSUME NEW p \in ToSet(once), NEW q \in ToSet(once) PROVE ~Collides(p, q)
    OBVIOUS
  <2>1. PICK i \in 1 .. Len(once), j \in 1 .. Len(once) : once[i] = p /\ once[j] = q
    BY <1>10, ToSetIn
  <2> QED BY <1>10, <2>1, ToSetIn DEF Apart
<1>12. PICK g \in ToSet(twice) : g = At(f, g.y) /\ g.y <= f.y
  BY <1>10, <1>11, SweepLifts
<1>13. Board(twice, cols) /\ Ids(twice) = Ids(once)
  BY <1>10, Sweep
<1> HIDE DEF twice
<1>14. twice \in Seq(Tile) /\ Distinct(twice) /\ Ids(twice) = Ids(items)
  BY <1>4, <1>9, <1>13 DEF Board
<1>15. ToSet(r) = ToSet(twice)
  BY <1>14, RestoreOrderPermutes
<1> HIDE DEF r
<1>16. f \in Tile /\ g \in Tile /\ f.y \in Int /\ g.y \in Int
  BY <1>10, <1>14, ToSetIn, TileFields
<1>17. f.id = e.id /\ f.x = e.x /\ g.id = f.id /\ g.x = f.x
  <2>1. At(e, f.y).id = e.id /\ At(e, f.y).x = e.x
    BY <1>6, <1>16, AtTile
  <2>2. At(f, g.y).id = f.id /\ At(f, g.y).x = f.x
    BY <1>16, AtTile
  <2> QED BY <1>8, <1>12, <2>1, <2>2
<1>18. g.y <= e.y
  BY <1>6, <1>8, <1>12, <1>16
<1> QED BY <1>1, <1>15, <1>17, <1>18

\* The tiles placed around the moved one are all inside the grid, apart from
\* each other and from it.
LEMMA AroundIsApart ==
  ASSUME NEW s \in Seq(Tile), NEW cols \in Colcount, AllFit(s, cols),
         NEW moved \in Tile, Fits(moved, cols), moved.y >= 0,
         NEW r, AroundBy(r, moved, s, Len(s))
  PROVE  Upright(r) /\ AllFit(r, cols) /\ Apart(r) /\ moved \in ToSet(r)
<1> DEFINE n == Len(s)
<1>1. /\ n \in Nat /\ DOMAIN s = 1 .. n /\ r \in Seq(Tile) /\ Len(r) = n + 1 /\ DOMAIN r = 1 .. n + 1
      /\ r[1] = moved
  BY DEF AroundBy
<1>2. \A i \in 1 .. n + 1 : r[i] \in Tile /\ r[i].y \in Int
  BY <1>1, TileFields
<1>3. ASSUME NEW i \in 1 .. n + 1
      PROVE  r[i].y >= 0 /\ Fits(r[i], cols) /\ \A j \in 1 .. i - 1 : ~Collides(r[j], r[i])
  <2>1. CASE i = 1
    BY <1>1, <2>1
  <2>2. CASE i # 1
    <3> DEFINE k == i - 1
    <3>1. k \in 1 .. n /\ k + 1 = i
      BY <1>1, <2>2
    <3> HIDE DEF k
    <3>2. /\ r[k + 1] = At(s[k], r[k + 1].y) /\ r[k + 1].y >= 0
          /\ \A j \in 1 .. k : ~Collides(r[j], r[k + 1])
      BY <3>1 DEF AroundBy
    <3>3. s[k] \in Tile /\ Fits(s[k], cols)
      BY <1>1, <3>1 DEF AllFit
    <3>4. Fits(At(s[k], r[i].y), cols)
      BY <1>2, <3>3, AtFits
    <3>5. r[i] = At(s[k], r[i].y) /\ r[i].y >= 0
      BY <3>1, <3>2
    <3>6. \A j \in 1 .. i - 1 : ~Collides(r[j], r[i])
      BY <3>1, <3>2 DEF k
    <3> QED BY <3>4, <3>5, <3>6
  <2> QED BY <2>1, <2>2
<1>4. Upright(r) /\ AllFit(r, cols)
  BY <1>1, <1>3 DEF Upright, AllFit
<1>5. Apart(r)
  <2> SUFFICES ASSUME NEW i \in 1 .. n + 1, NEW j \in 1 .. n + 1 PROVE ~Collides(r[i], r[j])
    BY <1>1 DEF Apart
  <2>1. i = j \/ i \in 1 .. j - 1 \/ j \in 1 .. i - 1
    BY <1>1
  <2>2. CASE i = j
    BY <2>2 DEF Collides
  <2>3. CASE i \in 1 .. j - 1
    BY <1>3, <2>3
  <2>4. CASE j \in 1 .. i - 1
    BY <1>2, <1>3, <2>4, CollidesBothWays
  <2> QED BY <2>1, <2>2, <2>3, <2>4
<1>6. moved \in ToSet(r)
  <2>1. 1 \in 1 .. Len(r)
    BY <1>1
  <2> QED BY <1>1, <2>1, ToSetIn
<1> QED BY <1>4, <1>5, <1>6

\* The moved tile keeps the column it is put in and goes no lower than the
\* row it is put in.
LEMMA PriorityLifts ==
  ASSUME NEW items \in Seq(Tile), Distinct(items), NEW moved \in Tile, NEW cols \in Colcount,
         NEW down, moved.id \in Ids(items), Fits(moved, cols), moved.y >= 0,
         moved.y < GRID_MAX_ROWS * 4
  PROVE  LET p == TileOf(PlaceWithPriority(items, moved, cols, down), moved.id)
         IN  p.x = moved.x /\ p.y <= moved.y
<1> DEFINE w == Without(items, moved.id)
           fit == Fitted(w, cols)
           others == SortItems(fit)
           around == PlacedAround(moved, others, down)
           packed == Compact(around, cols)
           r == PlaceWithPriority(items, moved, cols, down)
<1>1. w \in Seq(Tile) /\ Distinct(w) /\ Ids(w) = Ids(items) \ {moved.id}
  BY WithoutKeeps
<1> HIDE DEF w
<1>2. fit \in Seq(Tile) /\ Distinct(fit) /\ Ids(fit) = Ids(w) /\ Upright(fit) /\ AllFit(fit, cols)
  <2>1. /\ fit \in Seq(Tile) /\ Len(fit) = Len(w) /\ Upright(fit)
        /\ \A i \in 1 .. Len(w) : fit[i].id = w[i].id /\ Fits(fit[i], cols)
    BY <1>1, FittedFits
  <2> HIDE DEF fit
  <2>2. SameIds(fit, w) /\ AllFit(fit, cols)
    BY <2>1 DEF SameIds, AllFit
  <2> QED BY <1>1, <2>1, <2>2, SameIdsIds
<1> HIDE DEF fit
<1>3. /\ others \in Seq(Tile) /\ Distinct(others) /\ Ids(others) = Ids(w) /\ Upright(others)
      /\ AllFit(others, cols)
  <2>1. PICK p : Permutes(p, Len(fit)) /\ others = Permuted(fit, p)
    BY <1>2, SortItemsPermutes
  <2> HIDE DEF others
  <2> QED BY <1>2, <2>1, PermutedKeeps
<1> HIDE DEF others
<1>4. AroundBy(around, moved, others, Len(others))
  BY <1>3, PlacedAroundKeeps
<1> HIDE DEF around
<1>5. around \in Seq(Tile) /\ Distinct(around) /\ Ids(around) = Ids(items)
  <2>1. moved.id \notin Ids(others)
    BY <1>1, <1>3
  <2>2. around \in Seq(Tile) /\ Distinct(around) /\ Ids(around) = Ids(others) \cup {moved.id}
    BY <1>3, <1>4, <2>1, AroundIds
  <2> QED BY <1>1, <1>3, <2>2
<1>6. Upright(around) /\ AllFit(around, cols) /\ Apart(around) /\ moved \in ToSet(around)
  BY <1>3, <1>4, AroundIsApart
<1>7. PICK f \in ToSet(packed) : f.id = moved.id /\ f.x = moved.x /\ f.y <= moved.y
  BY <1>5, <1>6, CompactLifts
<1>8. Board(packed, cols) /\ SameIds(packed, around)
  BY <1>5, CompactIsBoard
<1> HIDE DEF packed
<1>9. packed \in Seq(Tile) /\ Distinct(packed) /\ Ids(packed) = Ids(items)
  BY <1>5, <1>8, SameIdsIds DEF Board
<1>10. r = RestoreOrder(items, packed)
  BY DEF PlaceWithPriority, packed, around, others, fit, w
<1> HIDE DEF r
<1>11. r \in Seq(Tile) /\ SameIds(r, items) /\ ToSet(r) = ToSet(packed)
  BY <1>9, <1>10, RestoreOrderKeeps, RestoreOrderPermutes
<1>12. Distinct(r) /\ Ids(r) = Ids(items)
  BY <1>11, SameIdsIds
<1>13. f = TileOf(r, moved.id)
  BY <1>7, <1>11, <1>12, TileOfIs
<1> QED BY <1>7, <1>13 DEF r

---------------------------------------------------------------------------
(* The dragged tile is aimed inside the grid *)

\* Where a drag has gone so far.
Aimed ==
  gesture.kind = "drag" =>
    /\ gesture.to.x \in Int /\ gesture.to.y \in Int
    /\ gesture.to.x >= 0 /\ gesture.to.x + TileOf(gesture.base, gesture.id).w <= GRID_COLS
    /\ gesture.to.y >= 0

\* DashboardGrid clamps a row at four times the height limit.
AboveLastRow == gesture.kind = "drag" => gesture.to.y < GRID_MAX_ROWS * 4

LEMMA BoardTileFits ==
  ASSUME NEW s, NEW cols, Board(s, cols), NEW t \in Ids(s)
  PROVE  LET p == TileOf(s, t)
         IN  p \in Tile /\ p.id = t /\ Fits(p, cols) /\ p.y >= 0
<1> DEFINE p == TileOf(s, t)
<1>1. s \in Seq(Tile)
  BY DEF Board
<1>2. p \in ToSet(s) /\ p \in Tile /\ p.id = t
  BY <1>1, TileOfIs
<1> HIDE DEF p
<1>3. PICK i \in 1 .. Len(s) : s[i] = p
  BY <1>1, <1>2, ToSetIn
<1>4. i \in DOMAIN s
  BY <1>1
<1>5. Fits(p, cols) /\ p.y >= 0
  BY <1>3, <1>4 DEF Board, AllFit, Upright
<1> QED BY <1>2, <1>5 DEF p

LEMMA StartDragAims ==
  ASSUME BoardInv, NEW live \in {baseLayout}, NEW t \in Tiles, StartDrag(live, t)
  PROVE  Aimed'
<1> DEFINE start == TileOf(live, t)
           to == [x |-> start.x, y |-> start.y]
<1>1. t \in Ids(live) /\ Begin(live, "drag", t, {}, to)
  BY DEF StartDrag
<1>2. Stored /\ bp = "lg"
  BY <1>1 DEF BoardInv, Begin, canEdit
<1>3. Board(live, GRID_COLS)
  BY <1>2, LiveIsBoard
<1>4. start \in Tile /\ Fits(start, GRID_COLS) /\ start.y >= 0
  BY <1>1, <1>3, BoardTileFits
<1>5. gesture' = [kind |-> "drag", id |-> t, handle |-> {}, base |-> live, to |-> to, moves |-> 0]
  BY <1>1 DEF Begin
<1>6. gesture'.to = to /\ gesture'.base = live /\ gesture'.id = t
  BY <1>5
<1>7. to.x = start.x /\ to.y = start.y
  OBVIOUS
<1> HIDE DEF to
<1>8. TileOf(gesture'.base, gesture'.id) = start
  BY <1>6
<1> HIDE DEF start
<1>9. start.x >= 0 /\ start.x + start.w <= GRID_COLS /\ start.x \in Int /\ start.y \in Int
  BY <1>4, TileFields DEF Fits
<1> QED BY <1>4, <1>6, <1>7, <1>8, <1>9 DEF Aimed

LEMMA DragToAims ==
  ASSUME BoardInv, NEW x \in 0 .. GRID_COLS - 1, NEW y \in 0 .. MaxRow, DragTo(x, y)
  PROVE  Aimed'
<1> DEFINE cur == TileOf(gesture.base, gesture.id)
           to == [x |-> Lesser(x, GRID_COLS - cur.w), y |-> y]
<1>1. gesture.kind = "drag" /\ Aim(to)
  BY DEF DragTo
<1>2. Interacting
  BY <1>1 DEF Interacting, NoGesture
<1>3. gesture \in Gestures /\ Board(gesture.base, GRID_COLS) /\ gesture.id \in Ids(gesture.base)
  BY <1>2 DEF BoardInv, GestureFits
<1>4. cur \in Tile /\ Fits(cur, GRID_COLS)
  BY <1>3, BoardTileFits
<1>5. to.x = Lesser(x, GRID_COLS - cur.w) /\ to.y = y
  OBVIOUS
<1>6. gesture' = [gesture EXCEPT !.to = to, !.moves = @ + 1]
  BY <1>1 DEF Aim
<1> HIDE DEF to
<1>7. gesture'.to = to /\ gesture'.base = gesture.base /\ gesture'.id = gesture.id
  BY <1>3, <1>6 DEF Gestures
<1>8. TileOf(gesture'.base, gesture'.id) = cur
  BY <1>7
<1> HIDE DEF cur
<1>9. cur.w \in Int /\ GRID_COLS \in Int /\ x \in Int /\ y \in Int /\ x >= 0 /\ y >= 0
  BY <1>4, TileFields, GridAssumption, BoardAssumption
<1>10. cur.x >= 0 /\ cur.x + cur.w <= GRID_COLS /\ cur.x \in Int
  BY <1>4, TileFields DEF Fits
<1>11. to.x \in Int /\ to.x >= 0 /\ to.x + cur.w <= GRID_COLS
  BY <1>5, <1>9, <1>10 DEF Lesser
<1> QED BY <1>5, <1>7, <1>8, <1>9, <1>11 DEF Aimed

\* Every other step leaves the drag as it is or ends it.
LEMMA OthersKeepAim ==
  ASSUME Aimed, gesture' = gesture \/ gesture'.kind # "drag"
  PROVE  Aimed'
BY DEF Aimed

LEMMA OnTileAims ==
  ASSUME BoardInv, Aimed, NEW live \in {baseLayout}, NEW t \in Tiles, OnTile(live, t)
  PROVE  Aimed'
<1>1. CASE StartDrag(live, t)
  BY <1>1, StartDragAims
<1>2. CASE \E h \in Handles : StartResize(live, t, h)
  <2>1. gesture'.kind # "drag"
    BY <1>2 DEF StartResize, Begin
  <2> QED BY <2>1, OthersKeepAim
<1>3. CASE SetSize(live, t, DefaultSize[t].w, DefaultSize[t].h)
           \/ (\E d \in Steps : KeyMove(live, t, d[1], d[2]) \/ KeyResize(live, t, d[1], d[2]))
           \/ \E n \in Tiles : Duplicate(live, t, n)
  <2>1. gesture' = gesture
    BY <1>3 DEF SetSize, KeyMove, KeyResize, Duplicate, EditTile
  <2> QED BY <2>1, OthersKeepAim
<1> QED BY <1>1, <1>2, <1>3 DEF OnTile

LEMMA AimedInit == Init => Aimed
BY DEF Init, Aimed, NoGesture

LEMMA AimedStep == BoardInv /\ Aimed /\ [Next]_vars => Aimed'
<1> SUFFICES ASSUME BoardInv, Aimed, [Next]_vars PROVE Aimed'
  OBVIOUS
<1>1. CASE UNCHANGED vars
  <2>1. gesture' = gesture
    BY <1>1 DEF vars
  <2> QED BY <2>1, OthersKeepAim
<1>2. CASE WriteBack \/ ArrangeLayout \/ \E t \in Tiles : RemoveTile(t) \/ InsertBundle(t) \/ Blink(t)
  <2>1. gesture' = gesture
    BY <1>2 DEF WriteBack, ArrangeLayout, RemoveTile, InsertBundle, Blink
  <2> QED BY <2>1, OthersKeepAim
<1>3. CASE Drop \/ Cancel \/ ToggleEdit \/ \E b \in Breakpoints : SetWidth(b)
  <2>1. gesture' = gesture \/ gesture' = NoGesture
    BY <1>3 DEF Drop, Cancel, ToggleEdit, SetWidth
  <2>2. gesture' = gesture \/ gesture'.kind # "drag"
    BY <2>1 DEF NoGesture
  <2> QED BY <2>2, OthersKeepAim
<1>4. CASE \E x \in 0 .. GRID_COLS - 1, y \in 0 .. MaxRow : DragTo(x, y)
  BY <1>4, DragToAims
<1>5. CASE \E dx, dy \in -MaxDelta .. MaxDelta : ResizeTo(dx, dy)
  <2>1. PICK to : gesture.kind = "resize" /\ Aim(to)
    BY <1>5 DEF ResizeTo
  <2>2. gesture \in Gestures
    BY <2>1 DEF BoardInv, GestureFits, Interacting, NoGesture
  <2>3. gesture' = [gesture EXCEPT !.to = to, !.moves = @ + 1]
    BY <2>1 DEF Aim
  <2>4. gesture'.kind = "resize"
    BY <2>1, <2>2, <2>3 DEF Gestures
  <2> QED BY <2>4, OthersKeepAim
<1>6. CASE \E live \in {baseLayout}, t \in Tiles : OnTile(live, t)
  BY <1>6, OnTileAims
<1> QED BY <1>1, <1>2, <1>3, <1>4, <1>5, <1>6 DEF Next

\* The tile is put where it was aimed, and nothing it displaces takes it down.
LEMMA AimedMoves == BoardInv /\ Aimed /\ AboveLastRow => MovedWhereAsked
<1> SUFFICES ASSUME BoardInv, Aimed, AboveLastRow, gesture.kind = "drag"
             PROVE  LET p == TileOf(Preview, gesture.id)
                    IN  p.x = gesture.to.x /\ p.y <= gesture.to.y
  BY DEF MovedWhereAsked
<1> DEFINE base == gesture.base
           t == gesture.id
           x == gesture.to.x
           y == gesture.to.y
           cur == TileOf(base, t)
           at == [cur EXCEPT !.x = x, !.y = y]
           moved == FitItem(at, GRID_COLS)
           down == moved.y > cur.y
           r == PlaceWithPriority(base, moved, GRID_COLS, down)
<1>1. Interacting
  BY DEF Interacting, NoGesture
<1>2. Board(base, GRID_COLS) /\ t \in Ids(base)
  BY <1>1 DEF BoardInv, GestureFits
<1>3. base \in Seq(Tile) /\ Distinct(base)
  BY <1>2 DEF Board
<1>4. cur \in Tile /\ cur.id = t /\ Fits(cur, GRID_COLS)
  BY <1>2, BoardTileFits
<1>5. x \in Int /\ y \in Int /\ x >= 0 /\ x + cur.w <= GRID_COLS /\ y >= 0
  BY DEF Aimed
<1>6. y < GRID_MAX_ROWS * 4
  BY DEF AboveLastRow
<1>7. Preview = r
  BY <1>2 DEF Preview, MoveItem
<1> HIDE DEF base, t, x, y, cur
<1>8. at \in Tile /\ at.id = t /\ at.x = x /\ at.y = y /\ at.w = cur.w /\ at.h = cur.h
  BY <1>4, <1>5 DEF Tile
<1>9. Fits(at, GRID_COLS)
  BY <1>4, <1>5, <1>8 DEF Fits
<1>10. y <= GRID_MAX_ROWS * 4
  BY <1>5, <1>6, GridAssumption
<1>11. moved = at
  <2> HIDE DEF at
  <2> QED BY <1>5, <1>8, <1>9, <1>10, GridColsCount, FitItemSame
<1> HIDE DEF at, down, moved
<1>12. moved \in Tile /\ moved.id = t /\ moved.x = x /\ moved.y = y /\ Fits(moved, GRID_COLS)
  BY <1>8, <1>9, <1>11
<1>13. TileOf(r, moved.id).x = moved.x /\ TileOf(r, moved.id).y <= moved.y
  BY <1>2, <1>3, <1>5, <1>6, <1>12, GridColsCount, PriorityLifts
<1> HIDE DEF r
<1>14. TileOf(Preview, gesture.id).x = gesture.to.x /\ TileOf(Preview, gesture.id).y <= gesture.to.y
  BY <1>7, <1>12, <1>13 DEF t, x, y
<1> QED BY <1>14

\* A drag whose target is above the row the engine clamps at (1600) ends in
\* the column it was aimed at, no lower than its row (moveItem and
\* placeWithPriority, dashboardGrid.ts).
THEOREM MovedWhereAskedAbove == Spec => [](AboveLastRow => MovedWhereAsked)
<1>1. Init => BoardInv /\ Aimed
  BY BoardInvInit, AimedInit
<1>2. BoardInv /\ Aimed /\ [Next]_vars => (BoardInv /\ Aimed)'
  BY BoardInvStep, AimedStep
<1>3. BoardInv /\ Aimed => (AboveLastRow => MovedWhereAsked)
  BY AimedMoves
<1> QED BY <1>1, <1>2, <1>3, PTL DEF Spec

---------------------------------------------------------------------------
(* A board stays what it is *)

\* No tile is below the row the engine clamps at.
Reachable(s) == \A p \in ToSet(s) : p.y <= GRID_MAX_ROWS * 4
Shallow == Reachable(desktop)

LEMMA FittedStays ==
  ASSUME NEW s, NEW cols \in Colcount, Board(s, cols), Reachable(s)
  PROVE  Fitted(s, cols) = s
<1> DEFINE n == Len(s)
           r == Fitted(s, cols)
<1>1. s \in Seq(Tile) /\ n \in Nat /\ DOMAIN s = 1 .. n
  BY DEF Board
<1>2. /\ r \in Seq(Tile) /\ Len(r) = n
      /\ \A i \in 1 .. n : r[i] = FitItem(s[i], cols)
  BY <1>1, FittedFits
<1> HIDE DEF r
<1>3. ASSUME NEW i \in 1 .. n PROVE r[i] = s[i]
  <2> DEFINE p == s[i]
  <2>1. p \in Tile /\ p \in ToSet(s)
    BY <1>1, ToSetIn
  <2>2. Fits(p, cols) /\ p.y >= 0
    BY <1>1 DEF Board, AllFit, Upright
  <2>3. p.y <= GRID_MAX_ROWS * 4
    BY <2>1 DEF Reachable
  <2>4. r[i] = FitItem(p, cols)
    BY <1>2
  <2> HIDE DEF p
  <2>5. r[i] = p
    BY <2>1, <2>2, <2>3, <2>4, FitItemSame
  <2> QED BY <2>5 DEF p
<1>4. DOMAIN r = 1 .. n
  BY <1>2
<1>5. r = s
  BY <1>1, <1>2, <1>3, <1>4
<1> QED BY <1>5 DEF r

\* A tile that already rests is not taken up.
LEMMA SettledStays ==
  ASSUME NEW t, NEW cols \in Colcount, Board(t, cols), InOrder(t)
  PROVE  SettleAll(t) = t
<1> DEFINE n == Len(t)
           r == SettleAll(t)
<1>1. /\ t \in Seq(Tile) /\ Upright(t) /\ Apart(t) /\ Resting(t) /\ AllFit(t, cols)
      /\ n \in Nat /\ DOMAIN t = 1 .. n
  BY DEF Board
<1>2. Settled(r, t, n)
  BY <1>1, SettleAllSettles
<1> HIDE DEF r
<1>3. /\ r \in Seq(Tile) /\ Len(r) = n /\ DOMAIN r = 1 .. n
      /\ \A i \in 1 .. n : t[i] \in Tile /\ r[i] \in Tile /\ t[i].y >= 0 /\ Fits(t[i], cols)
  <2>1. r \in Seq(Tile) /\ Len(r) = n
    BY <1>2 DEF Settled
  <2> QED BY <1>1, <2>1 DEF Upright, AllFit
<1>4. \A i \in 1 .. n : /\ t[i].y \in Int /\ r[i].y \in Int /\ t[i].x \in Int /\ t[i].h \in Int
                        /\ t[i].h >= 1 /\ At(t[i], t[i].y) = t[i]
  <2> SUFFICES ASSUME NEW i \in 1 .. n
               PROVE  /\ t[i].y \in Int /\ r[i].y \in Int /\ t[i].x \in Int /\ t[i].h \in Int
                      /\ t[i].h >= 1 /\ At(t[i], t[i].y) = t[i]
    OBVIOUS
  <2> DEFINE p == t[i]
  <2>1. p \in Tile /\ Fits(p, cols) /\ r[i] \in Tile
    BY <1>3
  <2> HIDE DEF p
  <2>2. p.h >= 1 /\ p.y \in Int /\ p.x \in Int /\ p.h \in Int
    BY <2>1, FitsTall, TileFields
  <2>3. At(p, p.y) = p
    BY <2>1 DEF At, Tile
  <2>4. r[i].y \in Int
    BY <2>1, TileFields
  <2> QED BY <2>2, <2>3, <2>4 DEF p
<1> DEFINE S == {k \in 0 .. n : \A i \in 1 .. k : r[i] = t[i]}
<1>5. 0 \in S
  BY <1>1
<1>6. \A k \in 0 .. n - 1 : k \in S => k + 1 \in S
  <2> SUFFICES ASSUME NEW k \in 0 .. n - 1, k \in S PROVE k + 1 \in S
    OBVIOUS
  <2> DEFINE l == k + 1
  <2>1. l \in 1 .. n /\ l \in 0 .. n
        /\ \A j \in 1 .. l - 1 : j \in 1 .. k /\ j \in 1 .. n /\ r[j] = t[j]
    BY <1>1
  <2>2. \A i \in 1 .. l : i \in 1 .. k \/ i = l
    BY <1>1
  <2>3. \A i \in 1 .. k : r[i] = t[i]
    OBVIOUS
  <2> HIDE DEF l
  <2>4. \A j \in 1 .. l - 1 : ~Collides(r[j], t[l])
    BY <1>1, <2>1 DEF Apart
  <2>5. /\ r[l].y <= t[l].y /\ BelowAll(r[l].y, t[l], {r[j] : j \in 1 .. l - 1})
        /\ r[l] = At(t[l], r[l].y) /\ r[l].y >= 0
    BY <1>2, <2>1, <2>4 DEF Settled
  <2>6. r[l].y >= t[l].y
    <3>1. RestsOn(t[l], ToSet(t))
      BY <1>1, <2>1 DEF Resting
    <3>2. CASE t[l].y = 0
      BY <2>5, <3>2
    <3>3. CASE \E p \in ToSet(t) : p.id # t[l].id /\ SharesColumns(p, t[l]) /\ p.y + p.h = t[l].y
      <4>1. PICK p \in ToSet(t) : p.id # t[l].id /\ SharesColumns(p, t[l]) /\ p.y + p.h = t[l].y
        BY <3>3
      <4>2. PICK j \in 1 .. n : t[j] = p
        BY <1>1, ToSetIn
      <4>3. t[j].y < t[l].y
        <5>1. t[j].y + t[j].h = t[l].y
          BY <4>1, <4>2
        <5>2. t[j].y \in Int /\ t[j].h \in Int /\ t[j].h >= 1
          BY <1>4
        <5> QED BY <5>1, <5>2
      <4>4. j # l /\ ~(l < j)
        <5>1. l < j => t[l].y <= t[j].y
          BY <1>1, <1>4, <2>1 DEF InOrder
        <5>2. t[l].y \in Int /\ t[j].y \in Int
          BY <1>4, <2>1
        <5> QED BY <4>3, <5>1, <5>2
      <4>5. j \in 1 .. l - 1
        BY <1>1, <2>1, <4>4
      <4>6. r[j] = p
        BY <2>1, <4>2, <4>5
      <4>7. p \in {r[i] : i \in 1 .. l - 1}
        BY <4>5, <4>6
      <4>8. p.y \in Int /\ p.h \in Int
        BY <1>4, <4>2
      <4>9. p.y + p.h <= t[l].y
        BY <1>4, <2>1, <4>1, <4>8
      <4>10. p.y + p.h <= r[l].y
        BY <2>5, <4>1, <4>7, <4>9 DEF BelowAll
      <4> QED BY <4>1, <4>10
    <3> QED BY <3>1, <3>2, <3>3 DEF RestsOn
  <2>7. r[l].y = t[l].y
    BY <1>4, <2>1, <2>5, <2>6
  <2>8. r[l] = t[l]
    BY <1>4, <2>1, <2>5, <2>7
  <2>9. \A i \in 1 .. l : r[i] = t[i]
    BY <2>2, <2>3, <2>8
  <2> QED BY <2>1, <2>9 DEF l
<1>7. 0 .. n \subseteq S
  <2> HIDE DEF S
  <2> QED BY <1>1, <1>5, <1>6, InductionUpTo
<1>8. \A i \in 1 .. n : r[i] = t[i]
  BY <1>1, <1>7
<1>9. r = t
  BY <1>1, <1>3, <1>8
<1> QED BY <1>9 DEF r

\* Compacting a board that is one changes nothing.
LEMMA CompactStays ==
  ASSUME NEW s, NEW cols \in Colcount, Board(s, cols), Reachable(s)
  PROVE  Compact(s, cols) = s
<1> DEFINE n == Len(s)
           t == SortItems(s)
           r == RestoreOrder(s, t)
<1>1. s \in Seq(Tile) /\ Distinct(s) /\ n \in Nat /\ DOMAIN s = 1 .. n
  BY DEF Board
<1>2. /\ t \in Seq(Tile) /\ ToSet(t) = ToSet(s) /\ Ids(t) = Ids(s) /\ Distinct(t) /\ InOrder(t)
  <2>1. PICK p : Permutes(p, Len(s)) /\ t = Permuted(s, p)
    BY <1>1, SortItemsPermutes
  <2>2. InOrder(t)
    BY <1>1, SortItemsPermutes
  <2> QED BY <1>1, <2>1, <2>2, PermutedKeeps
<1>3. Fitted(s, cols) = s
  BY FittedStays
<1>4. Compact(s, cols) = RestoreOrder(s, SettleAll(SortItems(SettleAll(t))))
  BY <1>3 DEF Compact
<1> HIDE DEF t
<1>5. Board(t, cols)
  BY <1>2, BoardInAnyOrder
<1>6. SettleAll(t) = t
  BY <1>2, <1>5, SettledStays
<1>7. SortItems(t) = t
  BY <1>2, SortedStays
<1>8. Compact(s, cols) = r
  BY <1>4, <1>6, <1>7
<1>9. /\ r \in Seq(Tile) /\ Len(r) = n
      /\ \A i \in 1 .. n : s[i].id \in Ids(t) => r[i] \in ToSet(t) /\ r[i] = TileOf(t, s[i].id)
  BY <1>1, <1>2, RestoreOrderKeeps DEF SameIds
<1> HIDE DEF r
<1>10. ASSUME NEW i \in 1 .. n PROVE r[i] = s[i]
  <2>1. s[i] \in ToSet(t) /\ s[i].id \in Ids(t)
    BY <1>1, <1>2, ToSetIn, IdsOf
  <2>2. s[i] = TileOf(t, s[i].id)
    BY <1>2, <2>1, TileOfIs
  <2> QED BY <1>9, <2>1, <2>2
<1>11. r = s
  BY <1>1, <1>9, <1>10
<1> QED BY <1>8, <1>11

---------------------------------------------------------------------------
(* What is stored is what is shown *)

\* A filter that drops nothing.
LEMMA AllPicked ==
  ASSUME NEW E, NEW s \in Seq(E), NEW S
  PROVE  ToSet(s) \subseteq S => Picked(s, S) = s
<1>2. PICK f \in [0 .. Len(s) -> Seq(E)] :
        /\ Picked(s, S) = f[Len(s)] /\ f[0] = <<>>
        /\ \A k \in 1 .. Len(s) : f[k] = IF s[k] \in S THEN Append(f[k - 1], s[k]) ELSE f[k - 1]
  BY PickedFold
<1> SUFFICES ASSUME ToSet(s) \subseteq S PROVE Picked(s, S) = s
  OBVIOUS
<1> DEFINE n == Len(s)
<1>1. n \in Nat /\ DOMAIN s = 1 .. n /\ \A i \in 1 .. n : s[i] \in S /\ s[i] \in E
  BY ToSetIn
<1> DEFINE T == {k \in 0 .. n : Len(f[k]) = k /\ \A i \in 1 .. k : f[k][i] = s[i]}
<1>3. 0 \in T
  BY <1>1, <1>2
<1>4. \A k \in 0 .. n - 1 : k \in T => k + 1 \in T
  <2> SUFFICES ASSUME NEW k \in 0 .. n - 1, k \in T PROVE k + 1 \in T
    OBVIOUS
  <2>1. k + 1 \in 1 .. n /\ (k + 1) - 1 = k /\ k + 1 \in 0 .. n /\ k \in Nat
    BY <1>1
  <2>2. f[k + 1] = Append(f[k], s[k + 1]) /\ f[k] \in Seq(E) /\ s[k + 1] \in E
    BY <1>1, <1>2, <2>1
  <2>3. Len(f[k]) = k /\ \A i \in 1 .. k : f[k][i] = s[i]
    OBVIOUS
  <2>4. \A i \in 1 .. k + 1 : i \in 1 .. k \/ i = k + 1
    BY <2>1
  <2> DEFINE a == f[k]
  <2>5. a \in Seq(E) /\ Len(a) = k
    BY <2>2, <2>3
  <2> HIDE DEF a
  <2>6. /\ Len(Append(a, s[k + 1])) = k + 1 /\ Append(a, s[k + 1])[k + 1] = s[k + 1]
        /\ \A i \in 1 .. k : Append(a, s[k + 1])[i] = a[i]
    BY <2>1, <2>2, <2>5
  <2>7. \A i \in 1 .. k + 1 : Append(a, s[k + 1])[i] = s[i]
    BY <2>3, <2>4, <2>6 DEF a
  <2> QED BY <2>1, <2>2, <2>6, <2>7 DEF a
<1>5. 0 .. n \subseteq T
  <2> HIDE DEF T
  <2> QED BY <1>1, <1>3, <1>4, InductionUpTo
<1>6. n \in T
  <2> HIDE DEF T
  <2> QED BY <1>1, <1>5
<1>7. f[n] \in Seq(E) /\ Len(f[n]) = n /\ \A i \in 1 .. n : f[n][i] = s[i]
  BY <1>1, <1>2, <1>6
<1> DEFINE r == f[n]
<1>8. r \in Seq(E) /\ DOMAIN r = 1 .. n /\ \A i \in 1 .. n : r[i] = s[i]
  BY <1>7
<1> HIDE DEF r
<1>9. r = s
  BY <1>1, <1>8
<1> QED BY <1>2, <1>9 DEF r

LEMMA NoneInserted ==
  ASSUME NEW base \in Seq(Tile), NEW sizes, NEW cols
  PROVE  AllInserted(base, <<>>, sizes, cols) = base
<1> DEFINE s == <<>>
<1>1. s \in Seq(TileIds) /\ Len(s) = 0 /\ \A k \in 1 .. Len(s) : FALSE
  OBVIOUS
<1> HIDE DEF s
<1>2. Insertions(base, s, sizes, cols)
  BY <1>1, InsertedFold
<1>3. AllInserted(base, s, sizes, cols) = base
  BY <1>1, <1>2 DEF Insertions
<1> QED BY <1>3 DEF s

\* The tiles `d`, fetched by their names from a list that holds them.
LEMMA FetchedIs ==
  ASSUME NEW s \in Seq(Tile), Distinct(s), NEW ks \in Seq(TileIds), NEW d \in Seq(Tile),
         Named(d, ks), ToSet(d) \subseteq ToSet(s)
  PROVE  Fetched(ks, s) = d
<1> DEFINE n == Len(ks)
           r == Fetched(ks, s)
<1>1. /\ n \in Nat /\ DOMAIN ks = 1 .. n /\ Len(d) = n /\ DOMAIN d = 1 .. n
      /\ \A i \in 1 .. n : d[i].id = ks[i] /\ d[i] \in ToSet(s)
  BY ToSetIn DEF Named
<1>2. ToSet(ks) \subseteq Ids(s)
  BY <1>1, IdsOf DEF ToSet
<1>3. r \in Seq(Tile) /\ Len(r) = n /\ \A i \in 1 .. n : r[i].id = ks[i] /\ r[i] \in ToSet(s)
  BY <1>2, FetchedKeeps DEF Named
<1> HIDE DEF r
<1>4. ASSUME NEW i \in 1 .. n PROVE r[i] = d[i]
  BY <1>1, <1>3, DistinctBySet
<1>5. r = d
  BY <1>1, <1>3, <1>4
<1> QED BY <1>5 DEF r

\* A board reconciled with its own tiles stays what it is.
LEMMA ReconcileStays ==
  ASSUME NEW stored \in Seq(Tile), Distinct(stored), NEW ks \in Seq(TileIds), NEW d,
         NEW cols \in Colcount, Board(d, cols), Reachable(d), Named(d, ks),
         ToSet(d) \subseteq ToSet(stored), NEW sizes
  PROVE  Reconcile(stored, ks, sizes, cols) = d
<1> DEFINE known   == Picked(ks, Ids(stored))
           missing == Picked(ks, ToSet(ks) \ Ids(stored))
           first   == Fetched(known, stored)
           base    == Compact(first, cols)
           all     == AllInserted(base, missing, sizes, cols)
           layout  == Compact(all, cols)
<1>1. d \in Seq(Tile) /\ Distinct(d)
  BY DEF Board
<1>2. Ids(d) = ToSet(ks) /\ Ids(d) \subseteq Ids(stored)
  <2>1. Ids(d) = ToSet(ks)
    BY <1>1, NamedKeeps
  <2> QED BY <1>1, <2>1, IdsOf
<1>3. known = ks
  BY <1>2, AllPicked
<1>4. missing = <<>>
  <2>1. missing \in Seq(TileIds) /\ ToSet(missing) = ToSet(ks) \cap (ToSet(ks) \ Ids(stored))
    BY PickedKeeps
  <2> HIDE DEF missing
  <2>2. ToSet(missing) = {}
    BY <1>2, <2>1
  <2>3. Len(missing) \in Nat /\ ~(1 \in 1 .. Len(missing))
    BY <2>1, <2>2, ToSetIn
  <2> QED BY <2>1, <2>3
<1> HIDE DEF known, missing
<1>5. first = d
  BY <1>1, <1>3, FetchedIs
<1> HIDE DEF first
<1>6. base = d
  BY <1>5, CompactStays
<1> HIDE DEF base
<1>7. all = d
  BY <1>1, <1>4, <1>6, NoneInserted
<1> HIDE DEF all
<1>8. layout = d
  BY <1>7, CompactStays
<1> HIDE DEF layout
<1>9. Reconcile(stored, ks, sizes, cols) = Fetched(ks, layout)
  BY DEF Reconcile, Fetched, layout, all, base, first, known, missing
<1>10. Fetched(ks, d) = d
  BY <1>1, FetchedIs
<1> QED BY <1>8, <1>9, <1>10

LEMMA WriteBackStores ==
  ASSUME BoardInv, Shallow, WriteBack, grid' # grid
  PROVE  ~Differs(DesktopOf(keys, grid'), grid')
<1> DEFINE S == {g \in ToSet(grid) : g.id \notin Ids(desktop)}
           rest == Picked(grid, S)
<1>1. Stored /\ BoardInv'
  BY WriteBackKeeps DEF BoardInv
<1>2. grid' = desktop \o rest
  BY DEF WriteBack
<1>3. Board(desktop, GRID_COLS) /\ Named(desktop, keys) /\ Ids(desktop) = ToSet(keys)
  BY <1>1, DesktopIsBoard
<1>4. rest \in Seq(Tile) /\ Distinct(rest) /\ ToSet(rest) = ToSet(grid) \cap S
  <2> HIDE DEF S
  <2> QED BY <1>1, PickedTiles DEF Stored
<1> HIDE DEF rest
<1>5. desktop \in Seq(Tile) /\ Distinct(desktop)
  BY <1>3 DEF Board
<1>6. Ids(desktop) \cap Ids(rest) = {}
  <2>1. Ids(rest) = {p.id : p \in ToSet(rest)}
    BY <1>4, IdsOf
  <2> QED BY <1>4, <2>1
<1>7. grid' \in Seq(Tile) /\ Distinct(grid') /\ ToSet(desktop) \subseteq ToSet(grid')
  BY <1>2, <1>4, <1>5, <1>6, Joined
<1>8. keys \in Seq(TileIds)
  BY <1>1, KeysAre
<1>9. Reconcile(grid', keys, DefaultSize, GRID_COLS) = desktop
  <2>1. Reachable(desktop)
    BY DEF Shallow
  <2> QED BY <1>3, <1>7, <1>8, <2>1, GridColsCount, ReconcileStays
<1>10. DesktopOf(keys, grid') = desktop
  BY <1>9 DEF DesktopOf
<1> QED BY <1>7, <1>10 DEF Differs

\* While no tile shown is below the row the engine clamps at, the effect that
\* stores the normalised layout finds nothing to store a second time
\* (GridBoard.tsx, the write-back effect; reconcileLayout).
THEOREM ShallowSettles == Spec /\ []Shallow => WriteBackSettles
<1>1. BoardInv /\ Shallow /\ [Next]_vars
        => [WriteBack /\ grid' # grid => ~Differs(DesktopOf(keys, grid'), grid')]_vars
  BY WriteBackStores
<1> QED BY <1>1, BoardKept, PTL DEF Spec, WriteBackSettles

=============================================================================

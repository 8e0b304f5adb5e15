---------------------------- MODULE DesignerTree ----------------------------
(***************************************************************************)
(* The document of the subscription page designer and its mutations: the   *)
(* queries, moves, wraps and the repair of lib/subLayout/tree.ts.  A       *)
(* document is a function from the ids of its nodes to nodes; nothing makes*)
(* sure that it is a tree, but a subtree without cycles.  An operation     *)
(* returns the document and whether it is a new object: an operation that  *)
(* has nothing to do returns the very document it was given.  Styles,      *)
(* props and texts are one number; a row shares its width by itself.       *)
(***************************************************************************)
EXTENDS Integers, Sequences, FiniteSets, SequencesExt

CONSTANTS
  Ids,        \* node ids, a set of numbers
  Root        \* the page frame

ASSUME RootAssumption == Root \in Ids

Kinds == {"frame", "leaf"}              \* isContainerType: frames and the others
Flows == {"column", "row", "free"}      \* style.mode and style.dir of a frame

Node(kind, flow, kids) == [kind |-> kind, flow |-> flow, kids |-> kids, look |-> 0]

Same(d) == [doc |-> d, new |-> FALSE]
New(d)  == [doc |-> d, new |-> TRUE]

Clip(lo, n, hi) == IF n < lo THEN lo ELSE IF n > hi THEN hi ELSE n

\* children.splice(at, 0, ...more), `at` counted from 0.
Splice(s, at, more) == SubSeq(s, 1, at) \o more \o SubSeq(s, at + 1, Len(s))
Without(s, S) == SelectSeq(s, LAMBDA e : e \notin S)
IndexIn(s, e) == SelectInSeq(s, LAMBDA x : x = e) - 1

SetKids(d, p, kids) == [d EXCEPT ![p].kids = kids]
Keep(d, S) == [i \in DOMAIN d \cap S |-> d[i]]
Union2(d, e) == [i \in DOMAIN d \cup DOMAIN e |-> IF i \in DOMAIN e THEN e[i] ELSE d[i]]

---------------------------------------------------------------------------
(* Queries *)

Accepts(d, p) == p \in DOMAIN d /\ d[p].kind = "frame"
ParentsOf(d, i) == {p \in DOMAIN d : i \in ToSet(d[p].kids)}
HasParent(d, i) == ParentsOf(d, i) # {}
\* The first one found; which of several does not matter to any property.
ParentOf(d, i) == CHOOSE p \in ParentsOf(d, i) : TRUE

SubtreeIds(d, i) ==
  LET reach[n \in Nat] ==
        IF n = 0 THEN {i}
        ELSE LET r == reach[n - 1]
             IN  r \cup UNION {ToSet(d[j].kids) : j \in r \cap DOMAIN d}
  IN  reach[Cardinality(DOMAIN d)]

---------------------------------------------------------------------------
(* Mutations *)

Extract(d, i) == [root |-> i, nodes |-> Keep(d, SubtreeIds(d, i))]

\* reidSubtree: fresh ids, the smallest ones nobody uses.
Rename(S, used) ==
  LET free        == Ids \ used
      rank(i, T)  == Cardinality({j \in T : j < i})
  IN  [i \in S |-> CHOOSE j \in free : rank(j, free) = rank(i, S)]

Enough(S, used) == Cardinality(S) <= Cardinality(Ids \ used)

ReId(sub, used) ==
  LET m == Rename(DOMAIN sub.nodes, used)
      back(i) == CHOOSE j \in DOMAIN sub.nodes : m[j] = i
  IN  [root  |-> m[sub.root],
       nodes |-> [i \in {m[j] : j \in DOMAIN sub.nodes} |->
                    [sub.nodes[back(i)] EXCEPT
                       !.kids = [k \in DOMAIN @ |-> IF @[k] \in DOMAIN m THEN m[@[k]] ELSE @[k]]]]]

InsertSubtree(d, p, index, sub) ==
  IF ~Accepts(d, p) THEN Same(d)
  ELSE LET at == Clip(0, index, Len(d[p].kids)) IN
       New(SetKids(Union2(d, sub.nodes), p, Splice(d[p].kids, at, << sub.root >>)))

\* Fault: the children of a removed node stay.
RemoveOne(d, i) ==
  IF i = Root THEN Same(d)
  ELSE LET d2 == IF HasParent(d, i)
                 THEN SetKids(d, ParentOf(d, i), Without(d[ParentOf(d, i)].kids, {i})) ELSE d
       IN  New(Keep(d2, Ids \ {i}))

RemoveNode(d, i) ==
  IF i = Root THEN Same(d)
  ELSE LET d2 == IF HasParent(d, i)
                 THEN SetKids(d, ParentOf(d, i), Without(d[ParentOf(d, i)].kids, {i})) ELSE d
       IN  New(Keep(d2, Ids \ SubtreeIds(d, i)))

CanMove(d, i, p) ==
  /\ i # Root /\ i # p /\ Accepts(d, p)
  /\ p \notin SubtreeIds(d, i)
  /\ HasParent(d, i)

\* Fault: the index is not corrected for the place the node leaves.
MoveNodeLate(d, i, p, index) ==
  IF ~CanMove(d, i, p) THEN Same(d)
  ELSE LET from == ParentOf(d, i)
           d2   == SetKids(d, from, Without(d[from].kids, {i}))
           list == d2[p].kids
       IN  New(SetKids(d2, p, Splice(list, Clip(0, index, Len(list)), << i >>)))

\* `index` counts the target's children as they are before the move.
MoveNode(d, i, p, index) ==
  IF ~CanMove(d, i, p) THEN Same(d)
  ELSE LET from == ParentOf(d, i)
           old  == IndexIn(d[from].kids, i)
           d2   == SetKids(d, from, Without(d[from].kids, {i}))
           list == Without(d2[p].kids, {i})
           at   == IF from = p /\ old < index THEN index - 1 ELSE index
       IN  New(SetKids(d2, p, Splice(list, Clip(0, at, Len(list)), << i >>)))

DuplicateNode(d, i, used) ==
  LET p   == ParentOf(d, i)
      sub == ReId(Extract(d, i), used)
  IN  [doc |-> InsertSubtree(d, p, IndexIn(d[p].kids, i) + 1, sub).doc, id |-> sub.root]

\* wrapInFrame and wrapInRow: siblings, in document order, in a new frame.
CanWrap(d, S) ==
  /\ S # {} /\ S \subseteq DOMAIN d \ {Root}
  /\ \E p \in DOMAIN d : \A i \in S : HasParent(d, i) /\ ParentOf(d, i) = p

Wrap(d, S, flow, frame) ==
  LET p     == ParentOf(d, CHOOSE i \in S : TRUE)
      kids  == d[p].kids
      order == SelectSeq(kids, LAMBDA c : c \in S)
      at    == IndexIn(kids, order[1])
  IN  SetKids(Union2(d, [i \in {frame} |-> Node("frame", flow, order)]),
              p, Splice(Without(kids, S), at, << frame >>))

CanUnwrap(d, i) == i \in DOMAIN d /\ d[i].kind = "frame" /\ HasParent(d, i)

Unwrap(d, i) ==
  IF ~CanUnwrap(d, i) THEN Same(d)
  ELSE LET p    == ParentOf(d, i)
           kids == d[p].kids
           at   == IndexIn(kids, i)
       IN  New(Keep(SetKids(d, p, Splice(RemoveAt(kids, at + 1), at, d[i].kids)), Ids \ {i}))

ShiftNode(d, i, delta) ==
  IF ~HasParent(d, i) THEN Same(d)
  ELSE LET p    == ParentOf(d, i)
           list == d[p].kids
           at   == IndexIn(list, i)
           to   == Clip(0, at + delta, Len(list) - 1)
       IN  IF at = to THEN Same(d) ELSE MoveNode(d, i, p, IF to > at THEN to + 1 ELSE to)

\* placeBeside: in the target's row, or in a new row that takes its place.
PlaceIn(d, given, target, side, moved, row) ==
  IF ~HasParent(d, target) THEN Same(given)
  ELSE LET p    == ParentOf(d, target)
           kids == d[p].kids
           ti   == IndexIn(kids, target)
           pair == IF side = "left" THEN << moved, target >> ELSE << target, moved >>
       IN  CASE d[p].flow = "row"  -> New(SetKids(d, p, Splice(kids, IF side = "left" THEN ti ELSE ti + 1, << moved >>)))
             [] d[p].flow = "free" -> Same(given)
             [] OTHER -> New(SetKids(Union2(d, [i \in {row} |-> Node("frame", "row", pair)]),
                                     p, [kids EXCEPT ![ti + 1] = row]))

PlaceBeside(d, target, moved, side, row) ==
  IF \/ Root \in {target, moved} \/ moved = target \/ target \notin DOMAIN d
     \/ moved \notin DOMAIN d \/ target \in SubtreeIds(d, moved) \/ ~HasParent(d, moved)
  THEN Same(d)
  ELSE LET from == ParentOf(d, moved) IN
       PlaceIn(SetKids(d, from, Without(d[from].kids, {moved})), d, target, side, moved, row)

PlaceBesideSubtree(d, target, sub, side, row) ==
  IF target = Root \/ target \notin DOMAIN d THEN Same(d)
  ELSE PlaceIn(Union2(d, sub.nodes), d, target, side, sub.root, row)

UpdateNode(d, i, look) ==
  IF i \notin DOMAIN d THEN Same(d) ELSE New([d EXCEPT ![i].look = look])

---------------------------------------------------------------------------
(* normalizeDoc: what becomes of a document that is loaded again *)

\* Visits a node: dangling and repeated children are dropped.
RECURSIVE Visit(_, _, _)
Visit(raw, i, done) ==
  IF i \in DOMAIN done \/ i \notin DOMAIN raw THEN done
  ELSE LET started == Union2(done, [j \in {i} |-> [raw[i] EXCEPT !.kids = << >>]])
           step(acc, c) ==
             IF c \in DOMAIN acc \/ c \notin DOMAIN raw THEN acc
             ELSE LET below == Visit(raw, c, acc) IN [below EXCEPT ![i].kids = Append(@, c)]
       IN  IF raw[i].kind = "frame" THEN FoldLeft(step, started, raw[i].kids) ELSE started

NoNodes == [i \in {} |-> Node("leaf", "column", << >>)]
Normalize(raw) == Visit(raw, Root, NoNodes)

\* A subtree that is a tree of its own nodes: validSubtree does not ask for it.
WellFormed(sub) == Visit(sub.nodes, sub.root, NoNodes) = sub.nodes

\* The leaves in the order in which they are drawn.
RECURSIVE LeavesFrom(_, _)
LeavesFrom(d, i) ==
  IF d[i].kind = "leaf" THEN << i >>
  ELSE FoldLeft(LAMBDA acc, c : acc \o LeavesFrom(d, c), << >>, d[i].kids)
Leaves(d) == LeavesFrom(d, Root)
=============================================================================

----------------------------- MODULE DesignerDoc -----------------------------
(***************************************************************************)
(* The subscription page designer: the operations of SubDesigner.tsx, the  *)
(* drags of Canvas.tsx and Layers.tsx on the document tree, each committed *)
(* to the undo history.  A drag holds what it saw at pointerdown until the *)
(* pointer is released; the keyboard works meanwhile.                      *)
(***************************************************************************)
EXTENDS DesignerHistory, DesignerTree

CONSTANTS
  FirstDoc,       \* the document the designer opens with
  Parts,          \* what the palette and the library insert: subtrees
  Imports,        \* what the JSON window and templates bring: raw documents
  NoDrag,
  MaxEdits, MaxPicks      \* bounds

VARIABLES
  clip,       \* clip.current: copied subtrees
  drag,       \* the drag that is going on
  saving,     \* the documents that are on their way to the panel
  stored,     \* the document the panel has
  edits,      \* edits so far, bounded by MaxEdits
  picks,      \* clicks, grabs and saves so far, bounded by MaxPicks
  foreign     \* history: an element that is not a tree has been inserted

saveVars == << saving, stored >>
vars == << historyVars, saveVars, clip, drag, edits, picks, foreign >>

Held == IF drag = NoDrag THEN {} ELSE IF drag.from = "canvas" THEN ToSet(drag.ids) ELSE {drag.id}

\* Ids somebody still refers to: nid() never makes one of them.
Used ==
  UNION ({DOMAIN doc, ToSet(sel), Held}
         \cup {DOMAIN past[k].doc : k \in DOMAIN past}
         \cup {DOMAIN future[k].doc : k \in DOMAIN future}
         \cup (IF drag # NoDrag /\ drag.from = "layers" THEN {DOMAIN drag.base} ELSE {}))
Unused == Ids \ Used
NextId == CHOOSE i \in Unused : \A j \in Unused : i <= j

---------------------------------------------------------------------------
Init ==
  /\ HistoryInit(FirstDoc)
  /\ clip = << >> /\ drag = NoDrag
  /\ saving = << >> /\ stored = FirstDoc /\ edits = 0 /\ picks = 0 /\ foreign = FALSE

\* What the canvas and the layers show, and the pointer reaches.
Shown == SubtreeIds(doc, Root) \cap DOMAIN doc

\* commit: what an operation made of the document.
Made(r, s, key) ==
  /\ edits < MaxEdits /\ edits' = edits + 1 /\ UNCHANGED << saveVars, picks >>
  /\ IF r.new THEN Commit(r.doc, s, key) ELSE CommitSame(s)
Do(r, s, key) == Made(r, s, key) /\ UNCHANGED foreign

\* An operation that brings in a part, as it is.
Insert(part, r, s) == Made(r, s, NoKey) /\ foreign' = (foreign \/ ~WellFormed(part))

\* What the pointer reaches is Shown; it is free between two drags.
Click(i) ==
  /\ drag = NoDrag
  /\ picks < MaxPicks /\ picks' = picks + 1
  /\ Select(<< i >>) /\ UNCHANGED << saveVars, clip, drag, edits, foreign >>

ShiftClick(i) ==
  /\ drag = NoDrag
  /\ Select(IF i \in ToSet(sel) THEN Without(sel, {i}) ELSE Append(sel, i))
  /\ picks < MaxPicks /\ picks' = picks + 1
  /\ UNCHANGED << saveVars, clip, drag, edits, foreign >>

\* Where addSub and paste put things: in the selected frame or behind the
\* selected node, else at the end of the page.
Place ==
  LET s == IF sel = << >> THEN Root ELSE sel[1]
      end(p) == [parent |-> p, index |-> Len(doc[p].kids)]
  IN  CASE s \notin DOMAIN doc         -> end(Root)
        [] Accepts(doc, s)             -> end(s)
        [] ~HasParent(doc, s)          -> end(Root)
        [] OTHER -> [parent |-> ParentOf(doc, s), index |-> IndexIn(doc[ParentOf(doc, s)].kids, s) + 1]

AddSub(part) ==
  /\ drag = NoDrag /\ Enough(DOMAIN part.nodes, Used)
  /\ LET sub == ReId(part, Used) IN
     Insert(part, InsertSubtree(doc, Place.parent, Place.index, sub), << sub.root >>)
  /\ UNCHANGED << clip, drag >>

\* `remove`, `duplicate` and `paste` work through a list, one document after another.
Then(r, op(_)) == LET n == op(r.doc) IN [doc |-> n.doc, new |-> r.new \/ n.new]

RemoveSelected ==
  /\ sel # << >>
  /\ LET one(r, i) == IF i # Root /\ i \in DOMAIN r.doc THEN Then(r, LAMBDA d : RemoveNode(d, i)) ELSE r
     IN  Do(FoldLeft(one, Same(doc), sel), << >>, NoKey)
  /\ UNCHANGED << clip, drag >>

\* A node with a child that is not there cannot be copied: the operation throws.
Copied(i) == SubtreeIds(doc, i) \subseteq DOMAIN doc

Duplicate ==
  /\ sel # << >> /\ \A i \in ToSet(sel) : HasParent(doc, i) => Copied(i)
  /\ LET one(a, i) ==
           IF ~HasParent(a.doc, i) THEN a
           ELSE LET r == DuplicateNode(a.doc, i, Used \cup DOMAIN a.doc) IN
                [doc |-> r.doc, out |-> Append(a.out, r.id)]
         room == {j \in DOMAIN doc : \E k \in DOMAIN sel : j \in SubtreeIds(doc, sel[k])}
     IN  /\ Cardinality(Unused) >= 3 * Cardinality(room)
         /\ LET all == FoldLeft(one, [doc |-> doc, out |-> << >>], sel)
            IN  all.out # << >> /\ Do(New(all.doc), all.out, NoKey)
  /\ UNCHANGED << clip, drag >>

Group(flow) ==
  LET S == IF flow = "row" THEN (ToSet(sel) \cap DOMAIN doc) \ {Root} ELSE ToSet(sel) IN
  /\ CanWrap(doc, S) /\ Unused # {}
  /\ Do(New(Wrap(doc, S, flow, NextId)), << NextId >>, NoKey)
  /\ UNCHANGED << clip, drag >>

Ungroup ==
  /\ sel # << >>
  /\ Do(Unwrap(doc, sel[1]), << >>, NoKey)
  /\ UNCHANGED << clip, drag >>

\* Bound: one copy.
Copy ==
  /\ sel # << >> /\ \A i \in ToSet(sel) \ {Root} : Copied(i)
  /\ clip' = [k \in DOMAIN Without(sel, {Root}) |-> Extract(doc, Without(sel, {Root})[k])]
  /\ clip = << >> /\ clip' # clip
  /\ UNCHANGED << historyVars, saveVars, drag, edits, picks, foreign >>

Paste ==
  /\ clip # << >>
  /\ LET one(a, sub) ==
           LET s == ReId(sub, Used \cup DOMAIN a.doc) IN
           [doc |-> InsertSubtree(a.doc, Place.parent, Place.index + Len(a.out), s).doc,
            out |-> Append(a.out, s.root)]
     IN  /\ Cardinality(Unused) >= FoldLeft(LAMBDA n, s : n + Cardinality(DOMAIN s.nodes), 0, clip)
         /\ LET all == FoldLeft(one, [doc |-> doc, out |-> << >>], clip) IN Do(New(all.doc), all.out, NoKey)
  /\ UNCHANGED << clip, drag >>

Shift(i, delta) ==
  /\ drag = NoDrag /\ i # Root
  /\ Do(ShiftNode(doc, i, delta), sel, NoKey)
  /\ UNCHANGED << clip, drag >>

\* The inspector, the text editor, a resize and the arrow keys: bursts by key.
Restyle(i) ==
  /\ Do(UpdateNode(doc, i, 1 - doc[i].look), sel, << "look", i >>)
  /\ UNCHANGED << clip, drag >>

\* The JSON window and a template: another document, repaired.
Import(raw) ==
  /\ drag = NoDrag /\ Root \in DOMAIN raw /\ raw[Root].kind = "frame"
  /\ Do(New(Normalize(raw)), << >>, NoKey)
  /\ UNCHANGED << clip, drag >>

---------------------------------------------------------------------------
(* Drags *)

\* beginMove of the canvas.
Grab(i) ==
  /\ drag = NoDrag /\ i # Root
  /\ drag' = [from |-> "canvas", id |-> i, free |-> doc[ParentOf(doc, i)].flow = "free",
              ids |-> IF i \in ToSet(sel) THEN Without(sel, {Root}) ELSE << i >>]
  /\ IF i \in ToSet(sel) THEN UNCHANGED historyVars ELSE Select(<< i >>)
  /\ picks < MaxPicks /\ picks' = picks + 1 /\ UNCHANGED << saveVars, edits, foreign >>
  /\ UNCHANGED clip

\* A node of a free frame follows the pointer, in one burst.
FollowPointer ==
  /\ drag # NoDrag /\ drag.from = "canvas" /\ drag.free
  /\ LET look == IF drag.id \in DOMAIN doc THEN 1 - doc[drag.id].look ELSE 0
     IN  Do(UpdateNode(doc, drag.id, look), drag.ids, << "move", drag.id >>)
  /\ UNCHANGED << clip, drag >>

Excluded(ids) == UNION {SubtreeIds(doc, ids[k]) : k \in DOMAIN ids}

\* computeDrop: beside a node of a stack, or in a frame before one of its
\* children or at its end; never in what is dragged.
SideTargets(ids) ==
  {i \in Shown \ Excluded(ids) : HasParent(doc, i) /\ doc[ParentOf(doc, i)].flow # "free"}
IndexTargets(ids) ==
  {p \in Shown \ Excluded(ids) : doc[p].kind = "frame"}

\* applyDrop of moved nodes.
DropBeside(target, side) ==
  /\ drag # NoDrag /\ drag.from = "canvas" /\ Len(drag.ids) = 1 /\ drag.id \in DOMAIN doc
  /\ Unused # {}
  /\ LET r == PlaceBeside(doc, target, drag.ids[1], side, NextId) IN r.new /\ Do(r, drag.ids, NoKey)
  /\ drag' = NoDrag /\ UNCHANGED clip

\* In a free frame a node comes last and takes the place of the pointer.
Befores(p, ids) ==
  {0} \cup (IF doc[p].flow = "free" THEN {} ELSE (ToSet(doc[p].kids) \cap Shown) \ Excluded(ids))
IndexFor(d, p, before) == IF before = 0 THEN Len(d[p].kids) ELSE IndexIn(d[p].kids, before)
Placed(r, i, p) == IF doc[p].flow = "free" THEN Then(r, LAMBDA d : UpdateNode(d, i, 1)) ELSE r

DropIn(p, before) ==
  /\ drag # NoDrag /\ drag.from = "canvas" /\ drag.id \in DOMAIN doc
  /\ LET one(r, i) == Placed(Then(r, LAMBDA d : MoveNode(d, i, p, IndexFor(d, p, before))), i, p)
     IN  Do(FoldLeft(one, Same(doc), drag.ids), drag.ids, NoKey)
  /\ drag' = NoDrag /\ UNCHANGED clip

\* applyDrop of a part dragged from the palette.
DropNewIn(part, p, before) ==
  /\ drag = NoDrag /\ Enough(DOMAIN part.nodes, Used)
  /\ LET sub == ReId(part, Used)
     IN  Insert(part, Placed(InsertSubtree(doc, p, IndexFor(doc, p, before), sub), sub.root, p), << sub.root >>)
  /\ UNCHANGED << clip, drag >>

DropNew(part, target, side) ==
  /\ drag = NoDrag /\ Cardinality(Unused) > Cardinality(DOMAIN part.nodes)
  /\ LET sub == ReId(part, Used)
         row == CHOOSE i \in Unused \ DOMAIN sub.nodes : TRUE
         r   == PlaceBesideSubtree(doc, target, sub, side, row)
     IN  r.new /\ Insert(part, r, << sub.root >>)
  /\ UNCHANGED << clip, drag >>

\* Layers: the row that is dragged, and the document of the render in which
\* it was grabbed.
GrabLayer(i) ==
  /\ drag = NoDrag /\ i # Root
  /\ drag' = [from |-> "layers", id |-> i, base |-> doc]
  /\ picks < MaxPicks /\ picks' = picks + 1 /\ UNCHANGED << saveVars, edits, foreign >>
  /\ UNCHANGED << historyVars, clip >>

\* The rows under the pointer are of the current document, the move is of
\* the one that was grabbed.
DropLayer(over, at) ==
  /\ drag # NoDrag /\ drag.from = "layers"
  /\ over \in DOMAIN drag.base /\ over # drag.id
  /\ LET d    == drag.base
         kids == IF HasParent(d, over) THEN d[ParentOf(d, over)].kids ELSE << >>
         r    == CASE at = "inside" -> MoveNode(d, drag.id, over, Len(d[over].kids))
                   [] ~HasParent(d, over) -> Same(d)
                   [] at = "before" -> MoveNode(d, drag.id, ParentOf(d, over), IndexIn(kids, over))
                   [] OTHER -> MoveNode(d, drag.id, ParentOf(d, over), IndexIn(kids, over) + 1)
     IN  /\ at = "inside" => d[over].kind = "frame"
         /\ r.new /\ Do(r, << drag.id >>, NoKey)
  /\ drag' = NoDrag /\ UNCHANGED clip

\* The pointer is released over nothing.
LetGo == drag # NoDrag /\ drag' = NoDrag /\ UNCHANGED << historyVars, saveVars, clip, edits, picks, foreign >>

---------------------------------------------------------------------------
(* doSave: the designer stays open to edits while the panel answers, and   *)
(* Ctrl+S does not look whether a save is under way.                       *)

StartSave ==
  /\ saving' = Append(saving, doc)
  /\ picks < MaxPicks /\ picks' = picks + 1
  /\ UNCHANGED << historyVars, stored, clip, drag, edits, foreign >>

SaveDone(k) ==
  /\ stored' = saving[k] /\ saving' = RemoveAt(saving, k)
  /\ MarkSaved /\ UNCHANGED << clip, drag, edits, picks, foreign >>

SaveFails(k) ==
  /\ saving' = RemoveAt(saving, k)
  /\ UNCHANGED << historyVars, stored, clip, drag, edits, picks, foreign >>

---------------------------------------------------------------------------
DropsNew ==
  /\ drag = NoDrag
  /\ \E part \in Parts :
       \/ \E target \in SideTargets(<< >>), side \in {"left", "right"} : DropNew(part, target, side)
       \/ \E p \in IndexTargets(<< >>) : \E before \in Befores(p, << >>) : DropNewIn(part, p, before)

Drops ==
  /\ drag # NoDrag
  /\ \/ /\ drag.from = "canvas"
        /\ \/ \E t \in SideTargets(drag.ids), side \in {"left", "right"} : DropBeside(t, side)
           \/ \E p \in IndexTargets(drag.ids) : \E before \in Befores(p, drag.ids) : DropIn(p, before)
     \/ \E over \in Shown, at \in {"before", "after", "inside"} : DropLayer(over, at)

Edit ==
  \/ \E part \in Parts : AddSub(part)
  \/ RemoveSelected \/ Duplicate \/ Ungroup \/ Paste
  \/ \E flow \in {"column", "row"} : Group(flow)
  \/ \E i \in Shown : (\E delta \in {-1, 1} : Shift(i, delta)) \/ Restyle(i)
  \/ \E raw \in Imports : Import(raw)

History == (Undo \/ Redo \/ Pause) /\ UNCHANGED << saveVars, clip, drag, edits, picks, foreign >>

Next ==
  \/ Edit \/ Drops \/ DropsNew \/ History
  \/ Copy \/ FollowPointer \/ LetGo
  \/ StartSave \/ \E k \in DOMAIN saving : SaveDone(k) \/ SaveFails(k)
  \/ \E i \in Shown : Click(i) \/ ShiftClick(i) \/ Grab(i) \/ GrabLayer(i)

Spec == Init /\ [][Next]_vars

---------------------------------------------------------------------------
(* Properties *)

\* The document is the one that comes back when it is saved and loaded:
\* normalizeDoc has no cycle, orphan, lost or repeated child to repair.
DocLoadsAlways == Normalize(doc) = doc

\* No operation of the designer, and no drop or undo, makes such a document: it
\* takes an element of the library that was none of the designer's making.
DocLoads == foreign \/ Normalize(doc) = doc

\* Wherever the node in hand may be dropped, the move (tree.ts, moveNode)
\* puts it before the child that had the asked index, or last, and leaves the
\* order of all other nodes of a document that loads.
MovesAsAsked ==
  drag # NoDrag /\ drag.from = "canvas" /\ Normalize(doc) = doc =>
    LET i == drag.id  gone == SubtreeIds(doc, i) IN
    \A p \in IndexTargets(<< i >>) :
      i \in DOMAIN doc /\ CanMove(doc, i, p) =>
        \A index \in 0 .. Len(doc[p].kids) :
          LET r    == MoveNode(doc, i, p, index).doc
              next == Without(SubSeq(doc[p].kids, index + 1, Len(doc[p].kids)), {i})
          IN  /\ Normalize(r) = r /\ DOMAIN r = DOMAIN doc
              /\ Without(Leaves(r), gone) = Without(Leaves(doc), gone)
              /\ IF next = << >> THEN Last(r[p].kids) = i
                 ELSE \E k \in 2 .. Len(r[p].kids) : r[p].kids[k - 1] = i /\ r[p].kids[k] = next[1]

\* The designer asks before it closes over unsaved changes (SubDesigner.tsx,
\* requestClose): what it takes for saved, the panel has.
CleanMeansStored == ~dirty => stored = doc

=============================================================================

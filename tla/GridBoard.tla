----------------------------- MODULE GridBoard -----------------------------
(***************************************************************************)
(* The dashboard board (panel/components/dashboard/GridBoard.tsx) and the  *)
(* operations of DashboardPage.tsx on its layout.  The browser renders the *)
(* board from the stored layout; between two renders an effect, a pointer  *)
(* or keyboard event, a menu command, a change of what the server lets the *)
(* page show, or a change of the window's width may happen.                *)
(***************************************************************************)
EXTENDS DashboardGrid

CONSTANTS
  Tiles,          \* every tile id a board may use
  DefaultSize,    \* tile -> [w, h], its size when it has no stored place
  Boards,         \* the boards the page may load: [panels, grid]
  MAX_PANELS,     \* tiles per board
  Handles,        \* the resize handles, each a set of edges
  MaxRow,         \* bound: rows of the pointer targets
  MaxDelta,       \* bound: cells a resize handle is dragged by
  Moves,          \* bound: pointer moves of a gesture (the last one counts)
  Blinks,         \* bound: times a tile hides or shows
  Edits           \* bound: changes the user makes

\* parseLayout and parseGrid drop repeated and unknown ids and round the
\* numbers; what is stored may overlap, float and break the limits.
ASSUME BoardAssumption ==
  /\ Tiles \subseteq DOMAIN Limits /\ MaxRow \in Nat /\ MaxDelta \in Nat
  /\ \A t \in Tiles : DefaultSize[t].w \in Int /\ DefaultSize[t].h \in Int
  /\ \A b \in Boards :
       /\ b.panels \in Seq(Tiles) /\ IsInjective(b.panels)
       /\ b.grid \in Seq([id : Tiles, x : Int, y : Int, w : Int, h : Int])
       /\ \A i, j \in DOMAIN b.grid : b.grid[i].id = b.grid[j].id => i = j

VARIABLES
  panels,         \* layout.panels: ids, in the order they are rendered
  grid,           \* layout.grid: the stored (desktop) layout
  visible,        \* tiles that have something to show
  editing,        \* edit mode
  bp,             \* breakpoint of the container's width
  gesture,        \* interaction.current, and the preview it shows
  due,            \* the write-back effect is to run: one of its inputs changed
  blinks,         \* bookkeeping of the bound Blinks
  edits           \* bookkeeping of the bound Edits

vars == << panels, grid, visible, editing, bp, gesture, due, blinks, edits >>

Breakpoints == {"lg", "md", "sm"}
NoGesture   == [kind |-> "none"]
Interacting == gesture # NoGesture

---------------------------------------------------------------------------
(* What is rendered *)

KeysOf(ps, vis) == Picked(ps, vis)
keys == KeysOf(panels, visible)

\* Stored places of the tiles on screen, normalised.
DesktopOf(ks, stored) == Reconcile(stored, ks, DefaultSize, GRID_COLS)
desktop == DesktopOf(keys, grid)

\* For display only, the neighbours of the hidden tiles grow into their
\* places.
AllRemoved(items, hidden) ==
  FoldLeft(LAMBDA list, h : RemoveAndFill(list, h.id, GRID_COLS), items, hidden)

Filled(layout, hidden) ==
  IF hidden = <<>> \/ layout = <<>> THEN layout
  ELSE Keeping(AllRemoved(layout \o hidden, hidden), Ids(layout))
shownDesktop ==
  Filled(desktop, Picked(grid, {g \in ToSet(grid) : g.id \notin visible \cap ToSet(panels)}))

\* `base` of the component, and what it draws.
baseLayout == DeriveLayout(shownDesktop, bp)

\* Recomputed from the layout the gesture began with, for its last target.
Preview ==
  IF gesture.kind = "drag"
  THEN MoveItem(gesture.base, gesture.id, gesture.to.x, gesture.to.y, GRID_COLS)
  ELSE ResizeItem(gesture.base, gesture.id, gesture.to, GRID_COLS)

shown == IF Interacting THEN Preview ELSE baseLayout

canEdit == editing /\ bp = "lg"

---------------------------------------------------------------------------
Init ==
  /\ \E b \in Boards : panels = b.panels /\ grid = b.grid
  /\ visible = Tiles /\ editing = FALSE /\ bp = "lg"
  /\ gesture = NoGesture /\ due = TRUE /\ blinks = 0 /\ edits = 0

\* The effect that stores the normalised layout: not during a gesture, not
\* for an empty board, and only when a place differs.
Differs(layout, stored) == ~(ToSet(layout) \subseteq ToSet(stored))

WriteBack ==
  /\ due
  /\ IF ~Interacting /\ keys # <<>> /\ Differs(desktop, grid)
     THEN /\ grid' = desktop \o Picked(grid, {g \in ToSet(grid) : g.id \notin Ids(desktop)})
          /\ due' = TRUE
     ELSE due' = FALSE /\ UNCHANGED grid
  /\ UNCHANGED << panels, visible, editing, bp, gesture, blinks, edits >>

\* `commit`: only the tiles on screen are written.
Commit(next) == edits < Edits /\ edits' = edits + 1 /\ grid' = next /\ due' = TRUE

---------------------------------------------------------------------------
(* Pointer gestures.  `live` is live.current.base: the layout drawn last.  *)

Begin(live, kind, t, handle, to) ==
  /\ canEdit /\ ~Interacting /\ edits < Edits
  /\ gesture' = [kind |-> kind, id |-> t, handle |-> handle, base |-> live, to |-> to, moves |-> 0]
  /\ UNCHANGED << panels, grid, visible, editing, bp, due, blinks, edits >>

StartDrag(live, t) ==
  /\ t \in Ids(live)
  /\ LET start == TileOf(live, t)
     IN  Begin(live, "drag", t, {}, [x |-> start.x, y |-> start.y])

StartResize(live, t, handle) ==
  /\ t \in Ids(live)
  /\ Begin(live, "resize", t, handle, ResizeRect(TileOf(live, t), handle, 0, 0, GRID_COLS))

Aim(to) ==
  /\ gesture.moves < Moves
  /\ gesture' = [gesture EXCEPT !.to = to, !.moves = @ + 1]
  /\ UNCHANGED << panels, grid, visible, editing, bp, due, blinks, edits >>

DragTo(x, y) ==
  /\ gesture.kind = "drag"
  /\ Aim([x |-> Lesser(x, GRID_COLS - TileOf(gesture.base, gesture.id).w), y |-> y])

ResizeTo(dx, dy) ==
  /\ gesture.kind = "resize"
  /\ Aim(ResizeRect(TileOf(gesture.base, gesture.id), gesture.handle, dx, dy, GRID_COLS))

\* pointerup
Drop ==
  /\ Interacting
  /\ gesture' = NoGesture
  /\ IF Preview # gesture.base THEN Commit(Preview) ELSE UNCHANGED << grid, due, edits >>
  /\ UNCHANGED << panels, visible, editing, bp, blinks >>

\* Escape or pointercancel
Cancel ==
  /\ Interacting
  /\ gesture' = NoGesture
  /\ UNCHANGED << panels, grid, visible, editing, bp, due, blinks, edits >>

\* Leaving edit mode or the desktop breakpoint drops the gesture.
ToggleEdit ==
  /\ editing' = ~editing
  /\ gesture' = IF editing' /\ bp = "lg" THEN gesture ELSE NoGesture
  /\ UNCHANGED << panels, grid, visible, bp, due, blinks, edits >>

\* The width is an input of the effect.
SetWidth(b) ==
  /\ b # bp
  /\ bp' = b
  /\ gesture' = IF editing /\ b = "lg" THEN gesture ELSE NoGesture
  /\ due' = TRUE
  /\ UNCHANGED << panels, grid, visible, editing, blinks, edits >>

---------------------------------------------------------------------------
(* Keyboard and tile menu: they do not ask whether a gesture is going on *)

EditTile(live, t, next) ==
  /\ canEdit /\ edits < Edits /\ t \in Ids(live)
  /\ next # live /\ Commit(next)
  /\ UNCHANGED << panels, visible, editing, bp, gesture, blinks >>

KeyMove(live, t, dx, dy) ==
  LET cur == TileOf(live, t)
  IN  EditTile(live, t, MoveItem(live, t, cur.x + dx, cur.y + dy, GRID_COLS))

KeyResize(live, t, dx, dy) ==
  LET rect == ResizeRect(TileOf(live, t), {"s", "e"}, dx, dy, GRID_COLS)
  IN  EditTile(live, t, ResizeItem(live, t, rect, GRID_COLS))

\* Sizes of the menu, among them the default size ("Reset size").
SetSize(live, t, w, h) ==
  LET cur == TileOf(live, t)
  IN  EditTile(live, t, ResizeItem(live, t, [x |-> cur.x, y |-> cur.y, w |-> w, h |-> h], GRID_COLS))

\* A copy in the first free slot; `new` is an id nothing uses yet.
Duplicate(live, t, new) ==
  /\ canEdit /\ t \in Ids(live)
  /\ Len(panels) < MAX_PANELS /\ new \notin ToSet(panels) \cup Ids(grid)
  /\ Limits[new] = Limits[t] /\ PhoneRows[new] = PhoneRows[t]
  /\ LET cur == TileOf(live, t)
     IN  Commit(InFirstFit(live, new, cur.w, cur.h, GRID_COLS))
  /\ panels' = Append(panels, new)
  /\ UNCHANGED << visible, editing, bp, gesture, blinks >>

---------------------------------------------------------------------------
(* Commands of the page *)

RemoveTile(t) ==
  /\ canEdit /\ t \in ToSet(keys)
  /\ panels' = Picked(panels, ToSet(panels) \ {t})
  /\ Commit(RemoveAndFill(Keeping(grid, ToSet(keys) \cup {t}), t, GRID_COLS))
  /\ UNCHANGED << visible, editing, bp, gesture, blinks >>

ArrangeLayout ==
  /\ editing
  /\ Commit(AutoArrange(Keeping(grid, ToSet(keys)), GRID_COLS))
  /\ UNCHANGED << panels, visible, editing, bp, gesture, blinks >>

\* One tile of the catalogue: the board is compacted, hidden tiles
\* included, and the tile takes the first free slot.
InsertBundle(t) ==
  /\ editing
  /\ Len(panels) < MAX_PANELS /\ t \notin ToSet(panels) \cup Ids(grid)
  /\ Commit(InFirstFit(Compact(grid, GRID_COLS), t, DefaultSize[t].w, DefaultSize[t].h, GRID_COLS))
  /\ panels' = Append(panels, t)
  /\ UNCHANGED << visible, editing, bp, gesture, blinks >>

\* Permissions, node mode or data: a tile comes or goes.
Blink(t) ==
  /\ blinks < Blinks /\ blinks' = blinks + 1
  /\ t \in ToSet(panels)
  /\ visible' = IF t \in visible THEN visible \ {t} ELSE visible \cup {t}
  /\ due' = TRUE
  /\ UNCHANGED << panels, grid, editing, bp, gesture, edits >>

Steps == {<<-1, 0>>, <<1, 0>>, <<0, -1>>, <<0, 1>>}

\* What the user may do to a tile of the layout drawn last.
OnTile(live, t) ==
  \/ StartDrag(live, t)
  \/ \E h \in Handles : StartResize(live, t, h)
  \/ SetSize(live, t, DefaultSize[t].w, DefaultSize[t].h)
  \/ \E d \in Steps : KeyMove(live, t, d[1], d[2]) \/ KeyResize(live, t, d[1], d[2])
  \/ \E n \in Tiles : Duplicate(live, t, n)

Next ==
  \/ WriteBack \/ Drop \/ Cancel \/ ToggleEdit \/ ArrangeLayout
  \/ \E b \in Breakpoints : SetWidth(b)
  \/ \E x \in 0 .. GRID_COLS - 1, y \in 0 .. MaxRow : DragTo(x, y)
  \/ \E dx, dy \in -MaxDelta .. MaxDelta : ResizeTo(dx, dy)
  \/ \E live \in {baseLayout}, t \in Tiles : OnTile(live, t)
  \/ \E t \in Tiles : RemoveTile(t) \/ InsertBundle(t) \/ Blink(t)

Spec == Init /\ [][Next]_vars

---------------------------------------------------------------------------
(* Properties *)

Rests(p, items) ==
  p.y = 0 \/ \E q \in ToSet(items) : q.id # p.id /\ SharesColumns(q, p) /\ q.y + q.h = p.y

ValidBoard(items) ==
  /\ ~Interacting => Ids(items) = ToSet(keys)
  /\ bp = "lg" => ValidateGrid(items, GRID_COLS) /\ \A p \in ToSet(items) : Rests(p, items)
  /\ bp = "md" => ValidateGrid(items, TABLET_COLS)
  /\ bp = "sm" => /\ ~HasOverlap(items)
                  /\ \A p \in ToSet(items) : p.x >= 0 /\ p.x + p.w <= GRID_COLS

\* What is on screen, preview included, is a layout: no two tiles overlap,
\* each is inside the columns of the breakpoint and within its limits, no
\* tile is missing; and on the desktop board nothing can float up
\* (dashboardGrid.ts, header).
ShownValid == ValidBoard(shown)

\* The effect settles: after it has stored the layout it finds no further
\* difference, so it cannot keep the page rendering for ever.
WriteBackSettles ==
  [][WriteBack /\ grid' # grid => ~Differs(DesktopOf(keys, grid'), grid')]_vars

\* The dragged tile has priority: it is in the column it was dragged to and
\* never below the row it was dragged to, however many tiles give way.
MovedWhereAsked ==
  gesture.kind = "drag" =>
    LET p == TileOf(Preview, gesture.id)
    IN  p.x = gesture.to.x /\ p.y <= gesture.to.y

\* The derived boards read in the order of the desktop board.
ReadingOrderKept ==
  bp # "lg" => LET Order(items) == [i \in DOMAIN items |-> SortItems(items)[i].id]
               IN  Order(baseLayout) = Order(shownDesktop)

\* Auto-arrange of tiles of one height leaves no empty cell
\* (dashboardGrid.ts:555-559).
ArrangeFills ==
  [][ArrangeLayout /\ (\A p, q \in ToSet(grid') : p.h = q.h)
       => EmptyCellCount(grid', GRID_COLS) = 0]_vars

\* "Tiles that have nothing to show right now keep their stored place"
\* (GridBoard.tsx:203-206): no step of the board loses it.
HiddenKeepsPlace ==
  [][\A g \in ToSet(grid) : g.id \in ToSet(panels) \ visible => g \in ToSet(grid')]_vars

=============================================================================

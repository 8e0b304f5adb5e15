------------------------ MODULE DashboardSave_proofs ------------------------
(***************************************************************************)
(* The dashboard's autosave, for every set of boards, whatever the panel   *)
(* holds at first and any number of edits, posts and failures, when the    *)
(* panel takes and answers requests in the order they are sent: a "saved"  *)
(* that has come to rest is true (SettledIsStored), and a board leaves the *)
(* panel only by the user's hand or with what a page has posted that could *)
(* not read the boards (OnlyBlindLoses).                                   *)
(***************************************************************************)
EXTENDS DashboardSave, SequenceTheorems, TLAPS

Constants == SaveAssumption /\ DocumentAssumption

Board == [id : Boards, layout : Nat]
PostOf(d) == [doc |-> d, state |-> "sent", page |-> TRUE, blind |-> blind]
Posted == [doc : Document, state : {"sent", "stored", "failed"}, page : BOOLEAN, blind : BOOLEAN]

---------------------------------------------------------------------------
(* Documents and sequences *)

LEMMA RemoveAtProperties ==
  ASSUME NEW S, NEW s \in Seq(S), NEW i \in 1 .. Len(s)
  PROVE  /\ RemoveAt(s, i) \in Seq(S) /\ Len(RemoveAt(s, i)) = Len(s) - 1
         /\ \A k \in 1 .. Len(s) - 1 : RemoveAt(s, i)[k] = IF k < i THEN s[k] ELSE s[k + 1]
<1> DEFINE a == SubSeq(s, 1, i - 1)
           b == SubSeq(s, i + 1, Len(s))
<1>1. Len(s) \in Nat /\ \A k \in 1 .. Len(s) : s[k] \in S
  BY ElementOfSeq, LenProperties
<1>2. a \in Seq(S) /\ Len(a) = i - 1 /\ \A k \in 1 .. i - 1 : a[k] = s[k]
  BY <1>1, SubSeqProperties
<1>3. /\ b \in Seq(S) /\ Len(b) = Len(s) - i
      /\ \A k \in 1 .. Len(s) - i : b[k] = s[i + k]
  <2>1. i + 1 \in Int /\ Len(s) \in Int /\ \A k \in i + 1 .. Len(s) : s[k] \in S
    BY <1>1
  <2>2. /\ b \in Seq(S) /\ Len(b) = IF i + 1 <= Len(s) THEN Len(s) - (i + 1) + 1 ELSE 0
        /\ \A k \in 1 .. Len(s) - (i + 1) + 1 : b[k] = s[i + 1 + k - 1]
    BY <2>1, SubSeqProperties
  <2> QED
    BY <1>1, <2>2
<1>4. /\ a \o b \in Seq(S) /\ Len(a \o b) = Len(a) + Len(b)
      /\ \A k \in 1 .. Len(a) + Len(b) :
           (a \o b)[k] = IF k <= Len(a) THEN a[k] ELSE b[k - Len(a)]
  BY <1>2, <1>3, ConcatProperties
<1>5. RemoveAt(s, i) = a \o b
  BY DEF RemoveAt
<1> HIDE DEF a, b
<1>6. ASSUME NEW k \in 1 .. Len(s) - 1
      PROVE  (a \o b)[k] = IF k < i THEN s[k] ELSE s[k + 1]
  <2>1. CASE k < i
    BY <1>1, <1>2, <1>3, <1>4, <2>1
  <2>2. CASE k >= i
    <3>1. (a \o b)[k] = b[k - (i - 1)]
      BY <1>1, <1>2, <1>3, <1>4, <2>2
    <3>2. k - (i - 1) \in 1 .. Len(s) - i /\ i + (k - (i - 1)) = k + 1
      BY <1>1, <2>2
    <3>3. b[k - (i - 1)] = s[i + (k - (i - 1))]
      BY <1>3, <3>2
    <3> QED
      BY <1>1, <2>2, <3>1, <3>2, <3>3
  <2>3. k < i \/ k >= i
    BY <1>1
  <2> QED
    BY ONLY <2>1, <2>2, <2>3
<1>7. Len(a \o b) = Len(s) - 1
  BY <1>1, <1>2, <1>3, <1>4
<1> QED
  BY <1>4, <1>5, <1>6, <1>7

LEMMA DocumentFields ==
  ASSUME NEW d \in Document
  PROVE  /\ d = [activeId |-> d.activeId, boards |-> d.boards, mine |-> d.mine]
         /\ d.activeId \in Boards /\ d.boards \in Seq(Board) /\ d.mine \in Nat
         /\ Len(d.boards) \in Nat /\ DOMAIN d.boards = 1 .. Len(d.boards)
         /\ \A k \in DOMAIN d.boards :
              d.boards[k] \in Board /\ d.boards[k].id \in Boards /\ d.boards[k].layout \in Nat
         /\ \E k \in DOMAIN d.boards : d.boards[k].id = d.activeId
         /\ \A j, k \in DOMAIN d.boards : d.boards[j].id = d.boards[k].id => j = k
         /\ d.activeId \in IdsOf(d) /\ IdsOf(d) \subseteq Boards
<1>1. /\ d \in [activeId : Boards, boards : Seq(Board), mine : Nat]
      /\ \E k \in DOMAIN d.boards : d.boards[k].id = d.activeId
      /\ \A j, k \in DOMAIN d.boards : d.boards[j].id = d.boards[k].id => j = k
  BY DEF Document, Board
<1>2. /\ d.boards \in Seq(Board) /\ Len(d.boards) \in Nat
      /\ DOMAIN d.boards = 1 .. Len(d.boards)
      /\ \A k \in 1 .. Len(d.boards) : d.boards[k] \in Board
  BY <1>1, LenProperties, ElementOfSeq
<1> QED
  BY <1>1, <1>2 DEF IdsOf, Board

LEMMA DocumentMade ==
  ASSUME NEW a \in Boards, NEW bs \in Seq(Board), NEW m \in Nat,
         \E k \in DOMAIN bs : bs[k].id = a,
         \A j, k \in DOMAIN bs : bs[j].id = bs[k].id => j = k
  PROVE  [activeId |-> a, boards |-> bs, mine |-> m] \in Document
BY DEF Document, Board

\* A board of a document is in one place.
LEMMA PlaceOfBoard ==
  ASSUME NEW d \in Document, NEW b \in IdsOf(d)
  PROVE  /\ PlaceOf(d, b) \in DOMAIN d.boards /\ d.boards[PlaceOf(d, b)].id = b
         /\ LayoutIn(d, b) \in Nat
         /\ \A k \in DOMAIN d.boards :
              d.boards[k].id = b => k = PlaceOf(d, b) /\ d.boards[k].layout = LayoutIn(d, b)
<1>1. \E k \in DOMAIN d.boards : d.boards[k].id = b
  BY DEF IdsOf
<1>2. PlaceOf(d, b) \in DOMAIN d.boards /\ d.boards[PlaceOf(d, b)].id = b
  BY <1>1 DEF PlaceOf
<1> QED
  BY <1>2, DocumentFields DEF LayoutIn

\* saveActiveBoard puts a layout into the board on screen.
LEMMA KeepIsDocument ==
  ASSUME NEW d \in Document, NEW l \in Nat
  PROVE  /\ Keep(d, l) \in Document
         /\ Keep(d, l).activeId = d.activeId /\ Keep(d, l).mine = d.mine
         /\ DOMAIN Keep(d, l).boards = DOMAIN d.boards
         /\ \A k \in DOMAIN d.boards :
              /\ Keep(d, l).boards[k].id = d.boards[k].id
              /\ Keep(d, l).boards[k].layout =
                   IF d.boards[k].id = d.activeId THEN l ELSE d.boards[k].layout
         /\ IdsOf(Keep(d, l)) = IdsOf(d)
<1> DEFINE bs == [k \in DOMAIN d.boards |->
                    IF d.boards[k].id = d.activeId THEN [d.boards[k] EXCEPT !.layout = l]
                                                   ELSE d.boards[k]]
<1>1. Keep(d, l) = [activeId |-> d.activeId, boards |-> bs, mine |-> d.mine]
  BY DocumentFields DEF Keep
<1>2. \A k \in DOMAIN d.boards :
        /\ bs[k] \in Board /\ bs[k].id = d.boards[k].id
        /\ bs[k].layout = IF d.boards[k].id = d.activeId THEN l ELSE d.boards[k].layout
  BY DocumentFields DEF Board
<1>3. bs \in Seq(Board) /\ DOMAIN bs = DOMAIN d.boards
  <2>1. Len(d.boards) \in Nat /\ DOMAIN d.boards = 1 .. Len(d.boards)
    BY DocumentFields
  <2>2. bs \in [1 .. Len(d.boards) -> Board]
    BY <1>2, <2>1
  <2> QED
    BY <2>1, <2>2, IsASeq
<1> HIDE DEF bs
<1>4. Keep(d, l) \in Document
  BY <1>1, <1>2, <1>3, DocumentFields, DocumentMade
<1> QED
  BY <1>1, <1>2, <1>3, <1>4 DEF IdsOf

\* A board of the document it is kept in has the layout that was put in.
LEMMA LayoutKept ==
  ASSUME NEW d \in Document, NEW l \in Nat, NEW k \in DOMAIN d.boards
  PROVE  LayoutIn(Keep(d, l), d.boards[k].id) =
           IF d.boards[k].id = d.activeId THEN l ELSE d.boards[k].layout
<1>1. /\ Keep(d, l) \in Document /\ k \in DOMAIN Keep(d, l).boards
      /\ Keep(d, l).boards[k].id = d.boards[k].id
      /\ Keep(d, l).boards[k].layout = IF d.boards[k].id = d.activeId THEN l ELSE d.boards[k].layout
  BY KeepIsDocument
<1>2. d.boards[k].id \in IdsOf(Keep(d, l))
  BY <1>1 DEF IdsOf
<1>3. Keep(d, l).boards[k].layout = LayoutIn(Keep(d, l), d.boards[k].id)
  BY <1>1, <1>2, PlaceOfBoard
<1> QED
  BY <1>1, <1>3

LEMMA DefaultIsDocument ==
  ASSUME Constants
  PROVE  Default \in Document
<1> DEFINE bs == << [id |-> Main, layout |-> 0] >>
<1>1. Main \in Boards
  BY DEF Constants, SaveAssumption
<1>2. bs \in Seq(Board) /\ DOMAIN bs = {1} /\ bs[1].id = Main
  BY <1>1 DEF Board
<1> HIDE DEF bs
<1>3. [activeId |-> Main, boards |-> bs, mine |-> 0] \in Document
  BY <1>1, <1>2, DocumentMade
<1> QED
  BY <1>3 DEF Default, bs

---------------------------------------------------------------------------
(* What the actions do to the screen *)

\* A render starts the timer with what it shows, once the boards are restored.
LEMMA RenderedFacts ==
  ASSUME Constants, NEW ws \in Document, NEW l \in Nat, NEW ready \in BOOLEAN, Rendered(ws, l, ready)
  PROVE  /\ workspace' = ws /\ layout' = l /\ layoutReady' = ready
         /\ workspace' \in Document /\ layout' \in Nat
         /\ ready => layoutSaved' = FALSE /\ timer' = Screen' /\ timer' \in Document /\ timer' # NoDoc
         /\ ~ready => UNCHANGED << layoutSaved, timer >>
<1>1. /\ workspace' = ws /\ layout' = l /\ layoutReady' = ready
      /\ ready => layoutSaved' = FALSE /\ timer' = Keep(ws, l)
      /\ ~ready => UNCHANGED << layoutSaved, timer >>
  BY DEF Rendered
<1>2. Keep(ws, l) \in Document /\ NoDoc \notin Document
  BY KeepIsDocument DEF Constants, DocumentAssumption
<1> QED
  BY <1>1, <1>2 DEF Screen

LEMMA ScreenIsDocument ==
  ASSUME Constants, workspace \in Document, layout \in Nat
  PROVE  Screen \in Document /\ Screen # NoDoc /\ IdsOf(Screen) = IdsOf(workspace)
<1>1. Screen \in Document /\ IdsOf(Screen) = IdsOf(workspace)
  BY KeepIsDocument DEF Screen
<1> QED
  BY <1>1 DEF Constants, DocumentAssumption

\* What every edit keeps.
Edited ==
  /\ page = "shown"
  /\ UNCHANGED << stored, layoutReady, posts, load, read, page, faults, languages, blind >>
  /\ edits' \in Nat
  /\ workspace' \in Document /\ layout' \in Nat
  /\ layoutReady => layoutSaved' = FALSE /\ timer' = Screen' /\ timer' \in Document /\ timer' # NoDoc
  /\ ~layoutReady => UNCHANGED << layoutSaved, timer >>
  /\ made' \in [Boards -> Nat] /\ removed' \subseteq Boards
  /\ removed \subseteq removed' /\ IdsOf(workspace) \subseteq IdsOf(workspace') \cup removed'
  /\ AsMade => AsMade'

LEMMA ChangeFacts ==
  ASSUME Constants, TypeOK, NEW ws \in Document, NEW l \in Nat, NEW seen \in [Boards -> Nat],
         Change(ws, l, seen)
  PROVE  /\ page = "shown"
         /\ UNCHANGED << stored, layoutReady, posts, load, read, page, faults, languages, blind >>
         /\ edits' \in Nat
         /\ workspace' = ws /\ layout' = l /\ made' = seen
         /\ workspace' \in Document /\ layout' \in Nat
         /\ layoutReady => layoutSaved' = FALSE /\ timer' = Screen' /\ timer' \in Document /\ timer' # NoDoc
         /\ ~layoutReady => UNCHANGED << layoutSaved, timer >>
<1>1. /\ page = "shown" /\ Rendered(ws, l, layoutReady) /\ made' = seen /\ edits' = edits + 1
      /\ edits \in Nat /\ layoutReady \in BOOLEAN
      /\ UNCHANGED << stored, posts, load, read, page, faults, languages, blind >>
  BY DEF Change, TypeOK
<1>2. edits' \in Nat
  BY ONLY <1>1
<1>3. /\ workspace' = ws /\ layout' = l /\ layoutReady' = layoutReady
      /\ workspace' \in Document /\ layout' \in Nat
      /\ layoutReady => layoutSaved' = FALSE /\ timer' = Screen' /\ timer' \in Document /\ timer' # NoDoc
      /\ ~layoutReady => UNCHANGED << layoutSaved, timer >>
  BY <1>1, RenderedFacts
<1> QED
  BY ONLY <1>1, <1>2, <1>3

LEMMA EditLayoutFacts ==
  ASSUME Constants, TypeOK, EditLayout
  PROVE  Edited
<1> DEFINE seen == [made EXCEPT ![workspace.activeId] = edits + 1]
<1>1. /\ workspace \in Document /\ edits + 1 \in Nat
      /\ made \in [Boards -> Nat] /\ removed \subseteq Boards
  BY DEF TypeOK
<1>2. seen \in [Boards -> Nat] /\ removed' = removed
  BY <1>1 DEF EditLayout
<1>3. Change(workspace, edits + 1, seen)
  BY DEF EditLayout
<1> HIDE DEF seen
<1>4. workspace' = workspace /\ layout' = edits + 1 /\ made' = seen
  BY <1>1, <1>2, <1>3, ChangeFacts
<1>5. AsMade => AsMade'
  <2> SUFFICES ASSUME AsMade, NEW k \in DOMAIN workspace.boards
               PROVE  seen[workspace.boards[k].id] =
                        IF workspace.boards[k].id = workspace.activeId THEN edits + 1
                                                                       ELSE workspace.boards[k].layout
    BY <1>4 DEF AsMade
  <2>1. workspace.boards[k].id \in Boards /\ workspace.activeId \in Boards
    BY <1>1, DocumentFields
  <2> QED
    BY <1>1, <2>1 DEF AsMade, seen
<1> QED
  BY <1>1, <1>2, <1>3, <1>4, <1>5, ChangeFacts DEF Edited

LEMMA EditWorkspaceFacts ==
  ASSUME Constants, TypeOK, EditWorkspace
  PROVE  Edited
<1> DEFINE ws == [workspace EXCEPT !.mine = edits + 1]
<1>1. /\ workspace \in Document /\ edits + 1 \in Nat /\ layout \in Nat
      /\ made \in [Boards -> Nat] /\ removed \subseteq Boards
  BY DEF TypeOK
<1>2. ws = [activeId |-> workspace.activeId, boards |-> workspace.boards, mine |-> edits + 1]
  BY <1>1, DocumentFields
<1>3. ws \in Document /\ ws.boards = workspace.boards /\ ws.activeId = workspace.activeId
  <2> HIDE DEF ws
  <2>1. /\ workspace.activeId \in Boards /\ workspace.boards \in Seq(Board)
        /\ \E k \in DOMAIN workspace.boards : workspace.boards[k].id = workspace.activeId
        /\ \A j, k \in DOMAIN workspace.boards : workspace.boards[j].id = workspace.boards[k].id => j = k
    BY <1>1, DocumentFields
  <2>2. [activeId |-> workspace.activeId, boards |-> workspace.boards, mine |-> edits + 1] \in Document
    BY ONLY <1>1, <2>1, DocumentMade
  <2> QED
    BY ONLY <1>2, <2>2
<1>4. Change(ws, layout, made) /\ removed' = removed
  BY DEF EditWorkspace
<1> HIDE DEF ws
<1>5. workspace' = ws /\ layout' = layout /\ made' = made
  BY <1>1, <1>3, <1>4, ChangeFacts
<1>6. IdsOf(workspace) = IdsOf(workspace')
  BY <1>3, <1>5 DEF IdsOf
<1>7. AsMade => AsMade'
  BY <1>3, <1>5 DEF AsMade
<1> QED
  BY <1>1, <1>3, <1>4, <1>5, <1>6, <1>7, ChangeFacts DEF Edited

\* The board left behind is kept in the workspace before another one is shown.
LEMMA SelectBoardFacts ==
  ASSUME Constants, TypeOK, NEW b \in Boards, SelectBoard(b)
  PROVE  Edited
<1> DEFINE ws == [Screen EXCEPT !.activeId = b]
           l == LayoutIn(Screen, b)
<1>1. /\ workspace \in Document /\ layout \in Nat
      /\ made \in [Boards -> Nat] /\ removed \subseteq Boards
  BY DEF TypeOK
<1>2. Screen \in Document /\ IdsOf(Screen) = IdsOf(workspace)
  BY <1>1, ScreenIsDocument
<1>3. b \in IdsOf(Screen) /\ b # workspace.activeId
  BY <1>2 DEF SelectBoard
<1>4. ws = [activeId |-> b, boards |-> Screen.boards, mine |-> Screen.mine]
  BY <1>2, DocumentFields
<1>5. ws \in Document /\ ws.boards = Screen.boards /\ ws.activeId = b
  BY <1>2, <1>3, <1>4, DocumentFields, DocumentMade DEF IdsOf
<1>6. l \in Nat
  BY <1>2, <1>3, PlaceOfBoard
<1>7. Change(ws, l, made) /\ removed' = removed
  BY DEF SelectBoard
<1>8. \A k \in DOMAIN Screen.boards : Screen.boards[k].id = b => Screen.boards[k].layout = l
  BY <1>2, <1>3, PlaceOfBoard
<1> HIDE DEF ws, l
<1>9. workspace' = ws /\ layout' = l /\ made' = made
  BY <1>1, <1>5, <1>6, <1>7, ChangeFacts
<1>10. IdsOf(workspace) = IdsOf(workspace')
  BY <1>2, <1>5, <1>9 DEF IdsOf
<1>11. AsMade => AsMade'
  <2> SUFFICES ASSUME AsMade, NEW k \in DOMAIN Screen.boards
               PROVE  made[Screen.boards[k].id]
                        = IF Screen.boards[k].id = b THEN l ELSE Screen.boards[k].layout
    BY <1>5, <1>9 DEF AsMade
  <2>1. /\ k \in DOMAIN workspace.boards /\ Screen.boards[k].id = workspace.boards[k].id
        /\ Screen.boards[k].layout =
             IF workspace.boards[k].id = workspace.activeId THEN layout ELSE workspace.boards[k].layout
    BY <1>1, KeepIsDocument DEF Screen
  <2>2. made[Screen.boards[k].id] = Screen.boards[k].layout
    BY <2>1 DEF AsMade
  <2> QED
    BY <1>8, <2>2
<1> QED
  BY <1>1, <1>5, <1>6, <1>7, <1>9, <1>10, <1>11, ChangeFacts DEF Edited

\* A document with another board on screen and other boards.
LEMMA DocumentChanged ==
  ASSUME NEW d \in Document, NEW a, NEW bs
  PROVE  /\ [d EXCEPT !.activeId = a, !.boards = bs] = [activeId |-> a, boards |-> bs, mine |-> d.mine]
         /\ [d EXCEPT !.boards = bs, !.activeId = a] = [activeId |-> a, boards |-> bs, mine |-> d.mine]
<1>1. d = [activeId |-> d.activeId, boards |-> d.boards, mine |-> d.mine]
  BY DocumentFields
<1> DEFINE e == [d EXCEPT !.activeId = a]
           f == [d EXCEPT !.boards = bs]
<1>2. /\ e = [activeId |-> a, boards |-> d.boards, mine |-> d.mine]
      /\ f = [activeId |-> d.activeId, boards |-> bs, mine |-> d.mine]
  BY ONLY <1>1
<1>3. /\ [d EXCEPT !.activeId = a, !.boards = bs] = [e EXCEPT !.boards = bs]
      /\ [d EXCEPT !.boards = bs, !.activeId = a] = [f EXCEPT !.activeId = a]
  OBVIOUS
<1> HIDE DEF e, f
<1>4. /\ [e EXCEPT !.boards = bs] = [activeId |-> a, boards |-> bs, mine |-> d.mine]
      /\ [f EXCEPT !.activeId = a] = [activeId |-> a, boards |-> bs, mine |-> d.mine]
  BY ONLY <1>2
<1> QED
  BY ONLY <1>3, <1>4

\* The screen has the boards of the workspace, one of them with another layout.
LEMMA ScreenBoards ==
  ASSUME Constants, TypeOK
  PROVE  /\ DOMAIN Screen.boards = DOMAIN workspace.boards
         /\ \A k \in DOMAIN workspace.boards :
              /\ Screen.boards[k].id = workspace.boards[k].id
              /\ Screen.boards[k].layout =
                   IF workspace.boards[k].id = workspace.activeId
                     THEN layout ELSE workspace.boards[k].layout
BY KeepIsDocument DEF Screen, TypeOK

LEMMA AddBoardFacts ==
  ASSUME Constants, TypeOK, NEW b \in Boards, NEW l \in Nat, AddBoard(b, l)
  PROVE  Edited
<1> DEFINE new == [id |-> b, layout |-> l]
           bs == Append(Screen.boards, new)
           ws == [Screen EXCEPT !.activeId = b, !.boards = Append(@, new)]
           seen == [made EXCEPT ![b] = l]
           n == Len(Screen.boards)
<1>1. /\ workspace \in Document /\ layout \in Nat
      /\ made \in [Boards -> Nat] /\ removed \subseteq Boards
  BY DEF TypeOK
<1>2. Screen \in Document /\ IdsOf(Screen) = IdsOf(workspace)
  BY <1>1, ScreenIsDocument
<1>3. b \notin IdsOf(Screen)
  BY <1>2 DEF AddBoard
<1>4. /\ Screen.boards \in Seq(Board) /\ n \in Nat /\ DOMAIN Screen.boards = 1 .. n
      /\ Screen.mine \in Nat
      /\ \A j, k \in 1 .. n : Screen.boards[j].id = Screen.boards[k].id => j = k
      /\ ws = [activeId |-> b, boards |-> bs, mine |-> Screen.mine]
  <2>1. ws = [activeId |-> b, boards |-> bs, mine |-> Screen.mine]
    <3>1. ws = [Screen EXCEPT !.activeId = b, !.boards = bs]
      BY <1>2, DocumentFields
    <3> HIDE DEF ws, bs
    <3> QED
      BY <1>2, <3>1, DocumentChanged
  <2> HIDE DEF ws, bs, new, seen
  <2> QED
    BY <1>2, <2>1, DocumentFields
<1>5. /\ bs \in Seq(Board) /\ Len(bs) = n + 1 /\ DOMAIN bs = 1 .. n + 1
      /\ \A k \in 1 .. n : bs[k] = Screen.boards[k]
      /\ bs[n + 1].id = b /\ bs[n + 1].layout = l
  <2>1. new \in Board /\ new.id = b /\ new.layout = l
    BY DEF Board
  <2> HIDE DEF new
  <2>2. /\ bs \in Seq(Board) /\ Len(bs) = n + 1 /\ bs[n + 1] = new
        /\ \A k \in 1 .. n : bs[k] = Screen.boards[k]
    BY <1>4, <2>1, AppendProperties
  <2> QED
    BY <1>4, <2>1, <2>2, LenProperties
<1>6. \A k \in 1 .. n : Screen.boards[k].id # b
  BY <1>3, <1>4 DEF IdsOf
<1> HIDE DEF new, bs, n
<1>7. /\ \E k \in DOMAIN bs : bs[k].id = b
      /\ \A j, k \in DOMAIN bs : bs[j].id = bs[k].id => j = k
  <2>1. n + 1 \in DOMAIN bs /\ \A k \in DOMAIN bs : k = n + 1 \/ k \in 1 .. n
    BY <1>4, <1>5
  <2>2. \A k \in 1 .. n : bs[k].id # b
    BY <1>5, <1>6
  <2>3. \A j, k \in 1 .. n : bs[j].id = bs[k].id => j = k
    BY <1>4, <1>5
  <2> QED
    BY <1>5, <2>1, <2>2, <2>3
<1>8. [activeId |-> b, boards |-> bs, mine |-> Screen.mine] \in Document
  BY <1>4, <1>5, <1>7, DocumentMade
<1>9. Change(ws, l, seen) /\ removed' = removed
  BY DEF AddBoard, new
<1>10. seen \in [Boards -> Nat] /\ seen[b] = l /\ \A c \in Boards : c # b => seen[c] = made[c]
  BY <1>1
<1> HIDE DEF ws, seen
<1>11. ws \in Document /\ ws.boards = bs /\ ws.activeId = b
  BY <1>4, <1>8
<1>12. workspace' = ws /\ layout' = l /\ made' = seen
  BY <1>9, <1>10, <1>11, ChangeFacts
<1>13. IdsOf(workspace) \subseteq IdsOf(workspace')
  <2>1. IdsOf(workspace) = {Screen.boards[k].id : k \in 1 .. n}
    BY <1>2, <1>4 DEF IdsOf
  <2>2. IdsOf(workspace') = {bs[k].id : k \in 1 .. n + 1}
    BY <1>5, <1>11, <1>12 DEF IdsOf
  <2>3. \A k \in 1 .. n : k \in 1 .. n + 1 /\ Screen.boards[k].id = bs[k].id
    BY <1>4, <1>5
  <2> QED
    BY <2>1, <2>2, <2>3
<1>14. AsMade => AsMade'
  <2> SUFFICES ASSUME AsMade, NEW k \in 1 .. n + 1
               PROVE  seen[bs[k].id] = IF bs[k].id = b THEN l ELSE bs[k].layout
    BY <1>5, <1>11, <1>12 DEF AsMade
  <2>1. CASE k = n + 1
    BY <1>5, <1>10, <2>1
  <2>2. CASE k \in 1 .. n
    <3>1. /\ k \in DOMAIN workspace.boards /\ Screen.boards[k].id = workspace.boards[k].id
          /\ Screen.boards[k].layout =
               IF workspace.boards[k].id = workspace.activeId THEN layout ELSE workspace.boards[k].layout
      BY <1>4, <2>2, ScreenBoards
    <3>2. made[bs[k].id] = bs[k].layout
      BY <1>5, <2>2, <3>1 DEF AsMade
    <3>3. bs[k].id # b /\ bs[k].id \in Boards
      BY <1>1, <1>5, <1>6, <2>2, <3>1, DocumentFields
    <3> QED
      BY <1>10, <3>2, <3>3
  <2> QED
    BY <1>4, <2>1, <2>2
<1> QED
  BY <1>1, <1>9, <1>10, <1>11, <1>12, <1>13, <1>14, ChangeFacts DEF Edited

LEMMA RemoveBoardFacts ==
  ASSUME Constants, TypeOK, RemoveBoard
  PROVE  Edited
<1> DEFINE a == workspace.activeId
           p == PlaceOf(workspace, a)
           bs == workspace.boards
           rs == RemoveAt(bs, p)
           n == Len(bs)
           ws == [workspace EXCEPT !.boards = rs, !.activeId = rs[1].id]
<1>1. /\ workspace \in Document /\ made \in [Boards -> Nat] /\ removed \subseteq Boards
  BY DEF TypeOK
<1>2. /\ a \in Boards /\ a \in IdsOf(workspace) /\ workspace.mine \in Nat
      /\ bs \in Seq(Board) /\ n \in Nat /\ DOMAIN bs = 1 .. n
      /\ \A k \in 1 .. n : bs[k].id \in Boards /\ bs[k].layout \in Nat
      /\ \A j, k \in 1 .. n : bs[j].id = bs[k].id => j = k
  BY <1>1, DocumentFields
<1>3. p \in 1 .. n /\ bs[p].id = a
  BY <1>1, <1>2, PlaceOfBoard
<1>4. n >= 2 /\ removed' = removed \cup {a} /\ Change(ws, rs[1].layout, made)
  BY DEF RemoveBoard
<1> HIDE DEF rs, p, bs, a, n
<1>5. ws = [activeId |-> rs[1].id, boards |-> rs, mine |-> workspace.mine]
  BY <1>1, DocumentChanged
<1> HIDE DEF ws
<1>6. /\ rs \in Seq(Board) /\ Len(rs) = n - 1 /\ DOMAIN rs = 1 .. n - 1
      /\ \A k \in 1 .. n - 1 : rs[k] = IF k < p THEN bs[k] ELSE bs[k + 1]
  <2>1. /\ rs \in Seq(Board) /\ Len(rs) = n - 1
        /\ \A k \in 1 .. n - 1 : rs[k] = IF k < p THEN bs[k] ELSE bs[k + 1]
    BY <1>2, <1>3, RemoveAtProperties DEF rs, n
  <2> QED
    BY <2>1, LenProperties
<1>7. \A k \in 1 .. n - 1 :
        \E i \in 1 .. n : rs[k] = bs[i] /\ i # p /\ i = IF k < p THEN k ELSE k + 1
  <2> SUFFICES ASSUME NEW k \in 1 .. n - 1
               PROVE  \E i \in 1 .. n : rs[k] = bs[i] /\ i # p /\ i = IF k < p THEN k ELSE k + 1
    OBVIOUS
  <2>1. CASE k < p
    <3>1. k \in 1 .. n /\ k # p /\ rs[k] = bs[k]
      BY <1>2, <1>3, <1>6, <2>1
    <3> QED
      BY <2>1, <3>1
  <2>2. CASE ~(k < p)
    <3>1. k + 1 \in 1 .. n /\ k + 1 # p /\ rs[k] = bs[k + 1]
      BY <1>2, <1>3, <1>6, <2>2
    <3> QED
      BY <2>2, <3>1
  <2> QED
    BY <2>1, <2>2
<1>8. \A k \in 1 .. n - 1 : rs[k].id # a /\ rs[k].id \in Boards /\ rs[k].layout \in Nat
  BY <1>2, <1>3, <1>7
<1>9. \A j, k \in 1 .. n - 1 : rs[j].id = rs[k].id => j = k
  <2> SUFFICES ASSUME NEW j \in 1 .. n - 1, NEW k \in 1 .. n - 1, rs[j].id = rs[k].id
               PROVE  j = k
    OBVIOUS
  <2>1. PICK i1 \in 1 .. n : rs[j] = bs[i1] /\ i1 # p /\ i1 = IF j < p THEN j ELSE j + 1
    BY <1>7
  <2>2. PICK i2 \in 1 .. n : rs[k] = bs[i2] /\ i2 # p /\ i2 = IF k < p THEN k ELSE k + 1
    BY <1>7
  <2>3. i1 = i2
    BY <1>2, <2>1, <2>2
  <2> QED
    BY <1>2, <1>3, <2>1, <2>2, <2>3
<1>10. 1 \in 1 .. n - 1
  BY <1>2, <1>4
<1>11. [activeId |-> rs[1].id, boards |-> rs, mine |-> workspace.mine] \in Document
  <2>1. \E k \in DOMAIN rs : rs[k].id = rs[1].id
    BY <1>6, <1>10
  <2>2. \A j, k \in DOMAIN rs : rs[j].id = rs[k].id => j = k
    BY <1>6, <1>9
  <2> QED
    BY <1>2, <1>6, <1>8, <1>10, <2>1, <2>2, DocumentMade
<1>12. ws \in Document /\ ws.boards = rs /\ ws.activeId = rs[1].id
  BY <1>11, <1>5
<1>13. rs[1].layout \in Nat
  BY <1>8, <1>10
<1>14. workspace' = ws /\ layout' = rs[1].layout /\ made' = made
  BY <1>1, <1>4, <1>12, <1>13, ChangeFacts
<1>15. IdsOf(workspace) \subseteq IdsOf(workspace') \cup {a}
  <2> SUFFICES ASSUME NEW i \in 1 .. n, i # p
               PROVE  \E k \in 1 .. n - 1 : rs[k].id = bs[i].id
    <3>1. IdsOf(workspace) = {bs[i].id : i \in 1 .. n}
      BY <1>2 DEF IdsOf, bs
    <3>2. IdsOf(workspace') = {rs[k].id : k \in 1 .. n - 1}
      BY <1>6, <1>12, <1>14 DEF IdsOf
    <3> QED
      BY <1>3, <3>1, <3>2
  <2>1. CASE i < p
    <3>1. i \in 1 .. n - 1 /\ rs[i] = bs[i]
      BY <1>2, <1>3, <1>6, <2>1
    <3> QED
      BY <3>1
  <2>2. CASE i > p
    <3>1. i - 1 \in 1 .. n - 1 /\ rs[i - 1] = bs[i]
      BY <1>2, <1>3, <1>6, <2>2
    <3> QED
      BY <3>1
  <2> QED
    BY <1>2, <1>3, <2>1, <2>2
<1>16. AsMade => AsMade'
  <2> SUFFICES ASSUME AsMade, NEW k \in 1 .. n - 1
               PROVE  made[rs[k].id] = IF rs[k].id = rs[1].id THEN rs[1].layout ELSE rs[k].layout
    BY <1>6, <1>12, <1>14 DEF AsMade
  <2>1. PICK i \in 1 .. n : rs[k] = bs[i] /\ i # p
    BY <1>7
  <2>2. made[bs[i].id] = IF bs[i].id = a THEN layout ELSE bs[i].layout
    BY <1>2 DEF AsMade, bs, a
  <2>3. made[rs[k].id] = rs[k].layout
    BY <1>8, <2>1, <2>2
  <2> QED
    BY <1>9, <1>10, <2>3
<1> QED
  BY <1>1, <1>2, <1>4, <1>12, <1>13, <1>14, <1>15, <1>16, ChangeFacts DEF Edited

LEMMA EditFacts ==
  ASSUME Constants, TypeOK, Edit
  PROVE  Edited
<1>1. \A l \in {0, layout} : l \in Nat
  BY DEF TypeOK
<1> QED
  BY <1>1, EditLayoutFacts, EditWorkspaceFacts, SelectBoardFacts, AddBoardFacts, RemoveBoardFacts
     DEF Edit

---------------------------------------------------------------------------
(* Type correctness *)

LEMMA ConstantsHold == Constants
BY SaveAssumption, DocumentAssumption DEF Constants

LEMMA ParsedIsDocument ==
  ASSUME Constants, NEW raw \in Document \cup {NoDoc}
  PROVE  Parsed(raw) \in Document
BY DefaultIsDocument DEF Parsed

\* The posts after each kind of step.
LEMMA PostFacts ==
  ASSUME TypeOK, NEW d \in Document, Post(d)
  PROVE  /\ posts' \in Seq(Posted) /\ Len(posts) \in Nat /\ Len(posts') = Len(posts) + 1
         /\ DOMAIN posts = 1 .. Len(posts) /\ DOMAIN posts' = 1 .. Len(posts) + 1
         /\ \A k \in 1 .. Len(posts) : posts'[k] = posts[k]
         /\ posts'[Len(posts) + 1] = PostOf(d) /\ posts' # << >> /\ Newest' = PostOf(d)
<1>1. posts \in Seq(Posted) /\ posts' = Append(posts, PostOf(d))
  BY DEF TypeOK, Posted, Post, PostOf
<1>2. PostOf(d) \in Posted
  BY DEF PostOf, Posted, TypeOK
<1>3. /\ posts' \in Seq(Posted) /\ Len(posts') = Len(posts) + 1
      /\ posts'[Len(posts) + 1] = PostOf(d)
      /\ \A k \in 1 .. Len(posts) : posts'[k] = posts[k]
  BY <1>1, <1>2, AppendProperties
<1>4. /\ Len(posts) \in Nat /\ DOMAIN posts = 1 .. Len(posts)
      /\ DOMAIN posts' = 1 .. Len(posts')
  BY <1>1, <1>3, LenProperties
<1>5. posts' # << >>
  BY <1>3, <1>4, EmptySeq
<1> QED
  BY <1>3, <1>4, <1>5 DEF Newest

LEMMA StateFacts ==
  ASSUME TypeOK, NEW k \in DOMAIN posts, NEW st \in {"sent", "stored", "failed"},
         posts' = [posts EXCEPT ![k].state = st]
  PROVE  /\ posts' \in Seq(Posted) /\ Len(posts) \in Nat /\ Len(posts') = Len(posts)
         /\ DOMAIN posts = 1 .. Len(posts) /\ DOMAIN posts' = DOMAIN posts
         /\ \A j \in DOMAIN posts :
              /\ posts'[j].doc = posts[j].doc /\ posts'[j].page = posts[j].page
              /\ posts'[j].blind = posts[j].blind
              /\ posts'[j].state = IF j = k THEN st ELSE posts[j].state
         /\ posts # << >> /\ Len(posts) \in DOMAIN posts
<1> DEFINE q == [posts EXCEPT ![k].state = st]
           n == Len(posts)
<1>1. posts \in Seq(Posted)
  BY DEF TypeOK, Posted
<1>2. n \in Nat /\ posts \in [1 .. n -> Posted] /\ DOMAIN posts = 1 .. n
  BY <1>1, LenProperties
<1> HIDE DEF n
<1>3. q \in [1 .. n -> Posted]
  BY <1>2 DEF Posted
<1>4. q \in Seq(Posted) /\ Len(q) = n
  BY <1>2, <1>3, IsASeq, LenProperties
<1>5. \A j \in 1 .. n :
        /\ q[j].doc = posts[j].doc /\ q[j].page = posts[j].page /\ q[j].blind = posts[j].blind
        /\ q[j].state = IF j = k THEN st ELSE posts[j].state
  BY <1>2 DEF Posted
<1>6. posts # << >> /\ n \in 1 .. n
  BY <1>1, <1>2, EmptySeq DEF n
<1> QED
  BY <1>2, <1>3, <1>4, <1>5, <1>6 DEF n

LEMMA AnswerFacts ==
  ASSUME TypeOK, NEW k \in DOMAIN posts, posts' = RemoveAt(posts, k)
  PROVE  /\ posts' \in Seq(Posted) /\ Len(posts) \in Nat /\ Len(posts') = Len(posts) - 1
         /\ k \in 1 .. Len(posts)
         /\ DOMAIN posts = 1 .. Len(posts) /\ DOMAIN posts' = 1 .. Len(posts) - 1
         /\ \A j \in 1 .. Len(posts) - 1 : posts'[j] = IF j < k THEN posts[j] ELSE posts[j + 1]
         /\ posts' # << >> <=> Len(posts) > 1
<1>1. posts \in Seq(Posted)
  BY DEF TypeOK, Posted
<1>2. Len(posts) \in Nat /\ DOMAIN posts = 1 .. Len(posts)
  BY <1>1, LenProperties
<1>3. /\ posts' \in Seq(Posted) /\ Len(posts') = Len(posts) - 1
      /\ \A j \in 1 .. Len(posts) - 1 : posts'[j] = IF j < k THEN posts[j] ELSE posts[j + 1]
  BY <1>1, <1>2, RemoveAtProperties
<1>4. DOMAIN posts' = 1 .. Len(posts) - 1
  BY <1>3, LenProperties
<1>5. posts' # << >> <=> Len(posts) > 1
  BY <1>2, <1>3, EmptySeq
<1> QED
  BY <1>2, <1>3, <1>4, <1>5

\* The page that is left no longer listens.
LEMMA CloseFacts ==
  ASSUME TypeOK, posts' = [k \in DOMAIN posts |-> [posts[k] EXCEPT !.page = FALSE]]
  PROVE  /\ posts' \in Seq(Posted) /\ Len(posts') = Len(posts) /\ DOMAIN posts' = DOMAIN posts
         /\ Len(posts) \in Nat /\ DOMAIN posts = 1 .. Len(posts)
         /\ \A k \in DOMAIN posts : /\ posts'[k].doc = posts[k].doc /\ posts'[k].state = posts[k].state
                                   /\ posts'[k].blind = posts[k].blind
         /\ posts' # << >> <=> posts # << >>
<1> DEFINE q == [k \in DOMAIN posts |-> [posts[k] EXCEPT !.page = FALSE]]
           n == Len(posts)
<1>1. posts \in Seq(Posted)
  BY DEF TypeOK, Posted
<1>2. n \in Nat /\ posts \in [1 .. n -> Posted] /\ DOMAIN posts = 1 .. n
  BY <1>1, LenProperties
<1> HIDE DEF n
<1>3. \A k \in 1 .. n : /\ q[k] \in Posted /\ q[k].doc = posts[k].doc /\ q[k].state = posts[k].state
                        /\ q[k].blind = posts[k].blind
  BY <1>2 DEF Posted
<1>4. q \in [1 .. n -> Posted]
  BY <1>2, <1>3
<1> HIDE DEF q
<1>5. q \in Seq(Posted) /\ Len(q) = n
  BY <1>2, <1>4, IsASeq, LenProperties
<1>6. posts' # << >> <=> posts # << >>
  BY <1>1, <1>2, <1>5, EmptySeq DEF n, q
<1> QED
  BY <1>2, <1>3, <1>4, <1>5, <1>6 DEF n, q

LEMMA TypeStep ==
  ASSUME Constants, TypeOK, [Next]_vars
  PROVE  TypeOK'
<1> USE DEF Posted
<1>1. CASE Open
  BY <1>1, DefaultIsDocument DEF Open, TypeOK
<1>2. CASE PanelReads
  BY <1>2 DEF PanelReads, TypeOK, ui
<1>3. CASE Restore
  <2> DEFINE ws == Parsed(read)
             l == LayoutIn(ws, ws.activeId)
  <2>1. ws \in Document
    BY ParsedIsDocument DEF TypeOK
  <2>2. l \in Nat /\ \A b \in IdsOf(ws) : LayoutIn(ws, b) \in Nat
    BY <2>1, PlaceOfBoard, DocumentFields
  <2>3. Rendered(ws, l, TRUE)
    BY <1>3 DEF Restore
  <2>4. /\ made' = [b \in Boards |-> IF b \in IdsOf(ws) THEN LayoutIn(ws, b) ELSE 0]
        /\ removed' \subseteq removed \cup IdsOf(workspace) /\ read' = NoDoc
        /\ load' = "no" /\ blind' \in BOOLEAN /\ UNCHANGED << stored, posts, page, edits, faults, languages >>
    BY <1>3 DEF Restore
  <2> HIDE DEF ws, l
  <2>5. /\ workspace' \in Document /\ layout' \in Nat /\ layoutReady' = TRUE
        /\ layoutSaved' = FALSE /\ timer' \in Document
    BY <2>1, <2>2, <2>3, RenderedFacts
  <2>6. made' \in [Boards -> Nat]
    BY <2>2, <2>4
  <2>7. removed' \subseteq Boards
    BY <2>4, DocumentFields DEF TypeOK
  <2> QED
    BY <2>4, <2>5, <2>6, <2>7 DEF TypeOK
<1>4. CASE Shown
  BY <1>4 DEF Shown, TypeOK, ui
<1>5. CASE Language
  BY <1>5 DEF Language, TypeOK, ui
<1>6. CASE Close
  <2>1. posts' \in Seq(Posted)
    BY <1>6, CloseFacts DEF Close
  <2>2. /\ page' = "closed" /\ timer' = NoDoc /\ load' = "no" /\ read' = NoDoc
        /\ layoutReady' = FALSE /\ layoutSaved' = TRUE /\ blind' = FALSE /\ faults' = faults + 1
        /\ UNCHANGED << stored, workspace, layout, edits, languages, made, removed >>
    BY <1>6 DEF Close
  <2>3. stored' = stored /\ workspace' = workspace /\ layout' = layout /\ edits' = edits
    BY <2>2
  <2>4. languages' = languages /\ made' = made /\ removed' = removed
    BY <2>2
  <2>5. /\ timer' \in Document \cup {NoDoc} /\ read' \in Document \cup {NoDoc}
        /\ layoutReady' \in BOOLEAN /\ layoutSaved' \in BOOLEAN /\ blind' \in BOOLEAN
        /\ load' \in {"no", "asked", "read", "failed"} /\ page' \in {"closed", "loading", "shown"}
    BY ONLY <2>2
  <2>6. faults' \in Nat
    BY <2>2 DEF TypeOK
  <2>7. /\ stored' \in Document \cup {NoDoc} /\ workspace' \in Document /\ layout' \in Nat
        /\ edits' \in Nat /\ languages' \in Nat /\ made' \in [Boards -> Nat] /\ removed' \subseteq Boards
    BY <2>3, <2>4 DEF TypeOK
  <2> QED
    BY ONLY <2>1, <2>5, <2>6, <2>7 DEF TypeOK
<1>7. CASE Edit
  <2>1. Edited
    BY <1>7, EditFacts
  <2>2. UNCHANGED languages /\ UNCHANGED faults
    BY <2>1 DEF Edited
  <2> QED
    BY <2>1, <2>2 DEF Edited, TypeOK
<1>8. CASE Done
  <2>1. Screen \in Document /\ Post(Screen)
    BY <1>8, ScreenIsDocument DEF TypeOK, Done
  <2>2. posts' \in Seq(Posted)
    BY <2>1, PostFacts
  <2> QED
    BY <1>8, <2>2 DEF Done, TypeOK, ui
<1>9. CASE TimerFires
  <2>1. timer \in Document /\ Post(timer)
    BY <1>9 DEF TypeOK, TimerFires
  <2>2. posts' \in Seq(Posted)
    BY <2>1, PostFacts
  <2> QED
    BY <1>9, <2>2 DEF TimerFires, TypeOK, ui
<1>10. ASSUME NEW k \in 1 .. MaxPosts, PanelStores(k)
       PROVE  TypeOK'
  <2>1. k \in DOMAIN posts /\ posts' = [posts EXCEPT ![k].state = "stored"]
    BY <1>10 DEF PanelStores, First
  <2>2. posts' \in Seq(Posted) /\ DOMAIN posts = 1 .. Len(posts)
    BY <2>1, StateFacts
  <2>3. posts[k].doc \in Document
    BY <2>1, <2>2, ElementOfSeq DEF TypeOK
  <2> QED
    BY <1>10, <2>2, <2>3 DEF PanelStores, TypeOK, ui
<1>11. ASSUME NEW k \in 1 .. MaxPosts, Answer(k)
       PROVE  TypeOK'
  <2>1. k \in DOMAIN posts /\ posts' = RemoveAt(posts, k)
    BY <1>11 DEF Answer, Answerable
  <2>2. posts' \in Seq(Posted)
    BY <2>1, AnswerFacts
  <2>3. layoutSaved' \in BOOLEAN
    BY <1>11 DEF Answer, TypeOK
  <2> QED
    BY <1>11, <2>2, <2>3 DEF Answer, TypeOK, ui
<1>12. ASSUME NEW k \in 1 .. MaxPosts, PostFails(k)
       PROVE  TypeOK'
  <2>1. k \in DOMAIN posts /\ posts' = [posts EXCEPT ![k].state = "failed"]
    BY <1>12 DEF PostFails
  <2>2. posts' \in Seq(Posted)
    BY <2>1, StateFacts
  <2> QED
    BY <1>12, <2>2 DEF PostFails, TypeOK, ui
<1>13. CASE UNCHANGED vars
  BY <1>13 DEF vars, ui, TypeOK
<1>14. CASE RestoreSkipped
  BY <1>14 DEF RestoreSkipped, TypeOK, ui
<1> QED
  BY <1>1, <1>2, <1>3, <1>4, <1>5, <1>6, <1>7, <1>8, <1>9, <1>10, <1>11, <1>12, <1>13, <1>14
     DEF Next, User, Saving

\* Whatever the page shows, posts or has stored is a document parseWorkspace
\* would give back as it is: its boards differ and one of them is on screen,
\* through every edit, switch, removal and restore.
THEOREM TypeCorrect == Spec => []TypeOK
<1>1. Init => TypeOK
  <2> SUFFICES ASSUME Init PROVE TypeOK
    OBVIOUS
  <2>1. stored \in Document \cup {NoDoc} /\ Default \in Document
    BY ConstantsHold, DefaultIsDocument DEF Init, Constants, DocumentAssumption
  <2>2. /\ posts = << >>
        /\ << >> \in Seq([doc : Document, state : {"sent", "stored", "failed"}, page : BOOLEAN, blind : BOOLEAN])
    BY DEF Init
  <2>3. made \in [Boards -> Nat] /\ removed \subseteq Boards
    BY DEF Init
  <2> QED
    BY <2>1, <2>2, <2>3 DEF Init, TypeOK
<1>2. TypeOK /\ [Next]_vars => TypeOK'
  BY ConstantsHold, TypeStep
<1> QED
  BY <1>1, <1>2, PTL DEF Spec

---------------------------------------------------------------------------
(* A "saved" that has come to rest is true                                  *)

\* The queue stays in order: what a step appends is only sent, what it stores
\* was the oldest sent, what it drops was the first.
LEMMA QueueStep ==
  ASSUME InOrder, TypeOK, QueueInv, Constants, [Next]_vars
  PROVE  QueueInv'
<1>1. ASSUME UNCHANGED << posts, stored >>
      PROVE  QueueInv'
  BY <1>1 DEF QueueInv, Sent, Newest
<1>2. ASSUME NEW d \in Document, Post(d), stored' = stored
      PROVE  QueueInv'
  <2>1. /\ Len(posts) \in Nat /\ DOMAIN posts = 1 .. Len(posts) /\ DOMAIN posts' = 1 .. Len(posts) + 1
        /\ \A k \in 1 .. Len(posts) : posts'[k] = posts[k]
        /\ posts'[Len(posts) + 1] = PostOf(d) /\ Newest' = PostOf(d) /\ PostOf(d).state = "sent"
    BY <1>2, PostFacts DEF PostOf
  <2>2. Newest'.state = "sent" /\ \A k \in DOMAIN posts' : k \in DOMAIN posts \/ k = Len(posts) + 1
    BY <2>1
  <2>3. \A j, k \in DOMAIN posts' : j < k /\ posts'[j].state = "sent" => posts'[k].state # "stored"
    <3> SUFFICES ASSUME NEW j \in DOMAIN posts', NEW k \in DOMAIN posts', j < k, posts'[j].state = "sent"
                 PROVE  posts'[k].state # "stored"
      OBVIOUS
    <3>1. CASE k = Len(posts) + 1
      BY <2>1, <3>1
    <3>2. CASE k \in DOMAIN posts
      <4>1. j \in DOMAIN posts /\ posts'[j] = posts[j] /\ posts'[k] = posts[k]
        BY <2>1, <3>2
      <4> QED
        BY <3>2, <4>1 DEF QueueInv, Sent
    <3> QED
      BY <2>2, <3>1, <3>2
  <2> QED
    BY <2>2, <2>3 DEF QueueInv, Sent
<1>3. CASE Close
  <2>1. /\ Len(posts') = Len(posts) /\ DOMAIN posts' = DOMAIN posts /\ stored' = stored
        /\ Len(posts) \in Nat /\ DOMAIN posts = 1 .. Len(posts)
        /\ \A k \in DOMAIN posts : posts'[k].doc = posts[k].doc /\ posts'[k].state = posts[k].state
        /\ posts' # << >> <=> posts # << >>
    BY <1>3, CloseFacts DEF Close
  <2>2. posts # << >> => Len(posts) \in DOMAIN posts
    BY <2>1, EmptySeq DEF TypeOK
  <2> QED
    BY <2>1, <2>2 DEF QueueInv, Sent, Newest
<1>4. ASSUME NEW k \in 1 .. MaxPosts, PanelStores(k)
      PROVE  QueueInv'
  <2>1. /\ k \in DOMAIN posts /\ posts[k].state = "sent" /\ stored' = posts[k].doc
        /\ posts' = [posts EXCEPT ![k].state = "stored"]
        /\ \A j \in 1 .. k - 1 : posts[j].state # "sent"
    BY <1>4 DEF PanelStores, First
  <2>2. /\ Len(posts) \in Nat /\ Len(posts') = Len(posts)
        /\ DOMAIN posts = 1 .. Len(posts) /\ DOMAIN posts' = DOMAIN posts
        /\ \A j \in DOMAIN posts :
              posts'[j].doc = posts[j].doc /\ posts'[j].state = IF j = k THEN "stored" ELSE posts[j].state
        /\ posts # << >> /\ Len(posts) \in DOMAIN posts
    BY <2>1, StateFacts
  <2>3. \A i, j \in DOMAIN posts : i < j /\ posts'[i].state = "sent" => posts'[j].state # "stored"
    <3> SUFFICES ASSUME NEW i \in DOMAIN posts, NEW j \in DOMAIN posts, i < j, posts'[i].state = "sent"
                 PROVE  posts'[j].state # "stored"
      OBVIOUS
    <3>1. i # k /\ posts[i].state = "sent"
      BY <2>2
    <3>2. j # k
      BY <2>1, <2>2, <3>1
    <3> QED
      BY <2>2, <3>1, <3>2 DEF QueueInv, Sent
  <2>4. Newest'.state = "stored" => stored' = Newest'.doc
    <3>1. CASE k = Len(posts)
      BY <2>1, <2>2, <3>1 DEF Newest
    <3>2. CASE k # Len(posts)
      <4>1. k < Len(posts) /\ Newest'.state = Newest.state
        BY <2>1, <2>2, <3>2 DEF Newest
      <4> QED
        BY <2>1, <2>2, <4>1 DEF QueueInv, Sent, Newest
    <3> QED
      BY <3>1, <3>2
  <2> QED
    BY <2>2, <2>3, <2>4 DEF QueueInv, Sent
<1>5. ASSUME NEW k \in 1 .. MaxPosts, PostFails(k)
      PROVE  QueueInv'
  <2>1. /\ k \in DOMAIN posts /\ stored' = stored
        /\ posts' = [posts EXCEPT ![k].state = "failed"]
    BY <1>5 DEF PostFails
  <2>2. /\ Len(posts) \in Nat /\ Len(posts') = Len(posts) /\ DOMAIN posts' = DOMAIN posts
        /\ \A j \in DOMAIN posts :
              posts'[j].doc = posts[j].doc /\ posts'[j].state = IF j = k THEN "failed" ELSE posts[j].state
        /\ posts # << >> /\ Len(posts) \in DOMAIN posts
    BY <2>1, StateFacts
  <2> QED
    BY <2>1, <2>2 DEF QueueInv, Sent, Newest
<1>6. ASSUME NEW k \in 1 .. MaxPosts, Answer(k)
      PROVE  QueueInv'
  <2>1. k \in DOMAIN posts /\ k = 1 /\ posts' = RemoveAt(posts, k) /\ stored' = stored
    BY <1>6 DEF Answer, Answerable
  <2>2. /\ Len(posts) \in Nat /\ Len(posts') = Len(posts) - 1
        /\ DOMAIN posts = 1 .. Len(posts) /\ DOMAIN posts' = 1 .. Len(posts) - 1
        /\ \A j \in 1 .. Len(posts) - 1 : posts'[j] = posts[j + 1]
        /\ posts' # << >> <=> Len(posts) > 1
    BY <2>1, AnswerFacts
  <2>3. \A j \in DOMAIN posts' : j + 1 \in DOMAIN posts
    BY <2>2
  <2>4. \A i, j \in DOMAIN posts' : i < j /\ posts'[i].state = "sent" => posts'[j].state # "stored"
    BY <2>2, <2>3 DEF QueueInv, Sent
  <2>5. posts' # << >> => posts # << >> /\ Newest' = Newest
    <3> SUFFICES ASSUME Len(posts) > 1 PROVE posts # << >> /\ Newest' = Newest
      BY <2>2
    <3>1. Len(posts) - 1 \in 1 .. Len(posts) - 1 /\ (Len(posts) - 1) + 1 = Len(posts)
      BY <2>2
    <3> QED
      BY <2>2, <3>1, EmptySeq DEF Newest
  <2> QED
    BY <2>1, <2>4, <2>5 DEF QueueInv, Sent
<1>7. CASE Edit
  BY <1>1, <1>7, EditFacts DEF Edited
<1>8. CASE Done
  BY <1>2, <1>8, ScreenIsDocument DEF Done, TypeOK
<1>9. CASE TimerFires
  BY <1>2, <1>9 DEF TimerFires, TypeOK
<1> QED
  BY <1>1, <1>3, <1>4, <1>5, <1>6, <1>7, <1>8, <1>9
     DEF Next, User, Saving, Open, PanelReads, Restore, RestoreSkipped, Shown, Language, vars

\* A page with its boards restored keeps its screen on its way, and knows what was made.
LEMMA SettleStep ==
  ASSUME InOrder, Constants, TypeOK, SettleInv, [Next]_vars
  PROVE  SettleInv'
<1>1. QueueInv'
  BY QueueStep DEF SettleInv
<1> SUFFICES ASSUME layoutReady'
             PROVE  OnItsWay' /\ AsMade'
  BY <1>1 DEF SettleInv
<1>2. ASSUME UNCHANGED << stored, ui, layoutSaved, timer, posts, made >>
      PROVE  OnItsWay' /\ AsMade'
  BY <1>2 DEF SettleInv, OnItsWay, AsMade, Screen, Newest, ui
<1>3. CASE Open \/ Close
  BY <1>3 DEF Open, Close
<1>4. CASE PanelReads \/ RestoreSkipped \/ Shown \/ Language
  BY <1>2, <1>4 DEF PanelReads, RestoreSkipped, Shown, Language
<1>5. CASE Restore
  <2> DEFINE ws == Parsed(read)
             l == LayoutIn(ws, ws.activeId)
  <2>1. ws \in Document
    BY ParsedIsDocument DEF TypeOK
  <2>2. l \in Nat
    BY <2>1, PlaceOfBoard, DocumentFields
  <2>3. /\ Rendered(ws, l, TRUE)
        /\ made' = [b \in Boards |-> IF b \in IdsOf(ws) THEN LayoutIn(ws, b) ELSE 0]
    BY <1>5 DEF Restore
  <2>4. l = LayoutIn(ws, ws.activeId)
    OBVIOUS
  <2> HIDE DEF ws, l
  <2>5. workspace' = ws /\ layout' = l /\ timer' = Screen' /\ timer' # NoDoc
    BY <2>1, <2>2, <2>3, RenderedFacts
  <2>6. AsMade'
    <3> SUFFICES ASSUME NEW k \in DOMAIN ws.boards
                 PROVE  made'[ws.boards[k].id] =
                          IF ws.boards[k].id = ws.activeId THEN l ELSE ws.boards[k].layout
      BY <2>5 DEF AsMade
    <3>1. ws.boards[k].id \in IdsOf(ws) /\ ws.boards[k].id \in Boards
      BY <2>1, DocumentFields DEF IdsOf
    <3>2. ws.boards[k].layout = LayoutIn(ws, ws.boards[k].id)
      BY <2>1, <3>1, PlaceOfBoard
    <3> QED
      BY <2>3, <2>4, <3>1, <3>2
  <2> QED
    BY <2>5, <2>6 DEF OnItsWay
<1>6. CASE Edit
  <2>1. Edited
    BY <1>6, EditFacts
  <2>2. layoutReady
    BY <2>1 DEF Edited
  <2> QED
    BY <2>1, <2>2 DEF Edited, OnItsWay, SettleInv
<1>7. CASE Done
  <2>1. /\ layoutReady /\ Post(Screen) /\ Screen \in Document
        /\ UNCHANGED << stored, ui, layoutSaved, timer, made >>
    BY <1>7, ScreenIsDocument DEF Done, TypeOK, ui
  <2>2. posts' # << >> /\ Newest' = PostOf(Screen)
    BY <2>1, PostFacts
  <2> QED
    BY <2>1, <2>2 DEF SettleInv, OnItsWay, AsMade, Screen, PostOf, ui
<1>8. CASE TimerFires
  <2>1. /\ layoutReady /\ timer # NoDoc /\ Post(timer) /\ timer \in Document
        /\ timer' = NoDoc /\ UNCHANGED << stored, ui, layoutSaved, made >>
    BY <1>8 DEF TimerFires, TypeOK, ui
  <2>2. timer = Screen
    BY <2>1 DEF SettleInv, OnItsWay
  <2>3. posts' # << >> /\ Newest' = PostOf(Screen)
    BY <2>1, <2>2, PostFacts
  <2> QED
    BY <2>1, <2>3 DEF SettleInv, OnItsWay, AsMade, Screen, PostOf, ui
<1>9. ASSUME NEW k, NEW st \in {"stored", "failed"}, k \in DOMAIN posts,
             posts' = [posts EXCEPT ![k].state = st],
             UNCHANGED << ui, layoutSaved, timer, made >>
      PROVE  OnItsWay' /\ AsMade'
  <2>1. /\ Len(posts') = Len(posts) /\ posts # << >> /\ Len(posts) \in DOMAIN posts
        /\ \A j \in DOMAIN posts : posts'[j].doc = posts[j].doc /\ posts'[j].page = posts[j].page
        /\ posts' # << >>
    <3>1. /\ posts' \in Seq(Posted) /\ Len(posts') = Len(posts) /\ posts # << >>
          /\ Len(posts) \in DOMAIN posts /\ DOMAIN posts = 1 .. Len(posts)
          /\ \A j \in DOMAIN posts : posts'[j].doc = posts[j].doc /\ posts'[j].page = posts[j].page
      BY <1>9, StateFacts
    <3> QED
      BY <3>1, EmptySeq
  <2>2. Newest'.doc = Newest.doc /\ Newest'.page = Newest.page
    BY <2>1 DEF Newest
  <2> QED
    BY <1>9, <2>1, <2>2 DEF SettleInv, OnItsWay, AsMade, Screen, ui
<1>10. ASSUME NEW k \in 1 .. MaxPosts, PanelStores(k)
       PROVE  OnItsWay' /\ AsMade'
  BY <1>9, <1>10 DEF PanelStores, First
<1>11. ASSUME NEW k \in 1 .. MaxPosts, PostFails(k)
       PROVE  OnItsWay' /\ AsMade'
  BY <1>9, <1>11 DEF PostFails
<1>12. ASSUME NEW k \in 1 .. MaxPosts, Answer(k)
       PROVE  OnItsWay' /\ AsMade'
  <2>1. /\ k \in DOMAIN posts /\ k = 1 /\ posts' = RemoveAt(posts, k)
        /\ layoutSaved' = IF posts[1].page THEN posts[1].state = "stored" ELSE layoutSaved
        /\ layoutReady /\ UNCHANGED << stored, ui, timer, load, page, made >>
    BY <1>12 DEF Answer, Answerable, ui
  <2>2. /\ Len(posts) \in Nat /\ Len(posts) >= 1 /\ Len(posts') = Len(posts) - 1
        /\ \A j \in 1 .. Len(posts) - 1 : posts'[j] = posts[j + 1]
        /\ posts' # << >> <=> Len(posts) > 1
    BY <2>1, AnswerFacts
  <2>3. OnItsWay /\ AsMade /\ QueueInv /\ posts # << >>
    BY <2>1, <2>2, EmptySeq DEF SettleInv
  <2>4. posts' # << >> => Newest' = Newest
    <3> SUFFICES ASSUME Len(posts) > 1 PROVE Newest' = Newest
      BY <2>2
    <3>1. Len(posts) - 1 \in 1 .. Len(posts) - 1 /\ (Len(posts) - 1) + 1 = Len(posts)
      BY <2>2
    <3> QED
      BY <2>2, <3>1 DEF Newest
  <2>5. posts' = << >> => Newest = posts[1]
    BY <2>2 DEF Newest
  <2>6. Screen' = Screen /\ AsMade'
    BY <2>1, <2>3 DEF Screen, AsMade, ui
  <2>7. ASSUME timer = NoDoc, posts' = << >>, layoutSaved'
        PROVE  stored = Screen
    BY <2>1, <2>3, <2>5, <2>7 DEF OnItsWay, QueueInv
  <2> QED
    BY <2>1, <2>3, <2>4, <2>6, <2>7 DEF OnItsWay
<1>13. CASE UNCHANGED vars
  BY <1>2, <1>13 DEF vars
<1> QED
  BY <1>3, <1>4, <1>5, <1>6, <1>7, <1>8, <1>10, <1>11, <1>12, <1>13 DEF Next, User, Saving

\* What the panel has is the screen, board by board as the user knows it.
LEMMA Settled ==
  ASSUME Constants, TypeOK, SettleInv
  PROVE  SettledIsStored
<1> SUFFICES ASSUME layoutReady, layoutSaved, timer = NoDoc, posts = << >>
             PROVE  stored = Screen /\ \A b \in IdsOf(stored) : LayoutIn(stored, b) = made[b]
  BY DEF SettledIsStored, SavedAtRest
<1>1. stored = Screen /\ AsMade
  BY DEF SettleInv, OnItsWay
<1>2. ASSUME NEW b \in IdsOf(Screen)
      PROVE  LayoutIn(Screen, b) = made[b]
  <2>1. Screen \in Document /\ workspace \in Document
    BY ScreenIsDocument DEF TypeOK
  <2>2. PICK k \in DOMAIN Screen.boards : Screen.boards[k].id = b
    BY <1>2 DEF IdsOf
  <2>3. Screen.boards[k].layout = LayoutIn(Screen, b)
    BY <1>2, <2>1, <2>2, PlaceOfBoard
  <2>4. made[b] = Screen.boards[k].layout
    BY <1>1, <2>2, ScreenBoards DEF AsMade
  <2> QED
    BY <2>3, <2>4
<1> QED
  BY <1>1, <1>2

\* With requests taken in order: once the label says "saved" and nothing is on
\* its way any more, the panel has what the screen shows, whatever was edited,
\* switched, removed, restored, failed or answered late before, on any page
\* that has come to restore its boards.
THEOREM SavedIsTrue ==
  ASSUME InOrder
  PROVE  Spec => []SettledIsStored
<1>1. Init => SettleInv
  BY DEF Init, SettleInv, QueueInv
<1>2. TypeOK /\ SettleInv /\ [Next]_vars => SettleInv'
  BY ConstantsHold, SettleStep
<1>3. TypeOK /\ SettleInv => SettledIsStored
  BY ConstantsHold, Settled
<1> QED
  BY <1>1, <1>2, <1>3, TypeCorrect, PTL DEF Spec

---------------------------------------------------------------------------
(* A board leaves the panel by the user's hand only                         *)

LEMMA WithinGrows ==
  ASSUME NEW d, removed \subseteq removed', IdsOf(workspace) \subseteq IdsOf(workspace') \cup removed',
         Within(d, workspace)
  PROVE  Within(d, workspace)'
BY DEF Within

\* The chain is about what is stored and posted, and what was removed.
LEMMA ChainStays ==
  ASSUME ChainInv, UNCHANGED << posts, stored >>, removed \subseteq removed'
  PROVE  ChainInv'
BY DEF ChainInv, Sent, Within

\* What the page knows stays with what it shows.
LEMMA PageStays ==
  ASSUME PageInv, ReadInv, UNCHANGED << ui, timer, posts, stored, load, read, page, removed, blind >>
  PROVE  PageInv' /\ ReadInv'
<1>1. workspace' = workspace /\ layoutReady' = layoutReady /\ Screen' = Screen
  BY DEF Screen, ui
<1> QED
  BY <1>1 DEF PageInv, ReadInv, SentWithin, Sent, Within

\* A post of the screen is within reach of everything stored or sent, unless
\* the page could not read.
LEMMA PostStep ==
  ASSUME Constants, TypeOK, BoardsInv, Post(Screen), layoutReady \/ blind, page # "closed",
         page = "loading" => layoutReady,
         UNCHANGED << stored, workspace, layout, layoutReady, load, read, page, removed, blind >>,
         timer' \in {timer, NoDoc}
  PROVE  BoardsInv'
<1>1. Screen \in Document /\ IdsOf(Screen) = IdsOf(workspace) /\ Screen' = Screen
  BY ScreenIsDocument DEF TypeOK, Screen
<1>2. /\ Len(posts) \in Nat /\ DOMAIN posts = 1 .. Len(posts) /\ DOMAIN posts' = 1 .. Len(posts) + 1
      /\ \A k \in 1 .. Len(posts) : posts'[k] = posts[k]
      /\ posts'[Len(posts) + 1] = PostOf(Screen) /\ PostOf(Screen).doc = Screen
      /\ PostOf(Screen).blind = blind
  BY <1>1, PostFacts DEF PostOf
<1>3. \A k \in DOMAIN posts' : k \in DOMAIN posts \/ k = Len(posts) + 1
  BY <1>2
<1>4. SentWithin(workspace) => SentWithin(workspace)'
  BY <1>1, <1>2, <1>3 DEF SentWithin, Sent, Within
<1>5. (stored # NoDoc => Within(stored, workspace)) => (stored # NoDoc => Within(stored, workspace))'
  BY DEF Within
<1>6. ReadInv'
  BY <1>4, <1>5 DEF BoardsInv, ReadInv
<1>7. PageInv'
  <2>1. page = "loading" /\ load = "read" => FALSE
    BY DEF BoardsInv, PageInv
  <2> QED
    BY <1>1, <2>1 DEF BoardsInv, PageInv
<1>8. ASSUME NEW k \in DOMAIN posts', Sent(k)', ~posts'[k].blind
      PROVE  /\ stored # NoDoc => Within(stored, posts[k].doc)'
             /\ \A j \in DOMAIN posts' : j < k /\ Sent(j)' => Within(posts[j].doc, posts[k].doc)'
  <2>1. CASE k = Len(posts) + 1
    <3>1. ~blind /\ posts'[k].doc = Screen
      BY <1>2, <1>8, <2>1
    <3>2. (stored # NoDoc => Within(stored, workspace)) /\ SentWithin(workspace)
      BY <3>1 DEF BoardsInv, ReadInv
    <3>3. \A j \in DOMAIN posts' : j < k /\ Sent(j)' => j \in DOMAIN posts /\ Sent(j) /\ posts'[j] = posts[j]
      BY <1>2, <2>1 DEF Sent
    <3> QED
      BY <1>1, <3>1, <3>2, <3>3 DEF SentWithin, Within
  <2>2. CASE k \in DOMAIN posts
    <3>1. posts'[k] = posts[k] /\ Sent(k) /\ ~posts[k].blind
      BY <1>2, <1>8, <2>2 DEF Sent
    <3>2. \A j \in DOMAIN posts' : j < k /\ Sent(j)' => j \in DOMAIN posts /\ Sent(j) /\ posts'[j] = posts[j]
      BY <1>2, <2>2 DEF Sent
    <3> QED
      BY <2>2, <3>1, <3>2 DEF BoardsInv, ChainInv, Within
  <2> QED
    BY <1>3, <2>1, <2>2
<1>9. ChainInv'
  BY <1>8 DEF ChainInv
<1> QED
  BY <1>6, <1>7, <1>9 DEF BoardsInv

\* Posts that are answered or fail leave the others as they were, in their order.
LEMMA FewerStep ==
  ASSUME BoardsInv, NEW f,
         UNCHANGED << stored, ui, timer, load, read, page, removed, blind >>,
         \A k \in DOMAIN posts' :
           /\ f[k] \in DOMAIN posts /\ posts'[k].doc = posts[f[k]].doc
           /\ posts'[k].blind = posts[f[k]].blind /\ (Sent(k)' => Sent(f[k])),
         \A j, k \in DOMAIN posts' : j < k => f[j] < f[k]
  PROVE  BoardsInv'
<1>1. workspace' = workspace /\ layoutReady' = layoutReady /\ Screen' = Screen /\ removed' = removed
  BY DEF ui, Screen
<1>2. ChainInv'
  <2> SUFFICES ASSUME NEW k \in DOMAIN posts', Sent(k)', ~posts'[k].blind
               PROVE  /\ stored # NoDoc => Within(stored, posts[k].doc)'
                      /\ \A j \in DOMAIN posts' : j < k /\ Sent(j)' => Within(posts[j].doc, posts[k].doc)'
    BY DEF ChainInv
  <2>1. f[k] \in DOMAIN posts /\ Sent(f[k]) /\ ~posts[f[k]].blind /\ posts'[k].doc = posts[f[k]].doc
    OBVIOUS
  <2>2. \A j \in DOMAIN posts' :
          j < k /\ Sent(j)' => /\ f[j] \in DOMAIN posts /\ Sent(f[j]) /\ f[j] < f[k]
                               /\ posts'[j].doc = posts[f[j]].doc
    OBVIOUS
  <2> QED
    BY <1>1, <2>1, <2>2 DEF BoardsInv, ChainInv, Within
<1>3. ASSUME \A k \in DOMAIN posts : ~Sent(k)
      PROVE  \A k \in DOMAIN posts' : ~Sent(k)'
  BY <1>3
<1>4. SentWithin(workspace) => SentWithin(workspace)'
  BY <1>1 DEF SentWithin, Within
<1>5. PageInv'
  BY <1>1, <1>3 DEF BoardsInv, PageInv
<1>6. ReadInv'
  BY <1>1, <1>4 DEF BoardsInv, ReadInv, Within
<1> QED
  BY <1>2, <1>5, <1>6 DEF BoardsInv

LEMMA BoardsInvStep ==
  ASSUME InOrder, Constants, TypeOK, BoardsInv, [Next]_vars
  PROVE  BoardsInv'
<1>1. ChainInv /\ PageInv /\ ReadInv
  BY DEF BoardsInv
<1>2. CASE Open
  <2>1. /\ page' = "loading" /\ layoutReady' = FALSE /\ timer' = NoDoc /\ load' = "asked" /\ read' = NoDoc
        /\ UNCHANGED << stored, posts, removed >>
    BY <1>2 DEF Open
  <2>2. PageInv' /\ ReadInv'
    BY <2>1 DEF PageInv, ReadInv
  <2> QED
    BY <1>1, <2>1, <2>2, ChainStays DEF BoardsInv
<1>3. CASE PanelReads
  <2>1. /\ load = "asked" /\ UNCHANGED << stored, ui, timer, posts, page, blind, removed >>
    BY <1>3 DEF PanelReads
  <2>2. \/ load' = "read" /\ read' = stored /\ \A k \in DOMAIN posts : ~Sent(k)
        \/ load' = "failed" /\ read' = read
    BY <1>3 DEF PanelReads, Sent
  <2>3. workspace' = workspace /\ layoutReady' = layoutReady /\ Screen' = Screen
    BY <2>1 DEF Screen, ui
  <2>4. PageInv'
    BY <1>1, <2>1, <2>2, <2>3 DEF PageInv, Sent
  <2>5. load' = "read" => SentWithin(workspace)' /\ (stored # NoDoc => IdsOf(stored) \subseteq IdsOf(Parsed(read')))
    BY <2>1, <2>2 DEF SentWithin, Sent, Parsed
  <2>6. ReadInv'
    BY <1>1, <2>1, <2>2, <2>3, <2>5 DEF ReadInv, SentWithin, Sent, Within, Parsed
  <2> QED
    BY <1>1, <2>1, <2>4, <2>6, ChainStays DEF BoardsInv
<1>4. CASE Restore
  <2> DEFINE ws == Parsed(read)
             l == LayoutIn(ws, ws.activeId)
  <2>1. ws \in Document
    BY ParsedIsDocument DEF TypeOK
  <2>2. l \in Nat
    BY <2>1, PlaceOfBoard, DocumentFields
  <2>3. /\ Rendered(ws, l, TRUE) /\ load \in {"read", "failed"} /\ load' = "no" /\ read' = NoDoc
        /\ blind' = (load = "failed")
        /\ removed' = IF page = "shown" THEN removed \cup (IdsOf(workspace) \ IdsOf(ws)) ELSE removed
        /\ UNCHANGED << stored, posts, page >>
    BY <1>4 DEF Restore
  <2>4. page = "loading" /\ load = "read" /\ stored # NoDoc => ws = stored
    BY <1>1 DEF PageInv, Parsed
  <2>5. page = "shown" /\ load = "read" =>
          /\ stored # NoDoc => IdsOf(stored) \subseteq IdsOf(ws) \cup IdsOf(workspace) \cup removed
          /\ SentWithin(workspace)
    BY <1>1 DEF ReadInv
  <2> HIDE DEF ws, l
  <2>6. workspace' = ws /\ timer' = Screen' /\ layoutReady' = TRUE
    BY <2>1, <2>2, <2>3, RenderedFacts
  <2>7. page \in {"loading", "shown"} /\ removed \subseteq removed'
    BY <1>1, <2>3 DEF PageInv, TypeOK
  <2>8. ChainInv'
    BY <1>1, <2>3, <2>7, ChainStays
  <2>9. ASSUME load = "read"
        PROVE  (stored # NoDoc => Within(stored, workspace)') /\ SentWithin(workspace)'
    <3>1. CASE page = "loading"
      <4>1. \A k \in DOMAIN posts : ~Sent(k)
        BY <1>1, <2>9, <3>1 DEF PageInv
      <4> QED
        BY <2>3, <2>4, <2>6, <2>9, <3>1, <4>1 DEF SentWithin, Sent, Within
    <3>2. CASE page = "shown"
      <4>1. IdsOf(workspace) \subseteq IdsOf(workspace') \cup removed'
        BY <2>3, <2>6, <3>2
      <4>2. SentWithin(workspace)'
        <5> SUFFICES ASSUME NEW k \in DOMAIN posts, Sent(k)
                     PROVE  Within(posts[k].doc, workspace)'
          BY <2>3 DEF SentWithin, Sent
        <5>1. Within(posts[k].doc, workspace)
          BY <2>5, <2>9, <3>2 DEF SentWithin
        <5> QED
          BY <2>3, <2>7, <4>1, <5>1 DEF Within
      <4>3. stored # NoDoc => Within(stored, workspace)'
        BY <2>3, <2>5, <2>6, <2>7, <2>9, <3>2, <4>1 DEF Within
      <4> QED
        BY <4>2, <4>3
    <3> QED
      BY <2>7, <3>1, <3>2
  <2>10. PageInv'
    BY <2>3, <2>6, <2>7 DEF PageInv
  <2>11. ReadInv'
    BY <2>3, <2>9 DEF ReadInv
  <2> QED
    BY <2>8, <2>10, <2>11 DEF BoardsInv
<1>5. CASE RestoreSkipped \/ Shown \/ Language
  <2>1. /\ UNCHANGED << stored, ui, timer, posts, read, removed >>
        /\ \/ load = "asked" /\ load' = "no" /\ blind' = (blind \/ ~layoutReady) /\ page' = page
           \/ page = "loading" /\ load = "no" /\ page' = "shown" /\ UNCHANGED << load, blind >>
           \/ page = "shown" /\ load = "no" /\ load' = "asked" /\ UNCHANGED << page, blind >>
    BY <1>5 DEF RestoreSkipped, Shown, Language
  <2>2. workspace' = workspace /\ layoutReady' = layoutReady /\ Screen' = Screen
    BY <2>1 DEF Screen, ui
  <2>3. PageInv'
    BY <1>1, <2>1, <2>2 DEF PageInv, Sent, TypeOK
  <2>4. ReadInv'
    BY <1>1, <2>1, <2>2 DEF ReadInv, SentWithin, Sent, Within, TypeOK
  <2> QED
    BY <1>1, <2>1, <2>3, <2>4, ChainStays DEF BoardsInv
<1>7. CASE Close
  <2>1. /\ DOMAIN posts' = DOMAIN posts
        /\ \A k \in DOMAIN posts : /\ posts'[k].doc = posts[k].doc /\ posts'[k].state = posts[k].state
                                   /\ posts'[k].blind = posts[k].blind
    BY <1>7, CloseFacts DEF Close
  <2>2. /\ page' = "closed" /\ timer' = NoDoc /\ load' = "no" /\ read' = NoDoc /\ layoutReady' = FALSE
        /\ UNCHANGED << stored, removed >>
    BY <1>7 DEF Close
  <2>3. ChainInv'
    BY <1>1, <2>1, <2>2 DEF ChainInv, Sent, Within
  <2>4. PageInv' /\ ReadInv'
    BY <2>2 DEF PageInv, ReadInv
  <2> QED
    BY <2>3, <2>4 DEF BoardsInv
<1>8. CASE Edit
  <2>1. Edited
    BY <1>8, EditFacts
  <2>2. /\ page = "shown" /\ page' = page /\ layoutReady' = layoutReady /\ load' = load /\ read' = read
        /\ stored' = stored /\ posts' = posts /\ blind' = blind
        /\ layoutReady => timer' = Screen'
        /\ ~layoutReady => timer' = timer
        /\ removed \subseteq removed' /\ IdsOf(workspace) \subseteq IdsOf(workspace') \cup removed'
    BY <2>1 DEF Edited
  <2>3. ChainInv'
    BY <1>1, <2>2, ChainStays
  <2>4. PageInv'
    BY <1>1, <2>2 DEF PageInv
  <2>5. SentWithin(workspace) => SentWithin(workspace)'
    BY <2>2 DEF SentWithin, Sent, Within
  <2>6. Within(stored, workspace) => Within(stored, workspace)'
    BY <2>2 DEF Within
  <2>7. ReadInv'
    BY <1>1, <2>2, <2>5, <2>6 DEF ReadInv
  <2> QED
    BY <2>3, <2>4, <2>7 DEF BoardsInv
<1>9. CASE Done
  <2>1. page = "shown" /\ (layoutReady \/ blind)
    BY <1>1, <1>9 DEF Done, PageInv
  <2> QED
    BY <1>9, <2>1, PostStep DEF Done, ui
<1>10. CASE TimerFires
  <2>1. /\ timer # NoDoc /\ Post(timer) /\ timer' = NoDoc
        /\ UNCHANGED << stored, workspace, layout, layoutReady, load, read, page, removed, blind >>
    BY <1>10 DEF TimerFires, ui
  <2>2. layoutReady /\ timer = Screen /\ page # "closed"
    BY <1>1, <2>1 DEF PageInv
  <2> QED
    BY <2>1, <2>2, PostStep
<1>11. ASSUME NEW k \in 1 .. MaxPosts, PanelStores(k)
       PROVE  BoardsInv'
  <2>1. /\ k \in DOMAIN posts /\ Sent(k) /\ stored' = posts[k].doc
        /\ posts' = [posts EXCEPT ![k].state = "stored"]
        /\ \A j \in 1 .. k - 1 : ~Sent(j)
        /\ UNCHANGED << ui, timer, load, read, page, removed, blind >>
    BY <1>11 DEF PanelStores, First, Sent
  <2>2. /\ DOMAIN posts = 1 .. Len(posts) /\ DOMAIN posts' = DOMAIN posts /\ Len(posts) \in Nat
        /\ \A j \in DOMAIN posts :
             /\ posts'[j].doc = posts[j].doc /\ posts'[j].blind = posts[j].blind
             /\ posts'[j].state = IF j = k THEN "stored" ELSE posts[j].state
    BY <2>1, StateFacts
  <2>3. \A j \in DOMAIN posts : Sent(j)' => Sent(j) /\ k < j
    BY <2>1, <2>2 DEF Sent
  <2>4. Screen' = Screen /\ workspace' = workspace /\ layoutReady' = layoutReady /\ removed' = removed
    BY <2>1 DEF Screen, ui
  <2>5. ChainInv'
    BY <1>1, <2>1, <2>2, <2>3, <2>4 DEF ChainInv, Within
  <2>6. PageInv'
    BY <1>1, <2>1, <2>2, <2>3, <2>4 DEF PageInv
  <2>7. SentWithin(workspace) => SentWithin(workspace)' /\ Within(stored', workspace')
    BY <2>1, <2>2, <2>3, <2>4 DEF SentWithin, Within
  <2>8. ReadInv'
    BY <1>1, <2>1, <2>4, <2>7 DEF ReadInv, Within
  <2> QED
    BY <2>5, <2>6, <2>8 DEF BoardsInv
<1>12. ASSUME NEW k \in 1 .. MaxPosts, PostFails(k)
       PROVE  BoardsInv'
  <2> DEFINE f == [j \in DOMAIN posts' |-> j]
  <2>1. /\ k \in DOMAIN posts /\ posts' = [posts EXCEPT ![k].state = "failed"]
        /\ UNCHANGED << stored, ui, timer, load, read, page, removed, blind >>
    BY <1>12 DEF PostFails
  <2>2. /\ DOMAIN posts' = DOMAIN posts
        /\ \A j \in DOMAIN posts :
             /\ posts'[j].doc = posts[j].doc /\ posts'[j].blind = posts[j].blind
             /\ posts'[j].state = IF j = k THEN "failed" ELSE posts[j].state
    BY <2>1, StateFacts
  <2>3. /\ \A j \in DOMAIN posts' :
             /\ f[j] \in DOMAIN posts /\ posts'[j].doc = posts[f[j]].doc
             /\ posts'[j].blind = posts[f[j]].blind /\ (Sent(j)' => Sent(f[j]))
        /\ \A i, j \in DOMAIN posts' : i < j => f[i] < f[j]
    BY <2>2 DEF Sent
  <2> HIDE DEF f
  <2> QED
    BY <2>1, <2>3, FewerStep
<1>13. ASSUME NEW k \in 1 .. MaxPosts, Answer(k)
       PROVE  BoardsInv'
  <2> DEFINE f == [j \in DOMAIN posts' |-> j + 1]
  <2>1. /\ k \in DOMAIN posts /\ k = 1 /\ posts' = RemoveAt(posts, k)
        /\ UNCHANGED << stored, ui, timer, load, read, page, removed, blind >>
    BY <1>13 DEF Answer, Answerable
  <2>2. /\ Len(posts) \in Nat /\ DOMAIN posts = 1 .. Len(posts) /\ DOMAIN posts' = 1 .. Len(posts) - 1
        /\ \A j \in 1 .. Len(posts) - 1 : posts'[j] = posts[j + 1]
    BY <2>1, AnswerFacts
  <2>3. /\ \A j \in DOMAIN posts' :
             /\ f[j] \in DOMAIN posts /\ posts'[j].doc = posts[f[j]].doc
             /\ posts'[j].blind = posts[f[j]].blind /\ (Sent(j)' => Sent(f[j]))
        /\ \A i, j \in DOMAIN posts' : i < j => f[i] < f[j]
    BY <2>2 DEF Sent
  <2> HIDE DEF f
  <2> QED
    BY <2>1, <2>3, FewerStep
<1>14. CASE UNCHANGED vars
  BY <1>1, <1>14, ChainStays, PageStays DEF vars, BoardsInv
<1> QED
  BY <1>2, <1>3, <1>4, <1>5, <1>7, <1>8, <1>9, <1>10, <1>11, <1>12, <1>13, <1>14
     DEF Next, User, Saving

\* What the panel stores is a post, and that lacks removed boards only.
LEMMA BoardsStepKept ==
  ASSUME Constants, TypeOK, BoardsInv, [Next]_vars
  PROVE  [BoardsStep \/ StoresBlindly]_vars
<1>1. ASSUME stored' = stored
      PROVE  BoardsStep
  BY <1>1 DEF BoardsStep
<1>2. ASSUME NEW k \in 1 .. MaxPosts, PanelStores(k)
      PROVE  BoardsStep \/ StoresBlindly
  <2>1. /\ k \in DOMAIN posts /\ posts[k].state = "sent" /\ stored' = posts[k].doc
        /\ posts' = [posts EXCEPT ![k].state = "stored"]
    BY <1>2 DEF PanelStores, First
  <2>2. CASE posts[k].blind
    BY <2>1, <2>2 DEF StoresBlindly
  <2>3. CASE ~posts[k].blind
    BY <2>1, <2>3 DEF BoardsInv, ChainInv, Sent, Within, BoardsStep
  <2> QED
    BY <2>2, <2>3
<1>3. CASE Edit
  BY <1>1, <1>3, EditFacts DEF Edited
<1> QED
  BY <1>1, <1>2, <1>3 DEF Next, User, Saving, Open, PanelReads, Restore, RestoreSkipped, Shown, Language, Close,
     Done, TimerFires, Answer, PostFails, vars

\* With requests taken in order: a board leaves the panel only when the user
\* has removed it or has seen it go, or with the post of a page that could not
\* read the boards, however many saves of how many pages are on their way.
THEOREM BoardsLeaveByHand ==
  ASSUME InOrder
  PROVE  Spec => OnlyBlindLoses
<1>1. Init => BoardsInv
  BY DEF Init, BoardsInv, ChainInv, PageInv, ReadInv
<1>2. TypeOK /\ BoardsInv /\ [Next]_vars => BoardsInv'
  BY ConstantsHold, BoardsInvStep
<1>3. TypeOK /\ BoardsInv /\ [Next]_vars => [BoardsStep \/ StoresBlindly]_vars
  BY ConstantsHold, BoardsStepKept
<1> QED
  BY <1>1, <1>2, <1>3, TypeCorrect, PTL DEF Spec, OnlyBlindLoses
=============================================================================

--------------------------- MODULE DashboardSave ---------------------------
(***************************************************************************)
(* The boards of the dashboard and how they reach the panel                *)
(* (DashboardPage.tsx, dashboardBuilder.ts, uiPrefs.ts).  A page reads the *)
(* workspace when it opens, keeps it as `workspace` and, for the board on  *)
(* screen, as `layout`, and half a second after the last change posts both *)
(* as one document.  Nobody cancels a request that is under way, and the   *)
(* panel keeps what it is sent.  A layout is a number: its place in the    *)
(* history of edits, 0 for those nobody has edited.                        *)
(***************************************************************************)
EXTENDS Naturals, Sequences, SequencesExt

CONSTANTS
  Boards, Main,       \* board ids, and the id of the board of a fresh page
  Originals,          \* what the panel may hold at first: documents, or NoDoc
  NoDoc,              \* no document: a preference that is not set
  MAX_BOARDS,         \* boards of a workspace (12)
  InOrder,            \* does it take and answer requests in the order they are sent?
  MaxEdits, MaxPosts, MaxFaults, MaxLanguages    \* bounds

ASSUME SaveAssumption ==
  /\ Main \in Boards /\ NoDoc \in Originals
  /\ InOrder \in BOOLEAN
  /\ MaxFaults \in Nat /\ MaxEdits \in Nat /\ MaxLanguages \in Nat /\ MaxPosts \in Nat

\* What is saved, and what parseWorkspace makes of anything it is given: boards
\* with ids of their own, and one of them on screen.
Document ==
  {d \in [activeId : Boards, boards : Seq([id : Boards, layout : Nat]), mine : Nat] :
     /\ \E k \in DOMAIN d.boards : d.boards[k].id = d.activeId
     /\ \A j, k \in DOMAIN d.boards : d.boards[j].id = d.boards[k].id => j = k}

ASSUME DocumentAssumption == NoDoc \notin Document /\ Originals \ {NoDoc} \subseteq Document

VARIABLES
  stored,       \* the preference dashboardLayout
  workspace,    \* [activeId, boards, mine]; boards is a sequence of [id, layout]
  layout,       \* the layout of the board on screen
  layoutReady, layoutSaved,   \* the state variables of these names
  timer,        \* what the running timer will post, or NoDoc
  posts,        \* setUiPref calls under way: [doc, state, page, blind]
  load,         \* where the effect that restores the workspace is
  read,         \* what its getUiPref has returned
  page,         \* "closed", "loading" or "shown"
  edits, faults, languages,   \* counters, bounded
  blind,        \* history: has this page failed to read the boards it shows?
  made,         \* history: the layout the user has last seen or made of each board
  removed       \* history: boards the user or a restore has taken off the screen

ui   == << workspace, layout, layoutReady >>
vars == << stored, ui, layoutSaved, timer, posts, load, read, page, edits, faults, languages,
           blind, made, removed >>

---------------------------------------------------------------------------
(* dashboardBuilder.ts *)

IdsOf(ws) == {ws.boards[k].id : k \in DOMAIN ws.boards}
PlaceOf(ws, b) == CHOOSE k \in DOMAIN ws.boards : ws.boards[k].id = b
LayoutIn(ws, b) == ws.boards[PlaceOf(ws, b)].layout

\* saveActiveBoard
Keep(ws, l) ==
  [ws EXCEPT !.boards = [k \in DOMAIN @ |-> IF @[k].id = ws.activeId THEN [@[k] EXCEPT !.layout = l] ELSE @[k]]]

Default == [activeId |-> Main, boards |-> << [id |-> Main, layout |-> 0] >>, mine |-> 0]

\* parseWorkspace: a document, or the default when there is none to read.
Parsed(raw) == IF raw = NoDoc THEN Default ELSE raw

Screen == Keep(workspace, layout)

---------------------------------------------------------------------------
Init ==
  /\ stored \in Originals
  /\ workspace = Default /\ layout = 0 /\ layoutReady = FALSE /\ layoutSaved = TRUE
  /\ timer = NoDoc /\ posts = << >>
  /\ load = "no" /\ read = NoDoc /\ page = "closed"
  /\ edits = 0 /\ faults = 0 /\ languages = 0
  /\ blind = FALSE /\ made = [b \in Boards |-> 0] /\ removed = {}

\* The effect on [layout, layoutReady, workspace]: the label, and the timer
\* started again with what this render shows, once the boards are restored.
Rendered(ws, l, ready) ==
  /\ workspace' = ws /\ layout' = l /\ layoutReady' = ready
  /\ IF ready THEN layoutSaved' = FALSE /\ timer' = Keep(ws, l) ELSE UNCHANGED << layoutSaved, timer >>

---------------------------------------------------------------------------
(* Loading *)

\* Fault: the effect does not wait for layoutReady.
OpenSaving ==
  /\ page = "closed" /\ page' = "loading"
  /\ workspace' = Default /\ layout' = 0 /\ layoutReady' = FALSE /\ layoutSaved' = FALSE
  /\ timer' = Default /\ load' = "asked" /\ read' = NoDoc /\ blind' = FALSE
  /\ UNCHANGED << stored, posts, edits, faults, languages, made, removed >>

\* The page is mounted and asks for the preference.
Open ==
  /\ page = "closed" /\ page' = "loading"
  /\ workspace' = Default /\ layout' = 0 /\ layoutReady' = FALSE /\ layoutSaved' = TRUE
  /\ timer' = NoDoc /\ load' = "asked" /\ read' = NoDoc /\ blind' = FALSE
  /\ UNCHANGED << stored, posts, edits, faults, languages, made, removed >>

\* getUiPref: a failed read returns null, like a preference that is not set.
PanelReads ==
  /\ load = "asked"
  /\ \/ /\ InOrder => \A k \in DOMAIN posts : posts[k].state # "sent"
        /\ load' = "read" /\ read' = stored /\ UNCHANGED faults
     \/ /\ faults < MaxFaults /\ faults' = faults + 1
        /\ load' = "failed" /\ UNCHANGED read
  /\ UNCHANGED << stored, ui, layoutSaved, timer, posts, page, edits, languages, blind, made, removed >>

\* The rest of the effect: what was read replaces what is on screen.
Restore ==
  /\ load \in {"read", "failed"} /\ load' = "no"
  /\ LET ws == Parsed(read) IN
     /\ Rendered(ws, LayoutIn(ws, ws.activeId), TRUE)
     /\ made' = [b \in Boards |-> IF b \in IdsOf(ws) THEN LayoutIn(ws, b) ELSE 0]
     /\ removed' = IF page = "shown" THEN removed \cup (IdsOf(workspace) \ IdsOf(ws)) ELSE removed
  /\ blind' = (load = "failed") /\ read' = NoDoc
  /\ UNCHANGED << stored, posts, page, edits, faults, languages >>

\* The settings are read before the preference, and what they throw is
\* ignored: the screen stays what it is, a fresh page's the default.
RestoreSkipped ==
  /\ load = "asked" /\ load' = "no"
  /\ faults < MaxFaults /\ faults' = faults + 1
  /\ blind' = (blind \/ ~layoutReady)
  /\ UNCHANGED << stored, ui, layoutSaved, timer, posts, read, page, edits, languages, made, removed >>

\* Status and clients have been fetched too: the skeleton goes.
Shown ==
  /\ page = "loading" /\ load = "no" /\ page' = "shown"
  /\ UNCHANGED << stored, ui, layoutSaved, timer, posts, load, read, edits, faults, languages, blind, made, removed >>

\* Another language is another `t`, and the effect depends on it: the
\* workspace is read again, and what was changed meanwhile is gone.
Language ==
  /\ page = "shown" /\ load = "no" /\ load' = "asked"
  /\ languages < MaxLanguages /\ languages' = languages + 1
  /\ UNCHANGED << stored, ui, layoutSaved, timer, posts, read, page, edits, faults, blind, made, removed >>

\* Another page of the panel is opened: the timer is cleared, and nobody
\* listens to the requests under way.
Close ==
  /\ page # "closed" /\ page' = "closed"
  /\ timer' = NoDoc /\ load' = "no" /\ read' = NoDoc /\ layoutReady' = FALSE /\ layoutSaved' = TRUE /\ blind' = FALSE
  /\ faults < MaxFaults /\ faults' = faults + 1
  /\ posts' = [k \in DOMAIN posts |-> [posts[k] EXCEPT !.page = FALSE]]
  /\ UNCHANGED << stored, workspace, layout, edits, languages, made, removed >>

---------------------------------------------------------------------------
(* What the user does; everything that changes one layout is one edit *)

Change(ws, l, seen) ==
  /\ page = "shown" /\ edits < MaxEdits /\ edits' = edits + 1
  /\ Rendered(ws, l, layoutReady) /\ made' = seen
  /\ UNCHANGED << stored, posts, load, read, page, faults, languages, blind >>

\* Tiles, styles, presets, arrangement of the board on screen.
EditLayout ==
  /\ Change(workspace, edits + 1, [made EXCEPT ![workspace.activeId] = edits + 1])
  /\ UNCHANGED removed

\* Names, the user's own tiles, styles and presets.
EditWorkspace ==
  /\ Change([workspace EXCEPT !.mine = edits + 1], layout, made)
  /\ UNCHANGED removed

\* Fault: the board on screen is not put back before another one is shown.
SelectForgetting(b) ==
  /\ b \in IdsOf(workspace) \ {workspace.activeId}
  /\ Change([workspace EXCEPT !.activeId = b], LayoutIn(workspace, b), made)
  /\ UNCHANGED removed

SelectBoard(b) ==
  /\ b \in IdsOf(workspace) \ {workspace.activeId}
  /\ Change([Screen EXCEPT !.activeId = b], LayoutIn(Screen, b), made)
  /\ UNCHANGED removed

\* A new board: empty, from a template or a preset, or a copy of this one.
\* Its id is a UUID.
AddBoard(b, l) ==
  /\ Len(workspace.boards) < MAX_BOARDS
  /\ b \notin {Main} \cup removed \cup IdsOf(workspace) \cup UNION {IdsOf(d) : d \in {stored, timer} \ {NoDoc}}
               \cup UNION {IdsOf(posts[k].doc) : k \in DOMAIN posts}
  /\ Change([Screen EXCEPT !.activeId = b, !.boards = Append(@, [id |-> b, layout |-> l])], l,
            [made EXCEPT ![b] = l])
  /\ UNCHANGED removed

\* The boards but the one of this id: there is one.
RemoveBoard ==
  LET remaining == RemoveAt(workspace.boards, PlaceOf(workspace, workspace.activeId)) IN
  /\ Len(workspace.boards) >= 2
  /\ removed' = removed \cup {workspace.activeId}
  /\ Change([workspace EXCEPT !.boards = remaining, !.activeId = remaining[1].id],
            remaining[1].layout, made)

---------------------------------------------------------------------------
(* Saving *)

Post(doc) ==
  /\ Len(posts) < MaxPosts
  /\ posts' = Append(posts, [doc |-> doc, state |-> "sent", page |-> TRUE, blind |-> blind])

TimerFires ==
  /\ timer # NoDoc /\ Post(timer) /\ timer' = NoDoc
  /\ UNCHANGED << stored, ui, layoutSaved, load, read, page, edits, faults, languages, blind, made, removed >>

\* "Done" leaves edit mode and saves at once, whether or not the boards have
\* been restored; the timer goes on.  The bound on edits counts it.
Done ==
  /\ page = "shown" /\ edits < MaxEdits /\ edits' = edits + 1
  /\ Post(Screen)
  /\ UNCHANGED << stored, ui, layoutSaved, timer, load, read, page, faults, languages, blind, made, removed >>

First(k, state) ==
  /\ k \in DOMAIN posts /\ posts[k].state = state
  /\ InOrder => \A j \in 1 .. k - 1 : posts[j].state # state

PanelStores(k) ==
  /\ First(k, "sent")
  /\ stored' = posts[k].doc
  /\ posts' = [posts EXCEPT ![k].state = "stored"]
  /\ UNCHANGED << ui, layoutSaved, timer, load, read, page, edits, faults, languages, blind, made, removed >>

\* The request is lost or refused, or its answer is lost: setUiPref is false.
PostFails(k) ==
  /\ k \in DOMAIN posts /\ posts[k].state # "failed"
  /\ faults < MaxFaults /\ faults' = faults + 1
  /\ posts' = [posts EXCEPT ![k].state = "failed"]
  /\ UNCHANGED << stored, ui, layoutSaved, timer, load, read, page, edits, languages, blind, made, removed >>

Answerable(k) == k \in DOMAIN posts /\ posts[k].state # "sent" /\ (InOrder => k = 1)

\* Fault: the label is one of the dependencies of the effect.
AnswerRestarts(k) ==
  /\ Answerable(k)
  /\ posts' = RemoveAt(posts, k)
  /\ layoutSaved' = FALSE /\ timer' = IF posts[k].page THEN Screen ELSE timer
  /\ UNCHANGED << stored, ui, load, read, page, edits, faults, languages, blind, made, removed >>

\* `.then(setLayoutSaved)`, whichever change this was the answer to.
Answer(k) ==
  /\ Answerable(k)
  /\ posts' = RemoveAt(posts, k)
  /\ layoutSaved' = IF posts[k].page THEN posts[k].state = "stored" ELSE layoutSaved
  /\ UNCHANGED << stored, ui, timer, load, read, page, edits, faults, languages, blind, made, removed >>

Edit ==
  \/ EditLayout \/ EditWorkspace \/ RemoveBoard
  \/ \E b \in Boards : SelectBoard(b) \/ \E l \in {0, layout} : AddBoard(b, l)
User == Edit \/ Done

Saving == TimerFires \/ \E k \in 1 .. MaxPosts : PanelStores(k) \/ Answer(k)

Next ==
  \/ Open \/ PanelReads \/ Restore \/ RestoreSkipped \/ Shown \/ Language \/ Close
  \/ User \/ Saving \/ \E k \in 1 .. MaxPosts : PostFails(k)

Spec == Init /\ [][Next]_vars

\* Timers fire, and the panel takes and answers a request (or it fails).
FairSpec == Spec /\ WF_vars(Saving)

---------------------------------------------------------------------------
(* Properties *)

SavedAtRest == page = "shown" /\ load = "no" /\ layoutSaved /\ timer = NoDoc /\ posts = << >>

\* When the label says "saved" and nothing is under way, the panel has the
\* screen, and every board in it is as the user last saw or made it: no
\* switch, copy, removal or failed save before has mixed up two boards.
\* A page whose restore was skipped is not the panel's at all; one that comes
\* to its boards later (another language) is again.
SettledIsStored ==
  SavedAtRest /\ layoutReady =>
    /\ stored = Screen
    /\ \A b \in IdsOf(stored) : LayoutIn(stored, b) = made[b]

\* The label without that condition.  The code does not keep it: a page whose
\* restore was skipped says "saved" over the default.
SavedIsTheScreen == SavedAtRest /\ stored # NoDoc => stored = Screen

\* "A saved layout of any age is only migrated" (dashboardBuilder.ts:73): a
\* board leaves the panel only when the user has removed it, or has seen it
\* disappear with a change of the language.  The code does not keep it: a page
\* that has failed to read the boards may post the default over them.
BoardsStep == stored # NoDoc /\ stored' # NoDoc => IdsOf(stored) \ IdsOf(stored') \subseteq removed
BoardsStay == [][BoardsStep]_vars

\* That is the only way: however saves of several pages overlap, fail, are
\* left behind or follow a change of the language, a board that nobody has
\* removed leaves the panel only with what such a page has posted.
StoresBlindly ==
  \E k \in DOMAIN posts : posts[k].blind /\ posts[k].state = "sent" /\ posts' = [posts EXCEPT ![k].state = "stored"]
OnlyBlindLoses == [][BoardsStep \/ StoresBlindly]_vars

\* A change is stored, unless it fails, and then the label goes on saying
\* that it is not, or the page is left: the saves come to an end.
SavesSettle ==
  (page = "shown" /\ ~layoutSaved /\ faults = 0)
    ~> (layoutSaved \/ faults > 0)

---------------------------------------------------------------------------
(* The inductive invariants behind SettledIsStored and OnlyBlindLoses       *)
(* (DashboardSave_proofs), when requests are taken in order.                *)

TypeOK ==
  /\ stored \in Document \cup {NoDoc} /\ workspace \in Document /\ layout \in Nat
  /\ layoutReady \in BOOLEAN /\ layoutSaved \in BOOLEAN /\ blind \in BOOLEAN
  /\ timer \in Document \cup {NoDoc} /\ read \in Document \cup {NoDoc}
  /\ posts \in Seq([doc : Document, state : {"sent", "stored", "failed"}, page : BOOLEAN, blind : BOOLEAN])
  /\ load \in {"no", "asked", "read", "failed"} /\ page \in {"closed", "loading", "shown"}
  /\ edits \in Nat /\ faults \in Nat /\ languages \in Nat
  /\ made \in [Boards -> Nat] /\ removed \subseteq Boards

Sent(k) == posts[k].state = "sent"
Newest == posts[Len(posts)]

\* Nothing overtakes: what was stored last is the newest, if that is stored.
QueueInv ==
  /\ \A j, k \in DOMAIN posts : j < k /\ Sent(j) => posts[k].state # "stored"
  /\ posts # << >> /\ Newest.state = "stored" => stored = Newest.doc

\* Once the page has restored its boards: the screen is on its way (in the
\* timer, or as the newest post) or stored, and it is what the user has seen.
OnItsWay ==
  /\ timer \in {NoDoc, Screen}
  /\ timer = NoDoc /\ posts # << >> => Newest.page /\ Newest.doc = Screen
  /\ timer = NoDoc /\ posts = << >> /\ layoutSaved => stored = Screen
AsMade ==
  \A k \in DOMAIN workspace.boards :
    LET b == workspace.boards[k] IN
    made[b.id] = IF b.id = workspace.activeId THEN layout ELSE b.layout
SettleInv == QueueInv /\ (layoutReady => OnItsWay /\ AsMade)

\* Only boards that were removed are missing in the other document, or in
\* what a page has after it.
Within(d, ws) == IdsOf(d) \subseteq IdsOf(ws) \cup removed
SentWithin(ws) == \A k \in DOMAIN posts : Sent(k) => Within(posts[k].doc, ws)
ChainInv ==
  \A k \in DOMAIN posts : Sent(k) /\ ~posts[k].blind =>
    /\ stored # NoDoc => Within(stored, posts[k].doc)
    /\ \A j \in DOMAIN posts : j < k /\ Sent(j) => Within(posts[j].doc, posts[k].doc)

\* Nothing is posted before the boards are restored but by a page that could
\* not read them; what a page has read, it has until it shows it.
PageInv ==
  /\ page = "closed" => load = "no" /\ ~layoutReady
  /\ ~layoutReady => timer = NoDoc
  /\ layoutReady => timer \in {NoDoc, Screen}
  /\ page = "loading" /\ load # "no" => ~layoutReady
  /\ page = "loading" /\ load = "read" => read = stored /\ \A k \in DOMAIN posts : ~Sent(k)
  /\ page = "shown" \/ (page = "loading" /\ load = "no") => layoutReady \/ blind
  /\ load # "read" => read = NoDoc

\* What is stored or on its way has no board that the page has not, once it
\* has read, nor one that it has neither on its screen nor in what it read.
ReadInv ==
  /\ layoutReady /\ ~blind => (stored # NoDoc => Within(stored, workspace)) /\ SentWithin(workspace)
  /\ page = "shown" /\ load = "read" =>
       /\ stored # NoDoc => IdsOf(stored) \subseteq IdsOf(Parsed(read)) \cup IdsOf(workspace) \cup removed
       /\ SentWithin(workspace)
BoardsInv == ChainInv /\ PageInv /\ ReadInv
=============================================================================

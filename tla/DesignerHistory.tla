-------------------------- MODULE DesignerHistory --------------------------
(***************************************************************************)
(* The undo history of the subscription page designer: the reducer of      *)
(* designer/state.ts.  A commit puts the document and the selection it     *)
(* replaces on the past, unless it continues the burst of the last one:    *)
(* the same key, less than COALESCE_MS later.                              *)
(***************************************************************************)
EXTENDS Naturals, Sequences

CONSTANTS
  LIMIT,      \* entries of the past and of the future
  NoKey       \* `undefined`

ASSUME LimitAssumption == LIMIT \in Nat \ {0}

VARIABLES
  doc, sel,       \* the document and the selected nodes
  past, future,   \* entries [doc, sel]
  dirty,
  lastKey,        \* the key of the last commit
  recent          \* was that less than COALESCE_MS ago?

historyVars == << doc, sel, past, future, dirty, lastKey, recent >>

Entry == [doc |-> doc, sel |-> sel]

\* `.slice(-LIMIT)` and `.slice(0, LIMIT)`
LastEntries(s)  == SubSeq(s, IF Len(s) > LIMIT THEN Len(s) - LIMIT + 1 ELSE 1, Len(s))
FirstEntries(s) == SubSeq(s, 1, IF Len(s) > LIMIT THEN LIMIT ELSE Len(s))

HistoryInit(d) ==
  /\ doc = d /\ sel = << >>
  /\ past = << >> /\ future = << >>
  /\ dirty = FALSE /\ lastKey = NoKey /\ recent = FALSE

\* Fault: an edit leaves the future.
CommitKeepsFuture(d, s, key) ==
  LET merge == key # NoKey /\ key = lastKey /\ recent /\ past # << >> IN
  /\ doc' = d /\ sel' = s
  /\ past' = IF merge THEN past ELSE LastEntries(Append(past, Entry))
  /\ future' = future
  /\ dirty' = TRUE /\ lastKey' = key /\ recent' = TRUE

\* "commit" of a new document.
Commit(d, s, key) ==
  LET merge == key # NoKey /\ key = lastKey /\ recent /\ past # << >> IN
  /\ doc' = d /\ sel' = s
  /\ past' = IF merge THEN past ELSE LastEntries(Append(past, Entry))
  /\ future' = << >>
  /\ dirty' = TRUE /\ lastKey' = key /\ recent' = TRUE

\* "commit" of the same document: an operation that had nothing to do.
CommitSame(s) ==
  /\ sel' = s
  /\ UNCHANGED << doc, past, future, dirty, lastKey, recent >>

Select(s) ==
  /\ sel' = s /\ lastKey' = NoKey
  /\ UNCHANGED << doc, past, future, dirty, recent >>

Undo ==
  /\ past # << >>
  /\ doc' = past[Len(past)].doc /\ sel' = past[Len(past)].sel
  /\ past' = SubSeq(past, 1, Len(past) - 1)
  /\ future' = FirstEntries(<< Entry >> \o future)
  /\ dirty' = TRUE /\ lastKey' = NoKey
  /\ UNCHANGED recent

Redo ==
  /\ future # << >>
  /\ doc' = future[1].doc /\ sel' = future[1].sel
  /\ past' = LastEntries(Append(past, Entry))
  /\ future' = Tail(future)
  /\ dirty' = TRUE /\ lastKey' = NoKey
  /\ UNCHANGED recent

\* COALESCE_MS pass without a commit.
Pause == recent /\ recent' = FALSE /\ UNCHANGED << doc, sel, past, future, dirty, lastKey >>

\* "saved", whatever was edited since the save began
MarkSaved == dirty' = FALSE /\ UNCHANGED << doc, sel, past, future, lastKey, recent >>

---------------------------------------------------------------------------
\* The timeline the history stands for, and the place of the document on it.
line == past \o << Entry >> \o future
pos  == Len(past) + 1

\* Undo goes back to what was there before the last edit or burst, document
\* and selection; redo to what was undone; and nothing is lost on the way:
\* the limit is never reached by undoing (state.ts, undo and redo).
Promise == INSTANCE UndoList WITH Limit <- LIMIT
RefinesUndoList == Promise!Spec
=============================================================================

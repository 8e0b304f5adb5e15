---------------------------- MODULE MCGridBoard ----------------------------
(***************************************************************************)
(* GridBoard on three columns: a table tile that may not be narrower than  *)
(* two of them, a stat tile, the id of a copy of it, and a content tile    *)
(* with a row limit on the phone.                                          *)
(***************************************************************************)
EXTENDS GridBoard

MCTiles == {"table", "stat", "copy", "text"}

MCLimits == [t \in MCTiles |->
  [minW |-> IF t = "table" THEN 2 ELSE 1, minH |-> 1, maxW |-> 3,
   maxH |-> IF t = "table" THEN 2 ELSE 3]]
MCPhoneRows == [t \in MCTiles |-> IF t = "text" THEN 1 ELSE 0]
MCDefaultSize == [t \in MCTiles |->
  [w |-> IF t \in {"stat", "copy"} THEN 1 ELSE 2, h |-> IF t = "text" THEN 2 ELSE 1]]

Place(t, x, y, w, h) == [id |-> t, x |-> x, y |-> y, w |-> w, h |-> h]

\* A fresh board, one stored under older limits and with empty rows, and one
\* with a tile beside two others.
MCBoards == {
  [panels |-> <<"stat", "text">>, grid |-> <<>>],
  [panels |-> <<"stat", "table">>,
   grid |-> << Place("table", 2, 6, 1, 1), Place("stat", 0, 0, 2, 1) >>],
  [panels |-> <<"text", "stat", "table">>,
   grid |-> << Place("stat", 0, 0, 1, 2), Place("table", 1, 0, 2, 1), Place("text", 1, 1, 1, 1) >>]}

MCHandles == {{"n", "w"}}
=============================================================================

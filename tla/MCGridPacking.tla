--------------------------- MODULE MCGridPacking ---------------------------
(* GridPacking for every layout of up to three tiles on three columns.     *)
EXTENDS GridPacking, TLC

Shapes == {s \in [x : 0 .. 2, y : 0 .. 1, w : 1 .. 2, h : 1 .. 2] : s.x + s.w <= 3}

MCLayouts ==
  {{[id |-> i, x |-> f[i].x, y |-> f[i].y, w |-> f[i].w, h |-> f[i].h] : i \in Ids} :
     f \in [Ids -> Shapes]}

Alike == Permutations(Ids)
=============================================================================

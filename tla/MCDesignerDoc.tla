---------------------------- MODULE MCDesignerDoc ----------------------------
(* DesignerDoc on a page with a row of a text and a free frame with a text.*)
EXTENDS DesignerDoc, TLC

MCFirstDoc ==
  1 :> Node("frame", "row", << 2, 3 >>) @@
  2 :> Node("leaf", "column", << >>) @@
  3 :> Node("frame", "free", << 4 >>) @@
  4 :> Node("leaf", "column", << >>)

\* A part of the palette, and an element of a file: a child of the frame is not
\* there (no node has the id 0), and the other is also in a frame nobody draws.
MCParts == {[root |-> 1, nodes |-> 1 :> Node("frame", "column", << 2 >>) @@
                                   2 :> Node("leaf", "column", << >>)],
            [root |-> 1, nodes |-> 1 :> Node("frame", "column", << 2, 0 >>) @@
                                   2 :> Node("leaf", "column", << >>) @@
                                   3 :> Node("frame", "column", << 2 >>)]}

\* A cycle, a shared child, a dangling one and an orphan.
MCImports == {1 :> Node("frame", "column", << 2, 3, 9 >>) @@
              2 :> Node("frame", "column", << 1, 3 >>) @@
              3 :> Node("leaf", "column", << >>) @@
              4 :> Node("leaf", "column", << >>)}
=============================================================================

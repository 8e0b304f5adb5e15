------------------------- MODULE MCDesignerLibrary -------------------------
(* DesignerLibrary in two browsers, which are alike.                       *)
EXTENDS DesignerLibrary, TLC

Alike == Permutations(Tabs)
=============================================================================

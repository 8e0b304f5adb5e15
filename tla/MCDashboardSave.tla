-------------------------- MODULE MCDashboardSave --------------------------
(* DashboardSave with nothing stored, or two boards.                       *)
EXTENDS DashboardSave

MCOriginals == {NoDoc,
  [activeId |-> "second", mine |-> 0,
   boards |-> << [id |-> "first", layout |-> 0], [id |-> "second", layout |-> 0] >>]}
=============================================================================

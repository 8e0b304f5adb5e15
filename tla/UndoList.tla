------------------------------ MODULE UndoList ------------------------------
(***************************************************************************)
(* What an undo history promises: one line of states and a place on it.    *)
(* An edit forgets what lies ahead and adds a state, or changes the last   *)
(* one; going back and forward moves the place and leaves the line alone.  *)
(***************************************************************************)
EXTENDS Naturals, Sequences

CONSTANT Limit      \* how many steps back are kept

VARIABLES line, pos

\* The states that are kept when the line is too long.
LastOf(s, n) == SubSeq(s, IF Len(s) > n THEN Len(s) - n + 1 ELSE 1, Len(s))

Init == Len(line) = 1 /\ pos = 1

Push(state) ==
  /\ line' = LastOf(Append(SubSeq(line, 1, pos), state), Limit + 1)
  /\ pos' = Len(line')

Amend(state) ==
  /\ pos = Len(line) /\ pos > 1
  /\ line' = [line EXCEPT ![pos] = state]
  /\ UNCHANGED pos

Reselect(sel) ==
  /\ line' = [line EXCEPT ![pos] = [doc |-> line[pos].doc, sel |-> sel]]
  /\ UNCHANGED pos

Back    == pos > 1 /\ pos' = pos - 1 /\ UNCHANGED line
Forward == pos < Len(line) /\ pos' = pos + 1 /\ UNCHANGED line

Next ==
  \/ \E s \in {line'[pos']} : Push(s) \/ Amend(s) \/ Reselect(s.sel)
  \/ Back \/ Forward

Spec == Init /\ [][Next]_<< line, pos >>
=============================================================================

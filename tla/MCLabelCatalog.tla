--------------------------- MODULE MCLabelCatalog ---------------------------
(* LabelCatalog on the files of two clusters, which share a label value and  *)
(* bring one new column each.                                                *)
EXTENDS LabelCatalog

CONSTANTS f1, f2, a, b, x, y

MCClusterOf == [f \in Files |-> IF f = f2 THEN 2 ELSE 1]

Row(v, c) == [label |-> v, col |-> c]
MCLines == [f \in Files |->
    CASE f = f1 -> <<Row(a, x), Row(a, x), Row(b, x)>>
      [] f = f2 -> <<Row(b, y)>>]

\* Queries against parsers with a failing write; the same over a restart; and
\* a saver that comes round while they work.
Failing == [interval |-> FALSE, queries |-> TRUE, fails |-> 1, lives |-> 1]
Restarted == [Failing EXCEPT !.fails = 0, !.lives = 2]
Saved == [interval |-> TRUE, queries |-> FALSE, fails |-> 0, lives |-> 1]
AllModes == {Failing, Restarted, Saved}
SaverModes == {Saved}
=============================================================================

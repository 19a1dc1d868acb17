------------------------------ MODULE MCLayout ------------------------------
(* A row of three, and a row of a pane and a column whose top is a row.      *)
EXTENDS Layout

MCShapes == {Row(<<Leaf("a"), Leaf("b"), Leaf("c")>>),
             Row(<<Leaf("a"), Column(<<Row(<<Leaf("b"), Leaf("c")>>), Leaf("d")>>)>>)}
MCSizes  == {[x |-> 12, y |-> 3], [x |-> 10, y |-> 4]}
MCFirst  == [x |-> 12, y |-> 3]
MCCounts == {[p \in {"a"} |-> [x |-> 2, y |-> 1]]}
MCWidths == {1, 2}
=============================================================================

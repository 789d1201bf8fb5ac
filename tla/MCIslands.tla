------------------------------ MODULE MCIslands ------------------------------
(* Four trees, of which one has two degrees of freedom, and steps of at      *)
(* most three rows: chains and stars of trees, a row in two orders, a row    *)
(* with three trees, alone, and one that touches none.                       *)
EXTENDS IslandsInv

MCTreeOf == [d \in 0..4 |-> <<0, 1, 1, 2, 3>>[d + 1]]

TreeLists == {<<>>, <<0>>, <<3>>, <<0, 1>>, <<2, 0>>, <<1, 2>>, <<3, 1, 2>>}
Rows == {[trees |-> ts, kind |-> k] : ts \in TreeLists, k \in 1..3}

MCSystems ==
  {s \in UNION {[1..n -> Rows] : n \in 0..3} :
     \A j, k \in DOMAIN s : j < k => s[j].kind <= s[k].kind}
=============================================================================

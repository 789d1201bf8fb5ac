----------------------------- MODULE MCGraphAlloc -----------------------------
(***************************************************************************)
(* Instances of GraphAlloc for TLC: the captures g1 and g3 are on one      *)
(* device, g2 on another, and there is an allocation on each.              *)
(***************************************************************************)
EXTENDS GraphAllocInv, TLC

CONSTANTS g1, g2, g3, p1, p2, c1, c2

GraphDevices == (g1 :> c1) @@ (g2 :> c2) @@ (g3 :> c1)
PtrDevices == (p1 :> c1) @@ (p2 :> c2)
=============================================================================

------------------------------ MODULE IslandsInv ------------------------------
(***************************************************************************)
(* The inductive invariant of the flood fill of Islands: a finished island *)
(* is closed under neighbours, and of the one that is being filled every   *)
(* neighbour is labelled or on the stack.                                  *)
(***************************************************************************)
EXTENDS Islands

Label(k) == {t \in Trees : tree_island[t] = k}
AllLabelled == {t \in Trees : Labelled(t)}

GraphOK == rows \in Systems \cup {<<>>} /\ tree_tree = Edges(rows)

FillTypes ==
  /\ next \in 0..ntree /\ stack \in Seq(Trees) /\ filling \in BOOLEAN /\ nisland \in Nat
  /\ tree_island \in [Trees -> Int]

\* Where the thread is.
PlaceOK ==
  /\ filling => stage = "fill" /\ next < ntree
  /\ ~ filling => stack = <<>>
  /\ stage \notin {"idle", "fill"} => next = ntree

\* Labels are given in order, to trees that a row touches; the tree next is
\* the root of the island that is being filled.
LabelsOK ==
  /\ \A t \in Trees : tree_island[t] \in -1..nisland /\ (tree_island[t] = nisland => filling)
  /\ \A t \in Trees : Labelled(t) => t \in Touched
  /\ \A t \in Trees : t < next /\ t \in Touched => Labelled(t)
  /\ \A k \in 0..nisland - 1 : Label(k) # {}
  /\ filling => tree_island[next] = nisland \/ (next \in Range1(stack) /\ ~ Labelled(next))

StackOK == \A u \in Range1(stack) : u \in Touched

ClosedOK ==
  /\ \A t, u \in Trees : Labelled(t) /\ tree_island[t] < nisland /\ u \in Neighbours(t) =>
       tree_island[u] = tree_island[t]
  /\ \A t, u \in Trees : tree_island[t] = nisland /\ u \in Neighbours(t) =>
       tree_island[u] = nisland \/ u \in Range1(stack)

\* Rows connect the trees of an island.
JoinedOK ==
  /\ \A t, u \in Trees : Labelled(t) /\ tree_island[t] < nisland /\ tree_island[u] = tree_island[t] =>
       Connected(t, u)
  /\ filling => \A u \in Label(nisland) \cup Range1(stack) : Connected(next, u)

\* A tree that is labelled pushes at most the other trees.
SizeOK == Len(stack) <= 1 + Cardinality(AllLabelled) * (ntree - 1)

IndInv ==
  GraphOK /\ FillTypes /\ PlaceOK /\ LabelsOK /\ StackOK /\ ClosedOK /\ JoinedOK /\ SizeOK

-----------------------------------------------------------------------------
(* After the fill: the maps, and the results made with them.               *)

Unset == map_dof2idof = <<>> /\ map_idof2dof = <<>> /\ dof_islandid = <<>>
         /\ map_iefc2efc = <<>> /\ efc_islandid = <<>>

\* Every degree of freedom has an element of its own.
DofMapsOK ==
  /\ map_dof2idof \in [Dofs -> Dofs] /\ map_idof2dof \in [Dofs -> Dofs]
  /\ dof_islandid \in [Dofs -> Islands]
  /\ \A d \in Dofs : /\ map_dof2idof[d] = Idof(d) /\ map_idof2dof[Idof(d)] = d
                      /\ dof_islandid[Idof(d)] = DofIsland(d)
  /\ \A i \in Dofs : \E d \in Dofs : Idof(d) = i

\* So has every row of an island; the elements behind them are left.
RowMapsOK ==
  /\ map_iefc2efc \in [RowIds -> RowIds] /\ efc_islandid \in [RowIds -> Islands]
  /\ \A r \in RowIds : RowIsland(r) >= 0 =>
       /\ Iefc(r) \in RowIds /\ map_iefc2efc[Iefc(r)] = r
       /\ efc_islandid[Iefc(r)] = RowIsland(r)
  /\ \A ic \in RowIds \ Gathered : map_iefc2efc[ic] = 0 /\ efc_islandid[ic] = -1
  /\ Gathered = 0..Cardinality({r \in RowIds : RowIsland(r) >= 0}) - 1

GatherOK == iJ \in [RowIds -> RowIds] /\ (Gathered = RowIds => iJ = map_iefc2efc)

SolveOK ==
  /\ iforce \in [RowIds -> RowIds \cup {Old}] /\ iqacc \in [Dofs -> Dofs \cup {Old}]
  /\ Gathered = RowIds =>
       /\ \A r \in RowIds : RowIsland(r) >= 0 => iforce[Iefc(r)] = r
       /\ \A d \in Dofs : DofIsland(d) >= 0 => iqacc[Idof(d)] = d

MapInv ==
  /\ stage \in {"idle", "fill", "map", "gather", "solve", "scatter", "done"}
  /\ IF stage \in {"gather", "solve", "scatter", "done"} THEN DofMapsOK /\ RowMapsOK ELSE Unset
  /\ IF stage \in {"solve", "scatter", "done"} THEN GatherOK ELSE iJ = <<>>
  /\ IF stage \in {"scatter", "done"} THEN SolveOK ELSE iforce = <<>> /\ iqacc = <<>>
  /\ IF stage = "done" THEN ResultsExact /\ force \in Results(RowIds) /\ qacc \in Results(Dofs)
     ELSE force = <<>> /\ qacc = <<>>
=============================================================================

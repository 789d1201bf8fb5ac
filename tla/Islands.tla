------------------------------- MODULE Islands -------------------------------
(***************************************************************************)
(* The constraint islands of one world (island.py).  Two kinematic trees   *)
(* are neighbours when a constraint row touches both; a depth-first fill   *)
(* labels the trees of each connected component.  The rows and the degrees *)
(* of freedom are numbered island by island, the solver works on the       *)
(* numbered copies, and its results are scattered back.                    *)
(*                                                                         *)
(* The fill is one thread, modelled by its steps.  The other kernels write *)
(* an element once, except where said, so that the order of their threads  *)
(* does not matter: each is one step.  A result is the row or the degree   *)
(* of freedom that it belongs to.                                          *)
(***************************************************************************)
EXTENDS Integers, Sequences, FiniteSets

CONSTANTS
  ntree, nv,
  TreeOf,      (* dof_treeid                                               *)
  Systems,     (* rows that a step may bring: sequences of records         *)
  Old,         (* what the solver's arrays hold from an earlier step       *)
  Smooth       (* the smooth acceleration of a degree of freedom           *)

Trees == 0..ntree - 1
Dofs == 0..nv - 1

\* The kinds of rows, in the order that make_constraint gives them.
Categories == <<"equality", "friction", "other">>

\* A row: the trees it touches in the order they are found, none if all of
\* its bodies are static or all of its vertices pinned; its kind.
Row == [trees : Seq(Trees), kind : 1..3]

ASSUME SizesAssumption == ntree \in Nat /\ nv \in Nat /\ TreeOf \in [Dofs -> Trees]
\* make_constraint gives equality rows first, then friction rows, then the others.
ASSUME SystemsAssumption ==
  /\ Systems \subseteq Seq(Row)
  /\ \A s \in Systems : \A j, k \in DOMAIN s : j < k => s[j].kind <= s[k].kind
ASSUME ResultsAssumption == Old \notin Int /\ Smooth \notin Int

VARIABLES
  stage,
  rows,          (* the rows that are stored: min(njmax, nefc) of them     *)
  tree_tree,     (* pairs of trees that are marked                         *)
  \* The thread of _flood_fill.
  next,          (* i                                                      *)
  stack,
  filling,       (* inside the iteration for the tree next                 *)
  nisland, tree_island,
  \* The island context.
  map_dof2idof, map_idof2dof, dof_islandid,
  map_iefc2efc, efc_islandid,
  iJ,            (* island row -> row whose Jacobian it has                *)
  \* Results.
  iforce, iqacc, force, qacc

graph == <<rows, tree_tree>>
fill == <<next, stack, filling, nisland, tree_island>>
dof_maps == <<map_dof2idof, map_idof2dof, dof_islandid>>
row_maps == <<map_iefc2efc, efc_islandid>>
results == <<iJ, iforce, iqacc, force, qacc>>
vars == <<stage, graph, fill, dof_maps, row_maps, results>>

Range1(s) == {s[k] : k \in DOMAIN s}
RowIds == 0..Len(rows) - 1
TreesOf(r) == Range1(rows[r + 1].trees)

Init ==
  /\ stage = "idle" /\ rows = <<>> /\ tree_tree = {}
  /\ next = 0 /\ stack = <<>> /\ filling = FALSE
  /\ nisland = 0 /\ tree_island = [t \in Trees |-> -1]
  /\ map_dof2idof = <<>> /\ map_idof2dof = <<>> /\ dof_islandid = <<>>
  /\ map_iefc2efc = <<>> /\ efc_islandid = <<>>
  /\ iJ = <<>> /\ iforce = <<>> /\ iqacc = <<>> /\ force = <<>> /\ qacc = <<>>

-----------------------------------------------------------------------------
(* Discovery: _tree_edges and _flood_fill.                                 *)

\* Mutant: each tree of a row is joined to the next one, in one direction.
BugEdges(system) ==
  UNION {{<<system[k].trees[j], system[k].trees[j + 1]>> :
            j \in 1..Len(system[k].trees) - 1} : k \in DOMAIN system}

\* A row joins its first tree to the others, or marks it if it is alone.
Edges(system) ==
  LET first(k) == system[k].trees[1]
      others(k) == Range1(system[k].trees) \ {first(k)}
      touching == {k \in DOMAIN system : system[k].trees # <<>>}
  IN UNION {IF others(k) = {} THEN {<<first(k), first(k)>>}
            ELSE {first(k)} \X others(k) \cup others(k) \X {first(k)} : k \in touching}

Discover(system) ==
  /\ stage = "idle" /\ stage' = "fill"
  /\ rows' = system /\ tree_tree' = Edges(system)
  /\ next' = 0 /\ stack' = <<>> /\ filling' = FALSE
  /\ nisland' = 0 /\ tree_island' = [t \in Trees |-> -1]
  /\ UNCHANGED <<dof_maps, row_maps, results>>

\* Mutant: the labels are read from a copy that was made before the fill.
BugLabelled(t) == FALSE

Labelled(t) == tree_island[t] # -1
Neighbours(t) == {u \in Trees : <<t, u>> \in tree_tree}
Scanning == stage = "fill" /\ next < ntree

Skip ==
  /\ Scanning /\ ~ filling /\ (Labelled(next) \/ Neighbours(next) = {})
  /\ next' = next + 1
  /\ UNCHANGED <<stage, graph, stack, filling, nisland, tree_island, dof_maps, row_maps, results>>

Root ==
  /\ Scanning /\ ~ filling /\ ~ Labelled(next) /\ Neighbours(next) # {}
  /\ filling' = TRUE /\ stack' = <<next>>
  /\ UNCHANGED <<stage, graph, next, nisland, tree_island, dof_maps, row_maps, results>>

Top == stack[Len(stack)]

\* Mutant: the top is read and left on the stack.
BugBelow == stack

Below == SubSeq(stack, 1, Len(stack) - 1)

\* A tree that was pushed twice.
PopAgain ==
  /\ Scanning /\ filling /\ stack # <<>> /\ Labelled(Top)
  /\ stack' = Below
  /\ UNCHANGED <<stage, graph, next, filling, nisland, tree_island, dof_maps, row_maps, results>>

\* The tree has its label by then.
ToPush == {u \in Neighbours(Top) : ~ Labelled(u) /\ u # Top}

Ascending(p, S) ==
  /\ Range1(p) = S
  /\ \A j, k \in DOMAIN p : j < k => p[j] < p[k]

PopNew ==
  /\ Scanning /\ filling /\ stack # <<>> /\ ~ Labelled(Top)
  /\ tree_island' = [tree_island EXCEPT ![Top] = nisland]
  /\ \E p \in [1..Cardinality(ToPush) -> ToPush] :
       Ascending(p, ToPush) /\ stack' = Below \o p
  /\ UNCHANGED <<stage, graph, next, filling, nisland, dof_maps, row_maps, results>>

Filled ==
  /\ Scanning /\ filling /\ stack = <<>>
  /\ filling' = FALSE /\ nisland' = nisland + 1 /\ next' = next + 1
  /\ UNCHANGED <<stage, graph, stack, tree_island, dof_maps, row_maps, results>>

Discovered ==
  /\ stage = "fill" /\ next = ntree /\ stage' = "map"
  /\ UNCHANGED <<graph, fill, dof_maps, row_maps, results>>

-----------------------------------------------------------------------------
(* compute_island_mapping.                                                 *)

DofIsland(d) == tree_island[TreeOf[d]]
InIsland(k) == {d \in Dofs : DofIsland(d) = k}

\* Mutant: counted before the trees without an island are left out.
BugNidof == nv

nidof == Cardinality({d \in Dofs : DofIsland(d) >= 0})

\* The place of a degree of freedom: those of earlier islands, those of its
\* own before it; without an island, behind all islands.
Idof(d) ==
  IF DofIsland(d) >= 0
  THEN Cardinality({e \in Dofs : DofIsland(e) \in 0..DofIsland(d) - 1})
       + Cardinality({e \in InIsland(DofIsland(d)) : e < d})
  ELSE nidof + Cardinality({e \in InIsland(-1) : e < d})

DofsAt(i) == {d \in Dofs : Idof(d) = i}

\* The first tree decides (_compute_efc_tree).
RowIsland(r) == IF rows[r + 1].trees = <<>> THEN -1 ELSE tree_island[rows[r + 1].trees[1]]
IslandRows(k) == {r \in RowIds : RowIsland(r) = k}

\* r comes before s in their island: its kind is earlier, or it is the same
\* and the row is.
Before(r, s) ==
  \/ rows[r + 1].kind < rows[s + 1].kind
  \/ rows[r + 1].kind = rows[s + 1].kind /\ r < s

efcadr(k) == Cardinality({s \in RowIds : RowIsland(s) \in 0..k - 1})

\* Mutant: the places of the earlier kinds are not left free.
BugIefc(r) ==
  efcadr(RowIsland(r))
  + Cardinality({s \in IslandRows(RowIsland(r)) : rows[s + 1].kind = rows[r + 1].kind /\ s < r})

Iefc(r) == efcadr(RowIsland(r)) + Cardinality({s \in IslandRows(RowIsland(r)) : Before(s, r)})

Gathered == {Iefc(r) : r \in {s \in RowIds : RowIsland(s) >= 0}}
RowAt(ic) == CHOOSE r \in RowIds : RowIsland(r) >= 0 /\ Iefc(r) = ic

\* The arrays begin with 0 and -1 (_init_dof_arrays, _init_efc_arrays); a row
\* without an island leaves an element at the end as it is.
Map ==
  /\ stage = "map" /\ stage' = "gather"
  /\ map_dof2idof' = [d \in Dofs |-> Idof(d)]
  /\ map_idof2dof' = [i \in Dofs |-> IF DofsAt(i) = {} THEN 0 ELSE CHOOSE d \in DofsAt(i) : TRUE]
  /\ dof_islandid' = [i \in Dofs |->
       IF DofsAt(i) = {} THEN -1 ELSE DofIsland(CHOOSE d \in DofsAt(i) : TRUE)]
  /\ map_iefc2efc' = [ic \in RowIds |-> IF ic \in Gathered THEN RowAt(ic) ELSE 0]
  /\ efc_islandid' = [ic \in RowIds |-> IF ic \in Gathered THEN RowIsland(RowAt(ic)) ELSE -1]
  /\ UNCHANGED <<graph, fill, results>>

-----------------------------------------------------------------------------
(* gather_island_inputs, _solve_islands and scatter_island_results.  The   *)
(* result of a row is the row whose Jacobian it was computed with.         *)

\* A thread for each row.  The thread of an element that is left copies the
\* sparse row 0 to an address of an earlier step, where it may replace the
\* Jacobian of any element.
Gather ==
  /\ stage = "gather" /\ stage' = "solve"
  /\ iJ' \in {f \in [RowIds -> RowIds] : \A ic \in RowIds :
       f[ic] = map_iefc2efc[ic] \/ (Gathered # RowIds /\ f[ic] = 0)}
  /\ UNCHANGED <<graph, fill, dof_maps, row_maps, iforce, iqacc, force, qacc>>

Intact(k) == \A ic \in RowIds : efc_islandid[ic] = k => iJ[ic] = map_iefc2efc[ic]

\* Elements without an island are skipped by every kernel of the solver.
Solve ==
  /\ stage = "solve" /\ stage' = "scatter"
  /\ iforce' = [ic \in RowIds |-> IF efc_islandid[ic] >= 0 THEN iJ[ic] ELSE Old]
  /\ iqacc' = [i \in Dofs |->
       IF dof_islandid[i] >= 0 /\ Intact(dof_islandid[i]) THEN map_idof2dof[i] ELSE Old]
  /\ UNCHANGED <<graph, fill, dof_maps, row_maps, iJ, force, qacc>>

\* Mutant: the forces are copied back without the map.
BugWriters(r) == {r}

Writers(r) == {ic \in RowIds : map_iefc2efc[ic] = r}

\* Of the threads that write one element any may be the last.
Scatter ==
  /\ stage = "scatter" /\ stage' = "done"
  /\ force' \in [RowIds -> RowIds \cup {Old}]
  /\ \A r \in RowIds :
       force'[r] \in IF Writers(r) = {} THEN {Old} ELSE {iforce[ic] : ic \in Writers(r)}
  /\ qacc' = [d \in Dofs |-> IF DofIsland(d) < 0 THEN Smooth ELSE iqacc[map_dof2idof[d]]]
  /\ UNCHANGED <<graph, fill, dof_maps, row_maps, iJ, iforce, iqacc>>

\* The arrays keep what they hold, which is Old for the next step.
NextStep ==
  /\ stage = "done" /\ stage' = "idle"
  /\ rows' = <<>> /\ tree_tree' = {}
  /\ next' = 0 /\ nisland' = 0 /\ tree_island' = [t \in Trees |-> -1]
  /\ map_dof2idof' = <<>> /\ map_idof2dof' = <<>> /\ dof_islandid' = <<>>
  /\ map_iefc2efc' = <<>> /\ efc_islandid' = <<>>
  /\ iJ' = <<>> /\ iforce' = <<>> /\ iqacc' = <<>> /\ force' = <<>> /\ qacc' = <<>>
  /\ UNCHANGED <<stack, filling>>

Fill == Skip \/ Root \/ PopAgain \/ PopNew \/ Filled

Next ==
  \/ \E system \in Systems : Discover(system)
  \/ Fill \/ Discovered \/ Map \/ Gather \/ Solve \/ Scatter \/ NextStep

\* The thread of a kernel that was launched keeps running.
Fairness == WF_vars(Fill \/ Discovered)

Spec == Init /\ [][Next]_vars /\ Fairness

-----------------------------------------------------------------------------
(* Properties.                                                             *)

Islands == -1..ntree - 1
Results(S) == {<<>>} \cup [S -> S \cup {Old, Smooth}]

\* The values of the variables; the maps of the solver are arrays of indices
\* (compute_island_mapping allocates them with nv and njmax elements).
TypeOK ==
  /\ stage \in {"idle", "fill", "map", "gather", "solve", "scatter", "done"}
  /\ rows \in Systems \cup {<<>>} /\ tree_tree \subseteq Trees \X Trees
  /\ next \in 0..ntree /\ stack \in Seq(Trees) /\ filling \in BOOLEAN
  /\ nisland \in 0..ntree /\ tree_island \in [Trees -> Islands]
  /\ map_dof2idof \in {<<>>} \cup [Dofs -> Dofs] /\ map_idof2dof \in {<<>>} \cup [Dofs -> Dofs]
  /\ dof_islandid \in {<<>>} \cup [Dofs -> Islands]
  /\ map_iefc2efc \in {<<>>} \cup [RowIds -> RowIds]
  /\ efc_islandid \in {<<>>} \cup [RowIds -> Islands]
  /\ iJ \in {<<>>} \cup [RowIds -> RowIds]
  /\ iforce \in Results(RowIds) /\ force \in Results(RowIds)
  /\ iqacc \in Results(Dofs) /\ qacc \in Results(Dofs)

Touched == UNION {TreesOf(r) : r \in RowIds}

\* No row leads out of the set of trees.
ClosedUnderRows(S) == \A r \in RowIds : TreesOf(r) \cap S # {} => TreesOf(r) \subseteq S
Connected(t, u) == \A S \in SUBSET Trees : t \in S /\ ClosedUnderRows(S) => u \in S

\* Two trees have one island exactly if rows connect them, the trees that no
\* row touches have none, and the islands are numbered without a gap: the
\* promise of island() to the solver, which works on each of 0..nisland - 1
\* and on no other tree.
PartitionExact ==
  stage \notin {"idle", "fill"} =>
    /\ \A t \in Trees : tree_island[t] = -1 <=> t \notin Touched
    /\ \A t, u \in Touched : tree_island[t] = tree_island[u] <=> Connected(t, u)
    /\ {tree_island[t] : t \in Touched} = 0..nisland - 1

\* Once the fill has ended no row touches the trees of two islands, which are
\* solved at once without knowing of each other (_compute_efc_tree gives a
\* row to the island of its first tree and looks at no other).
RowsInsideIslands ==
  stage \notin {"idle", "fill"} =>
    \A r \in RowIds : \A t \in TreesOf(r) : tree_island[t] = RowIsland(r) /\ RowIsland(r) >= 0

\* The stack of a world holds at most the ntree * ntree elements that
\* flood_fill allocates: the kernel does not check, and a push beyond them
\* would write into the stack of the next world.
StackFits == Len(stack) <= ntree * ntree

\* The maps of the degrees of freedom are inverse to each other, an island's
\* are one block, the blocks are in the order of the islands with the
\* unconstrained ones last, and a block keeps the order of the model (the
\* comment in _island_map_dofs: "identical to MuJoCo C's serial enumeration").
DofMapsInverse ==
  stage \in {"gather", "solve", "scatter"} =>
    /\ \A d \in Dofs : map_idof2dof[map_dof2idof[d]] = d /\ dof_islandid[map_dof2idof[d]] = DofIsland(d)
    /\ \A i, j \in Dofs : i < j =>
         \/ dof_islandid[i] = dof_islandid[j] /\ map_idof2dof[i] < map_idof2dof[j]
         \/ dof_islandid[i] # -1 /\ (dof_islandid[j] = -1 \/ dof_islandid[i] < dof_islandid[j])

\* Every row of an island has one element, the islands follow each other, and
\* in an island equality rows come first, then friction rows, then the others,
\* each kind in its old order, which is the order of make_constraint: the
\* solver takes the kind of an element from its distance to the island's start.
IslandBlocks ==
  stage \in {"gather", "solve", "scatter"} =>
    /\ \A r \in RowIds : RowIsland(r) >= 0 =>
         Cardinality({ic \in RowIds : efc_islandid[ic] = RowIsland(r) /\ map_iefc2efc[ic] = r}) = 1
    /\ \A ic, jc \in RowIds : ic < jc =>
         \/ efc_islandid[jc] = -1
         \/ efc_islandid[ic] # -1 /\ efc_islandid[ic] < efc_islandid[jc]
         \/ /\ efc_islandid[ic] = efc_islandid[jc]
            /\ map_iefc2efc[ic] < map_iefc2efc[jc]

\* The maps say where each row and each degree of freedom of an island is.
MapsExact == DofMapsInverse /\ IslandBlocks

\* If every row touches a tree, each row gets its own force back, each
\* constrained degree of freedom its own acceleration and each other one the
\* smooth acceleration.  A row that touches none spoils it: its element at the
\* end of map_iefc2efc keeps the 0 of _init_efc_arrays.
ResultsExact ==
  stage = "done" /\ (\A r \in RowIds : TreesOf(r) # {}) =>
    /\ \A r \in RowIds : force[r] = r
    /\ \A d \in Dofs : qacc[d] = IF TreeOf[d] \in Touched THEN d ELSE Smooth

\* The fill comes to an end: every iteration of the while loop takes an
\* element off the stack, and elements come only from a tree that was new.
FillEnds == (stage = "fill") ~> (stage = "map")
=============================================================================

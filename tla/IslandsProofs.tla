---------------------------- MODULE IslandsProofs ----------------------------
(***************************************************************************)
(* Proofs about Islands, for any forest and any rows.  The flood fill      *)
(* finds the connected components, and its stack never needs more than the *)
(* elements that are allocated for it.  The maps number the rows and the   *)
(* degrees of freedom island by island, and the solver's results come back *)
(* to where they belong.                                                   *)
(***************************************************************************)
EXTENDS IslandsInv, FiniteSetTheorems, TLAPS

-----------------------------------------------------------------------------
(* Sequences.                                                              *)

LEMMA ElementsOf ==
  ASSUME NEW S, NEW s \in Seq(S)
  PROVE  Range1(s) \subseteq S /\ Len(s) \in Nat /\ DOMAIN s = 1..Len(s)
BY DEF Range1

\* The top of the stack, and what is below it.
LEMMA TopAndBelow ==
  ASSUME stack \in Seq(Trees), stack # <<>>
  PROVE  /\ Top \in Trees /\ Top \in Range1(stack)
         /\ Below \in Seq(Trees) /\ Len(Below) = Len(stack) - 1 /\ Len(stack) \in Nat
         /\ Range1(stack) = Range1(Below) \cup {Top}
<1>1. Len(stack) \in Nat \ {0} /\ DOMAIN stack = 1..Len(stack)
  OBVIOUS
<1>2. Top \in Trees /\ Top \in Range1(stack)
  BY <1>1 DEF Top, Range1
<1>3. Below \in Seq(Trees) /\ Len(Below) = Len(stack) - 1
  BY <1>1 DEF Below
<1>4. \A k \in 1..Len(stack) - 1 : Below[k] = stack[k]
  BY <1>1 DEF Below
<1>5. DOMAIN Below = 1..Len(stack) - 1
  BY <1>3, <1>1
<1>6. Range1(stack) \subseteq Range1(Below) \cup {Top}
  BY <1>1, <1>4, <1>5 DEF Range1, Top
<1>7. Range1(Below) \subseteq Range1(stack)
  BY <1>1, <1>4, <1>5 DEF Range1
<1> QED
  BY <1>1, <1>2, <1>3, <1>6, <1>7

LEMMA Pushed ==
  ASSUME NEW s \in Seq(Trees), NEW p \in Seq(Trees)
  PROVE  /\ s \o p \in Seq(Trees) /\ Len(s \o p) = Len(s) + Len(p)
         /\ Range1(s \o p) = Range1(s) \cup Range1(p)
<1> DEFINE n == Len(p)
<1>1. DOMAIN p = 1..n /\ n \in Nat
  OBVIOUS
<1>2. /\ s \o p \in Seq(Trees) /\ Len(s \o p) = Len(s) + n
      /\ \A k \in 1..Len(s) : (s \o p)[k] = s[k]
      /\ \A k \in 1..n : (s \o p)[Len(s) + k] = p[k]
  BY <1>1
<1>3. DOMAIN (s \o p) = 1..Len(s) + n /\ DOMAIN s = 1..Len(s) /\ Len(s) \in Nat
  BY <1>2
<1>4. Range1(s) \subseteq Range1(s \o p)
  BY <1>2, <1>3 DEF Range1
<1>5. Range1(p) \subseteq Range1(s \o p)
  <2> SUFFICES ASSUME NEW k \in 1..n PROVE p[k] \in Range1(s \o p)
    BY <1>1 DEF Range1
  <2>1. Len(s) + k \in DOMAIN (s \o p)
    BY <1>3
  <2>2. (s \o p)[Len(s) + k] = p[k]
    BY <1>2
  <2> QED
    BY <2>1, <2>2 DEF Range1
<1>6. Range1(s \o p) \subseteq Range1(s) \cup Range1(p)
  <2> SUFFICES ASSUME NEW k \in 1..Len(s) + n PROVE (s \o p)[k] \in Range1(s) \cup Range1(p)
    BY <1>3 DEF Range1
  <2>1. CASE k <= Len(s)
    <3>1. k \in 1..Len(s)
      BY <1>3, <2>1
    <3> QED
      BY <1>2, <1>3, <3>1 DEF Range1
  <2>2. CASE k > Len(s)
    <3>1. k - Len(s) \in 1..n /\ Len(s) + (k - Len(s)) = k
      BY <1>3, <2>2
    <3> QED
      BY <1>1, <1>2, <3>1 DEF Range1
  <2> QED
    BY <1>3, <2>1, <2>2
<1> QED
  BY <1>2, <1>4, <1>5, <1>6

-----------------------------------------------------------------------------
(* The graph of trees.                                                     *)

LEMMA RowFacts ==
  ASSUME GraphOK
  PROVE  \A r \in RowIds : /\ TreesOf(r) \subseteq Trees
                           /\ TreesOf(r) # {} => rows[r + 1].trees[1] \in TreesOf(r)
                           /\ rows[r + 1].trees = <<>> <=> TreesOf(r) = {}
<1>1. rows \in Seq(Row)
  <2>1. CASE rows = <<>>
    BY <2>1
  <2>2. CASE rows \in Systems
    BY <2>2, SystemsAssumption
  <2> QED
    BY <2>1, <2>2 DEF GraphOK
<1> SUFFICES ASSUME NEW r \in RowIds
             PROVE  /\ TreesOf(r) \subseteq Trees
                    /\ TreesOf(r) # {} => rows[r + 1].trees[1] \in TreesOf(r)
                    /\ rows[r + 1].trees = <<>> <=> TreesOf(r) = {}
  OBVIOUS
<1>2. r + 1 \in DOMAIN rows
  BY <1>1 DEF RowIds
<1>3. rows[r + 1] \in Row
  BY <1>1, <1>2
<1> DEFINE s == rows[r + 1].trees
<1>4. s \in Seq(Trees)
  BY <1>3 DEF Row
<1> HIDE DEF s
<1>5. TreesOf(r) = Range1(s)
  BY DEF TreesOf, s
<1>6. Range1(s) \subseteq Trees /\ DOMAIN s = 1..Len(s) /\ Len(s) \in Nat
  BY <1>4, ElementsOf
<1>7. s # <<>> => 1 \in DOMAIN s
  BY <1>4
<1>8. s = <<>> => DOMAIN s = {}
  OBVIOUS
<1>9. s # <<>> => s[1] \in Range1(s)
  BY <1>7 DEF Range1
<1>10. s = <<>> => Range1(s) = {}
  BY <1>8 DEF Range1
<1> QED
  BY <1>5, <1>6, <1>9, <1>10 DEF s

\* What a row with the trees T, of which f is the first, joins.
Joins(T, f, t, u) ==
  \/ (T \ {f} = {} /\ t = f /\ u = f)
  \/ (t = f /\ u \in T \ {f})
  \/ (u = f /\ t \in T \ {f})

\* The edges, row by row.
LEMMA EdgeFacts ==
  ASSUME GraphOK
  PROVE  \A t, u : <<t, u>> \in tree_tree <=>
           \E r \in RowIds : TreesOf(r) # {} /\ Joins(TreesOf(r), rows[r + 1].trees[1], t, u)
<1>1. rows \in Seq(Row)
  <2>1. CASE rows = <<>>
    BY <2>1
  <2>2. CASE rows \in Systems
    BY <2>2, SystemsAssumption
  <2> QED
    BY <2>1, <2>2 DEF GraphOK
<1>2. DOMAIN rows = 1..Len(rows) /\ Len(rows) \in Nat
  BY <1>1
<1> DEFINE first(k) == rows[k].trees[1]
           others(k) == Range1(rows[k].trees) \ {first(k)}
           touching == {k \in DOMAIN rows : rows[k].trees # <<>>}
           edges(k) == IF others(k) = {} THEN {<<first(k), first(k)>>}
                       ELSE {first(k)} \X others(k) \cup others(k) \X {first(k)}
<1>3. tree_tree = UNION {edges(k) : k \in touching}
  BY DEF GraphOK, Edges
<1>4. ASSUME NEW k, NEW t, NEW u
      PROVE  <<t, u>> \in edges(k) <=> Joins(Range1(rows[k].trees), first(k), t, u)
  <2>1. CASE others(k) = {}
    BY <2>1 DEF Joins
  <2>2. CASE others(k) # {}
    BY <2>2 DEF Joins
  <2> QED
    BY <2>1, <2>2
<1> HIDE DEF edges
<1> SUFFICES ASSUME NEW t, NEW u
             PROVE  <<t, u>> \in tree_tree <=>
                      \E r \in RowIds : TreesOf(r) # {} /\ Joins(TreesOf(r), rows[r + 1].trees[1], t, u)
  OBVIOUS
<1>5. ASSUME <<t, u>> \in tree_tree
      PROVE  \E r \in RowIds : TreesOf(r) # {} /\ Joins(TreesOf(r), rows[r + 1].trees[1], t, u)
  <2>1. PICK k \in DOMAIN rows : rows[k].trees # <<>> /\ <<t, u>> \in edges(k)
    BY <1>3, <1>5
  <2>2. k - 1 \in RowIds /\ (k - 1) + 1 = k
    BY <1>2 DEF RowIds
  <2>3. TreesOf(k - 1) = Range1(rows[k].trees)
    BY <2>2 DEF TreesOf
  <2>4. TreesOf(k - 1) # {}
    BY <2>1, <2>2, RowFacts
  <2>5. Joins(Range1(rows[k].trees), first(k), t, u)
    BY <1>4, <2>1
  <2> QED
    BY <2>2, <2>3, <2>4, <2>5
<1>6. ASSUME NEW r \in RowIds, TreesOf(r) # {}, Joins(TreesOf(r), rows[r + 1].trees[1], t, u)
      PROVE  <<t, u>> \in tree_tree
  <2>1. r + 1 \in DOMAIN rows
    BY <1>2 DEF RowIds
  <2>2. r + 1 \in touching
    BY <1>6, <2>1, RowFacts
  <2>3. <<t, u>> \in edges(r + 1)
    BY <1>4, <1>6 DEF TreesOf
  <2> QED
    BY <1>3, <2>2, <2>3
<1> QED
  BY <1>5, <1>6

\* Neighbours are mutual, and a tree has one just if a row touches it.
LEMMA GraphFacts ==
  ASSUME GraphOK
  PROVE  /\ Touched \subseteq Trees
         /\ \A t, u \in Trees : u \in Neighbours(t) <=> t \in Neighbours(u)
         /\ \A t \in Trees : Neighbours(t) # {} <=> t \in Touched
         /\ \A t, u \in Trees : u \in Neighbours(t) => u \in Touched
         /\ \A S \in SUBSET Trees :
              ClosedUnderRows(S) <=> \A t \in S : \A u \in Trees : u \in Neighbours(t) => u \in S
<1>1. Touched \subseteq Trees
  BY RowFacts DEF Touched
<1>2. \A t, u \in Trees : u \in Neighbours(t) <=> <<t, u>> \in tree_tree
  BY DEF Neighbours
<1>0. \A T, f, t, u : Joins(T, f, t, u) <=> Joins(T, f, u, t)
  BY DEF Joins
<1>3. \A t, u \in Trees : u \in Neighbours(t) <=> t \in Neighbours(u)
  BY <1>2, <1>0, EdgeFacts
<1>4. \A t, u \in Trees : u \in Neighbours(t) => \E r \in RowIds : t \in TreesOf(r) /\ u \in TreesOf(r)
  <2> SUFFICES ASSUME NEW t \in Trees, NEW u \in Trees, <<t, u>> \in tree_tree
               PROVE  \E r \in RowIds : t \in TreesOf(r) /\ u \in TreesOf(r)
    BY <1>2
  <2>1. PICK r \in RowIds : TreesOf(r) # {} /\ Joins(TreesOf(r), rows[r + 1].trees[1], t, u)
    BY EdgeFacts
  <2>2. rows[r + 1].trees[1] \in TreesOf(r)
    BY <2>1, RowFacts
  <2> QED
    BY <2>1, <2>2 DEF Joins
<1>5. \A t, u \in Trees : u \in Neighbours(t) => u \in Touched /\ t \in Touched
  BY <1>4 DEF Touched
<1>6. ASSUME NEW t \in Touched PROVE Neighbours(t) # {}
  <2>1. PICK r \in RowIds : t \in TreesOf(r)
    BY DEF Touched
  <2> DEFINE f == rows[r + 1].trees[1]
  <2>2. f \in TreesOf(r) /\ f \in Trees /\ t \in Trees /\ TreesOf(r) \subseteq Trees
    BY <2>1, <1>1, RowFacts
  <2> HIDE DEF f
  <2>3. CASE t # f
    <3>1. <<t, f>> \in tree_tree
      BY <2>1, <2>2, <2>3, EdgeFacts DEF f, Joins
    <3> QED
      BY <2>2, <3>1 DEF Neighbours
  <2>4. CASE t = f /\ TreesOf(r) \subseteq {f}
    <3>1. <<t, t>> \in tree_tree
      BY <2>1, <2>2, <2>4, EdgeFacts DEF f, Joins
    <3> QED
      BY <2>2, <3>1 DEF Neighbours
  <2>5. CASE t = f /\ ~ TreesOf(r) \subseteq {f}
    <3>1. PICK u \in TreesOf(r) : u # f
      BY <2>5
    <3>2. <<t, u>> \in tree_tree
      BY <2>1, <2>2, <2>5, <3>1, EdgeFacts DEF f, Joins
    <3> QED
      BY <2>2, <3>1, <3>2 DEF Neighbours
  <2> QED
    BY <2>3, <2>4, <2>5
<1>7. ASSUME NEW S \in SUBSET Trees, ClosedUnderRows(S), NEW t \in S, NEW u \in Neighbours(t)
      PROVE  u \in S
  <2>1. PICK r \in RowIds : t \in TreesOf(r) /\ u \in TreesOf(r)
    BY <1>4, <1>7 DEF Neighbours
  <2> QED
    BY <1>7, <2>1 DEF ClosedUnderRows
<1>8. ASSUME NEW S \in SUBSET Trees, \A t \in S : \A u \in Trees : u \in Neighbours(t) => u \in S
      PROVE  ClosedUnderRows(S)
  <2> SUFFICES ASSUME NEW r \in RowIds, NEW t \in TreesOf(r) \cap S, NEW u \in TreesOf(r)
               PROVE  u \in S
    BY DEF ClosedUnderRows
  <2> DEFINE f == rows[r + 1].trees[1]
  <2>1. f \in TreesOf(r) /\ TreesOf(r) \subseteq Trees
    BY RowFacts
  <2>2. t # f => <<t, f>> \in tree_tree
    BY EdgeFacts DEF Joins
  <2>3. u # f => <<f, u>> \in tree_tree
    BY EdgeFacts DEF Joins
  <2> HIDE DEF f
  <2>4. f \in S
    BY <1>8, <2>1, <2>2 DEF Neighbours
  <2> QED
    BY <1>8, <2>1, <2>3, <2>4 DEF Neighbours
<1> QED
  BY <1>1, <1>3, <1>5, <1>6, <1>7, <1>8 DEF Neighbours

\* Connected is symmetric: the rest of a closed set is closed.
LEMMA ConnectedFromRoot ==
  ASSUME GraphOK, NEW root \in Trees, NEW t \in Trees, NEW u \in Trees,
         Connected(root, t), Connected(root, u)
  PROVE  Connected(t, u)
<1> SUFFICES ASSUME NEW S \in SUBSET Trees, t \in S, ClosedUnderRows(S) PROVE u \in S
  BY DEF Connected
<1>1. CASE root \in S
  BY <1>1 DEF Connected
<1>2. CASE root \notin S
  <2>1. ClosedUnderRows(Trees \ S)
    <3>1. ASSUME NEW r \in RowIds, NEW x \in TreesOf(r), x \notin S, x \in Trees, NEW y \in TreesOf(r), y \in S
          PROVE  FALSE
      BY <3>1 DEF ClosedUnderRows
    <3> QED
      BY <3>1, RowFacts DEF ClosedUnderRows
  <2>2. t \in Trees \ S
    BY <1>2, <2>1 DEF Connected
  <2> QED
    BY <2>2
<1> QED
  BY <1>1, <1>2

-----------------------------------------------------------------------------
(* The start of a fill.                                                    *)

Fresh ==
  /\ GraphOK /\ stage \in {"idle", "fill"}
  /\ next = 0 /\ stack = <<>> /\ filling = FALSE
  /\ nisland = 0 /\ tree_island = [t \in Trees |-> -1]

LEMMA LabelledCount == IsFiniteSet(AllLabelled) /\ Cardinality(AllLabelled) \in 0..ntree
<1>1. IsFiniteSet(Trees) /\ Cardinality(Trees) = ntree
  BY FS_Interval, SizesAssumption DEF Trees
<1>2. AllLabelled \subseteq Trees
  BY DEF AllLabelled
<1>3. IsFiniteSet(AllLabelled) /\ Cardinality(AllLabelled) <= Cardinality(Trees)
  BY <1>1, <1>2, FS_Subset
<1>4. Cardinality(AllLabelled) \in Nat
  BY <1>3, FS_CardinalityType
<1> QED
  BY <1>1, <1>3, <1>4, SizesAssumption

LEMMA FreshInv == Fresh => IndInv
<1> SUFFICES ASSUME Fresh PROVE IndInv
  OBVIOUS
<1> USE DEF Fresh
<1>1. \A t \in Trees : tree_island[t] = -1 /\ t >= 0
  BY SizesAssumption DEF Trees
<1>2. Range1(stack) = {}
  BY DEF Range1
<1>3. FillTypes
  <2>1. tree_island \in [Trees -> Int]
    OBVIOUS
  <2>2. stack \in Seq(Trees)
    OBVIOUS
  <2>3. next \in 0..ntree /\ nisland \in Nat
    BY SizesAssumption
  <2>4. filling \in BOOLEAN
    BY Zenon
  <2> HIDE DEF Fresh
  <2> QED
    BY <2>1, <2>2, <2>3, <2>4 DEF FillTypes
<1>4. PlaceOK
  BY DEF PlaceOK
<1>5. LabelsOK
  <2>1. \A t \in Trees : tree_island[t] \in -1..nisland /\ tree_island[t] # nisland
    BY <1>1
  <2>2. \A t \in Trees : ~ Labelled(t) /\ ~ (t < next)
    BY <1>1 DEF Labelled, Trees
  <2>3. 0..nisland - 1 = {}
    OBVIOUS
  <2> QED
    BY <2>1, <2>2, <2>3 DEF LabelsOK
<1>6. StackOK
  BY <1>2 DEF StackOK
<1>7. ClosedOK
  BY <1>1 DEF ClosedOK, Labelled
<1>8. JoinedOK
  BY <1>1 DEF JoinedOK, Labelled
<1>9. SizeOK
  <2>1. Cardinality(AllLabelled) = 0
    <3>1. AllLabelled = {}
      BY <1>1 DEF AllLabelled, Labelled
    <3> QED
      BY <3>1, FS_EmptySet
  <2> QED
    BY <2>1, SizesAssumption DEF SizeOK
<1> QED
  BY <1>3, <1>4, <1>5, <1>6, <1>7, <1>8, <1>9 DEF IndInv

LEMMA NoEdges == Edges(<<>>) = {}
<1>1. {k \in DOMAIN <<>> : <<>>[k].trees # <<>>} = {}
  OBVIOUS
<1> QED
  BY <1>1 DEF Edges

LEMMA InitInv == Init => IndInv
<1>1. Init => Fresh
  BY NoEdges DEF Init, Fresh, GraphOK
<1> QED
  BY <1>1, FreshInv

LEMMA DiscoverInv == IndInv /\ (\E system \in Systems : Discover(system)) => IndInv'
<1>1. (\E system \in Systems : Discover(system)) => Fresh'
  BY DEF Discover, Fresh, GraphOK
<1> QED
  BY <1>1, FreshInv, PTL

LEMMA NextStepInv == IndInv /\ NextStep => IndInv'
<1>1. IndInv /\ NextStep => Fresh'
  BY NoEdges DEF NextStep, Fresh, GraphOK, IndInv, PlaceOK, FillTypes
<1> QED
  BY <1>1, FreshInv, PTL

-----------------------------------------------------------------------------
(* Steps that leave the fill as it is.                                     *)

\* The graph stays as it is.
LEMMA SameGraph ==
  ASSUME UNCHANGED graph
  PROVE  /\ GraphOK' = GraphOK /\ Touched' = Touched
         /\ \A t \in Trees : Neighbours(t)' = Neighbours(t)
         /\ \A t, u \in Trees : Connected(t, u)' = Connected(t, u)
<1> USE DEF graph
<1>1. GraphOK' = GraphOK
  BY DEF GraphOK
<1>2. Touched' = Touched
  BY DEF Touched, RowIds, TreesOf
<1>3. \A t \in Trees : Neighbours(t)' = Neighbours(t)
  BY DEF Neighbours
<1>4. \A t, u \in Trees : Connected(t, u)' = Connected(t, u)
  BY DEF Connected, ClosedUnderRows, RowIds, TreesOf
<1> QED
  BY <1>1, <1>2, <1>3, <1>4

LEMMA SameFill ==
  ASSUME IndInv, UNCHANGED <<graph, fill>>, PlaceOK'
  PROVE  IndInv'
<1> USE DEF IndInv, fill
<1>1. GraphOK' /\ FillTypes'
  BY SameGraph DEF FillTypes
<1>2. LabelsOK' /\ StackOK'
  BY SameGraph DEF LabelsOK, StackOK, Labelled, Label, Range1
<1>3. ClosedOK'
  BY SameGraph DEF ClosedOK, Labelled, Range1
<1>5. JoinedOK'
  <2>1. \A t, u \in Trees : Labelled(t)' /\ (tree_island[t] < nisland)' /\ (tree_island[u] = tree_island[t])'
          => Connected(t, u)'
    BY SameGraph DEF JoinedOK, Labelled
  <2>2. filling => next \in Trees /\ Label(nisland) \cup Range1(stack) \subseteq Trees
    <3>1. Range1(stack) \subseteq Trees
      BY ElementsOf DEF FillTypes
    <3>2. Label(nisland) \subseteq Trees
      BY DEF Label
    <3>3. filling => next \in Trees
      BY SizesAssumption DEF PlaceOK, FillTypes, Trees
    <3> QED
      BY <3>1, <3>2, <3>3
  <2>3. (Label(nisland) \cup Range1(stack))' = Label(nisland) \cup Range1(stack)
    BY DEF Label, Range1
  <2>4. (filling => \A u \in Label(nisland) \cup Range1(stack) : Connected(next, u))'
    BY <2>2, <2>3, SameGraph DEF JoinedOK
  <2> QED
    BY <2>1, <2>4 DEF JoinedOK
<1>4. SizeOK'
  BY DEF SizeOK, AllLabelled, Labelled
<1> QED
  BY <1>1, <1>2, <1>3, <1>4, <1>5

LEMMA LaterInv ==
  ASSUME IndInv, Discovered \/ Map \/ Gather \/ Solve \/ Scatter \/ UNCHANGED vars
  PROVE  IndInv'
<1>1. PlaceOK /\ FillTypes
  BY DEF IndInv
<1>2. UNCHANGED <<graph, fill>>
  BY DEF Discovered, Map, Gather, Solve, Scatter, vars
<1>3. UNCHANGED <<next, filling, stack>>
  BY <1>2 DEF fill
<1>4. \/ stage' = stage
      \/ stage = "fill" /\ next = ntree
      \/ stage \notin {"idle", "fill"} /\ stage' \notin {"idle", "fill"}
  BY DEF Discovered, Map, Gather, Solve, Scatter, vars
<1>5. PlaceOK'
  BY <1>1, <1>3, <1>4, SizesAssumption DEF PlaceOK, FillTypes
<1> QED
  BY <1>2, <1>5, SameFill

-----------------------------------------------------------------------------
(* The steps of the fill.                                                  *)

\* A step of the fill leaves the rows and the stage as they are.
LEMMA FillTyped ==
  ASSUME IndInv, Fill
  PROVE  /\ next \in Trees /\ next \in Nat /\ ntree \in Nat /\ nisland \in Nat /\ stage = "fill" /\ stage' = "fill"
         /\ next < ntree /\ tree_island \in [Trees -> Int] /\ stack \in Seq(Trees) /\ UNCHANGED graph
<1>1. Scanning /\ FillTypes
  BY DEF IndInv, Fill, Skip, Root, PopAgain, PopNew, Filled
<1>2. UNCHANGED graph /\ stage' = stage
  BY DEF Fill, Skip, Root, PopAgain, PopNew, Filled
<1> QED
  BY <1>1, <1>2, SizesAssumption DEF Scanning, FillTypes, Trees

LEMMA SkipInv ==
  ASSUME IndInv, Skip
  PROVE  IndInv'
<1> USE DEF IndInv, Skip
<1>1. UNCHANGED <<graph, stack, filling, nisland, tree_island, stage>> /\ next' = next + 1 /\ ~ filling
  OBVIOUS
<1>2. next \in Trees /\ next \in Nat /\ ntree \in Nat /\ stage = "fill" /\ next < ntree
  BY FillTyped DEF Fill
<1>3. stack = <<>>
  BY <1>1 DEF PlaceOK
<1>4. next \notin Touched \/ Labelled(next)
  BY <1>2, GraphFacts
<1> HIDE DEF Skip
<1>5. GraphOK' /\ FillTypes' /\ PlaceOK'
  BY <1>1, <1>2, <1>3, SameGraph DEF FillTypes, PlaceOK
<1>6. LabelsOK'
  <2>1. \A t \in Trees : t < next' => t < next \/ t = next
    BY <1>1, <1>2 DEF Trees
  <2>2. \A t \in Trees : Labelled(t)' = Labelled(t)
    BY <1>1 DEF Labelled
  <2>3. (\A t \in Trees : t < next /\ t \in Touched => Labelled(t))'
    BY <1>1, <1>4, <2>1, <2>2, SameGraph DEF LabelsOK
  <2>4. (\A k \in 0..nisland - 1 : Label(k) # {})'
    BY <1>1 DEF LabelsOK, Label
  <2>5. (\A t \in Trees : Labelled(t) => t \in Touched)'
    BY <1>1, <2>2, SameGraph DEF LabelsOK
  <2> QED
    BY <1>1, <2>3, <2>4, <2>5 DEF LabelsOK
<1>7. StackOK' /\ ClosedOK' /\ SizeOK'
  BY <1>1, SameGraph DEF StackOK, ClosedOK, SizeOK, Labelled, Range1, AllLabelled
<1>8. JoinedOK'
  BY <1>1, SameGraph DEF JoinedOK, Labelled
<1> QED
  BY <1>5, <1>6, <1>7, <1>8

LEMMA RootInv ==
  ASSUME IndInv, Root
  PROVE  IndInv'
<1> USE DEF IndInv, Root
<1>1. UNCHANGED <<graph, next, nisland, tree_island, stage>> /\ filling' = TRUE /\ stack' = <<next>> /\ ~ filling
  OBVIOUS
<1>2. next \in Trees /\ next \in Nat /\ ntree \in Nat /\ stage = "fill" /\ next < ntree
  BY FillTyped DEF Fill
<1>3. ~ Labelled(next) /\ next \in Touched
  BY <1>2, GraphFacts
<1>4. \A t \in Trees : tree_island[t] # nisland
  BY <1>1 DEF LabelsOK
<1>5. Range1(stack') = {next} /\ stack' \in Seq(Trees) /\ Len(stack') = 1
  <2>1. <<next>> \in Seq(Trees) /\ Len(<<next>>) = 1 /\ <<next>>[1] = next
    BY <1>2
  <2> QED
    BY <1>1, <2>1 DEF Range1
<1> HIDE DEF Root
<1>6. GraphOK' /\ FillTypes' /\ PlaceOK'
  BY <1>1, <1>2, <1>5, SameGraph DEF FillTypes, PlaceOK
<1>7. LabelsOK'
  <2>1. \A t \in Trees : Labelled(t)' = Labelled(t)
    BY <1>1 DEF Labelled
  <2>2. (\A k \in 0..nisland - 1 : Label(k) # {})'
    BY <1>1 DEF LabelsOK, Label
  <2>3. (\A t \in Trees : tree_island[t] \in -1..nisland /\ (tree_island[t] = nisland => filling))'
    BY <1>1 DEF LabelsOK
  <2>4. (\A t \in Trees : Labelled(t) => t \in Touched)' /\ (\A t \in Trees : t < next /\ t \in Touched => Labelled(t))'
    BY <1>1, <2>1, SameGraph DEF LabelsOK
  <2>5. (next \in Range1(stack) /\ ~ Labelled(next))'
    BY <1>1, <1>2, <1>3, <1>5, <2>1 DEF Range1
  <2> QED
    BY <2>2, <2>3, <2>4, <2>5 DEF LabelsOK
<1>8. StackOK'
  BY <1>1, <1>3, <1>5, SameGraph DEF StackOK, Range1
<1>9. ClosedOK'
  BY <1>1, <1>4, SameGraph DEF ClosedOK, Labelled
<1>10. JoinedOK'
  <2>1. Label(nisland)' = {}
    BY <1>1, <1>4 DEF Label
  <2>2. Connected(next, next)'
    BY DEF Connected
  <2>3. (filling => \A u \in Label(nisland) \cup Range1(stack) : Connected(next, u))'
    BY <1>1, <1>5, <2>1, <2>2 DEF Range1
  <2> QED
    BY <1>1, <2>3, SameGraph DEF JoinedOK, Labelled
<1>11. SizeOK'
  <2>1. Cardinality(AllLabelled) \in Nat /\ ntree - 1 \in Nat
    BY <1>2, LabelledCount
  <2>2. Cardinality(AllLabelled) * (ntree - 1) \in Nat
    BY <2>1
  <2> QED
    BY <1>1, <1>5, <2>2 DEF SizeOK, AllLabelled, Labelled
<1> QED
  BY <1>6, <1>7, <1>8, <1>9, <1>10, <1>11

LEMMA PopAgainInv ==
  ASSUME IndInv, PopAgain
  PROVE  IndInv'
<1> USE DEF IndInv, PopAgain
<1>1. /\ UNCHANGED <<graph, next, nisland, tree_island, stage, filling>> /\ stack' = Below
      /\ filling /\ Labelled(Top) /\ stack # <<>>
  OBVIOUS
<1>2. next \in Trees /\ next \in Nat /\ ntree \in Nat /\ nisland \in Nat /\ stage = "fill" /\ next < ntree
      /\ tree_island \in [Trees -> Int] /\ stack \in Seq(Trees)
  BY FillTyped DEF Fill
<1> HIDE DEF PopAgain
<1>3. /\ Top \in Trees /\ Top \in Range1(stack) /\ stack' \in Seq(Trees) /\ Len(stack') = Len(stack) - 1
      /\ Range1(stack) = Range1(stack') \cup {Top} /\ Len(stack) \in Nat
  BY <1>1, <1>2, TopAndBelow
<1>4. Range1(stack)' = Range1(stack')
  BY DEF Range1
<1>5. GraphOK' /\ FillTypes' /\ PlaceOK'
  BY <1>1, <1>2, <1>3, SameGraph DEF FillTypes, PlaceOK
<1>6. LabelsOK'
  <2>1. \A t \in Trees : Labelled(t)' = Labelled(t)
    BY <1>1 DEF Labelled
  <2>2. (\A k \in 0..nisland - 1 : Label(k) # {})'
    BY <1>1 DEF LabelsOK, Label
  <2>3. (\A t \in Trees : tree_island[t] \in -1..nisland /\ (tree_island[t] = nisland => filling))'
    BY <1>1 DEF LabelsOK
  <2>4. (\A t \in Trees : Labelled(t) => t \in Touched)' /\ (\A t \in Trees : t < next /\ t \in Touched => Labelled(t))'
    BY <1>1, <2>1, SameGraph DEF LabelsOK
  <2>5. (tree_island[next] = nisland \/ (next \in Range1(stack) /\ ~ Labelled(next)))'
    BY <1>1, <1>2, <1>3, <1>4, <2>1 DEF LabelsOK
  <2> QED
    BY <2>2, <2>3, <2>4, <2>5 DEF LabelsOK
<1>7. StackOK'
  BY <1>1, <1>3, <1>4, SameGraph DEF StackOK
<1>8. ClosedOK'
  <2>1. ASSUME NEW t \in Trees, tree_island[t] = nisland, Top \in Neighbours(t)
        PROVE  tree_island[Top] = nisland
    <3>1. t \in Neighbours(Top)
      BY <1>3, <2>1, GraphFacts
    <3>2. tree_island[Top] \in -1..nisland
      BY <1>3 DEF LabelsOK
    <3> QED
      BY <1>1, <1>2, <1>3, <2>1, <3>1, <3>2 DEF ClosedOK
  <2>2. (\A t, u \in Trees : tree_island[t] = nisland /\ u \in Neighbours(t) =>
           tree_island[u] = nisland \/ u \in Range1(stack))'
    BY <1>1, <1>3, <1>4, <2>1, SameGraph DEF ClosedOK
  <2> QED
    BY <1>1, <2>2, SameGraph DEF ClosedOK, Labelled
<1>9. JoinedOK'
  <2>1. Label(nisland)' = Label(nisland) /\ Label(nisland) \cup Range1(stack) \subseteq Trees
    BY <1>1, <1>2, ElementsOf DEF Label
  <2>2. \A u \in Label(nisland) \cup Range1(stack) : Connected(next, u)'
    BY <1>1, <1>2, <2>1, SameGraph DEF JoinedOK
  <2>3. (Label(nisland) \cup Range1(stack))' \subseteq Label(nisland) \cup Range1(stack)
    BY <1>3, <1>4, <2>1
  <2>4. (filling => \A u \in Label(nisland) \cup Range1(stack) : Connected(next, u))'
    BY <2>2, <2>3
  <2> QED
    BY <1>1, <2>4, SameGraph DEF JoinedOK, Labelled
<1>10. SizeOK'
  <2>1. Cardinality(AllLabelled) \in Nat /\ ntree - 1 \in Nat
    BY <1>2, LabelledCount
  <2>2. Cardinality(AllLabelled) * (ntree - 1) \in Nat
    BY <2>1
  <2> QED
    BY <1>1, <1>3, <2>2 DEF SizeOK, AllLabelled, Labelled
<1> QED
  BY <1>5, <1>6, <1>7, <1>8, <1>9, <1>10

\* What PopNew pushes: at most the other trees.
LEMMA PushFacts ==
  ASSUME ntree \in Nat, Top \in Trees
  PROVE  /\ ToPush \subseteq Trees /\ Cardinality(ToPush) \in 0..ntree - 1
         /\ \A u \in Trees : u \in ToPush <=> u \in Neighbours(Top) /\ ~ Labelled(u) /\ u # Top
<1>1. IsFiniteSet(Trees) /\ Cardinality(Trees) = ntree
  BY FS_Interval, SizesAssumption DEF Trees
<1>2. IsFiniteSet(Trees \ {Top}) /\ Cardinality(Trees \ {Top}) = ntree - 1
  BY <1>1, FS_RemoveElement
<1>3. ToPush \subseteq Trees \ {Top}
  BY DEF ToPush, Neighbours
<1>4. IsFiniteSet(ToPush) /\ Cardinality(ToPush) <= ntree - 1
  BY <1>2, <1>3, FS_Subset
<1>5. Cardinality(ToPush) \in Nat
  BY <1>4, FS_CardinalityType
<1> QED
  BY <1>3, <1>4, <1>5 DEF ToPush

LEMMA PopNewInv ==
  ASSUME IndInv, PopNew
  PROVE  IndInv'
<1> USE DEF IndInv
<1>1. /\ UNCHANGED <<graph, next, nisland, stage, filling>>
      /\ tree_island' = [tree_island EXCEPT ![Top] = nisland]
      /\ filling /\ ~ Labelled(Top) /\ stack # <<>>
  BY DEF PopNew
<1>2. next \in Trees /\ next \in Nat /\ ntree \in Nat /\ nisland \in Nat /\ stage = "fill" /\ next < ntree
      /\ tree_island \in [Trees -> Int] /\ stack \in Seq(Trees)
  BY FillTyped DEF Fill
<1>3. /\ Top \in Trees /\ Top \in Range1(stack) /\ Below \in Seq(Trees) /\ Len(Below) = Len(stack) - 1
      /\ Range1(stack) = Range1(Below) \cup {Top} /\ Len(stack) \in Nat
  BY <1>1, <1>2, TopAndBelow
<1>4. /\ ToPush \subseteq Trees /\ Cardinality(ToPush) \in 0..ntree - 1
      /\ \A u \in Trees : u \in ToPush <=> u \in Neighbours(Top) /\ ~ Labelled(u) /\ u # Top
  BY <1>2, <1>3, PushFacts
<1>5. PICK p \in [1..Cardinality(ToPush) -> ToPush] : Range1(p) = ToPush /\ stack' = Below \o p
  BY DEF PopNew, Ascending
<1>6. /\ stack' \in Seq(Trees) /\ Len(stack') = Len(stack) - 1 + Cardinality(ToPush)
      /\ Range1(stack') = Range1(Below) \cup ToPush
  <2>1. Cardinality(ToPush) \in Nat /\ ToPush \in SUBSET Trees
    BY <1>2, <1>4
  <2>2. p \in Seq(Trees) /\ Len(p) = Cardinality(ToPush)
    BY <1>5, <2>1
  <2>3. /\ Below \o p \in Seq(Trees) /\ Len(Below \o p) = Len(Below) + Len(p)
        /\ Range1(Below \o p) = Range1(Below) \cup Range1(p)
    BY <1>3, <2>2, Pushed
  <2> QED
    BY <1>3, <1>5, <2>2, <2>3
<1>7. Range1(stack)' = Range1(stack')
  BY DEF Range1
<1>8. /\ tree_island' \in [Trees -> Int] /\ tree_island'[Top] = nisland
      /\ \A t \in Trees : t # Top => tree_island'[t] = tree_island[t]
  BY <1>1, <1>2, <1>3
<1>9. \A t \in Trees : Labelled(t)' <=> Labelled(t) \/ t = Top
  BY <1>2, <1>8 DEF Labelled
<1>10. tree_island[Top] = -1
  BY <1>1 DEF Labelled
<1>11. GraphOK' /\ FillTypes' /\ PlaceOK'
  BY <1>1, <1>2, <1>6, <1>8, SameGraph DEF FillTypes, PlaceOK
<1>12. Top \in Touched /\ \A u \in ToPush : u \in Touched
  BY <1>3, <1>4, GraphFacts DEF StackOK
<1>13. LabelsOK'
  <2>1. (\A t \in Trees : tree_island[t] \in -1..nisland /\ (tree_island[t] = nisland => filling))'
    BY <1>1, <1>2, <1>8 DEF LabelsOK
  <2>2. (\A t \in Trees : Labelled(t) => t \in Touched)'
    BY <1>1, <1>9, <1>12, SameGraph DEF LabelsOK
  <2>3. (\A t \in Trees : t < next /\ t \in Touched => Labelled(t))'
    BY <1>1, <1>9, SameGraph DEF LabelsOK
  <2>4. ASSUME NEW k \in 0..nisland - 1 PROVE Label(k)' # {}
    <3>1. PICK t \in Trees : tree_island[t] = k
      BY <2>4 DEF LabelsOK, Label
    <3>2. t # Top
      BY <1>10, <2>4, <3>1
    <3> QED
      BY <1>8, <3>1, <3>2 DEF Label
  <2>5. (tree_island[next] = nisland \/ (next \in Range1(stack) /\ ~ Labelled(next)))'
    <3>1. CASE next = Top
      BY <1>1, <1>8, <3>1
    <3>2. CASE next # Top
      BY <1>1, <1>2, <1>3, <1>6, <1>7, <1>8, <1>9, <3>2 DEF LabelsOK
    <3> QED
      BY <3>1, <3>2
  <2> QED
    BY <1>1, <2>1, <2>2, <2>3, <2>4, <2>5 DEF LabelsOK
<1>14. StackOK'
  BY <1>1, <1>3, <1>6, <1>7, <1>12, SameGraph DEF StackOK
<1>15. ClosedOK'
  <2>1. ASSUME NEW t \in Trees, NEW u \in Trees, Labelled(t)', tree_island'[t] < nisland, u \in Neighbours(t)
        PROVE  tree_island'[u] = tree_island'[t]
    <3>1. t # Top /\ tree_island'[t] = tree_island[t] /\ Labelled(t)
      BY <1>2, <1>8, <1>9, <2>1
    <3>2. tree_island[u] = tree_island[t]
      BY <2>1, <3>1 DEF ClosedOK
    <3>3. u # Top
      BY <1>1, <3>1, <3>2 DEF Labelled
    <3> QED
      BY <1>8, <3>1, <3>2, <3>3
  <2>2. ASSUME NEW u \in Trees, u \in Neighbours(Top)
        PROVE  tree_island'[u] = nisland \/ u \in Range1(stack')
    <3>1. CASE u = Top
      BY <1>8, <3>1
    <3>2. CASE u # Top /\ ~ Labelled(u)
      BY <1>4, <1>6, <2>2, <3>2
    <3>3. CASE u # Top /\ Labelled(u)
      <4>1. Top \in Neighbours(u)
        BY <1>3, <2>2, GraphFacts
      <4>2. ~ (tree_island[u] < nisland)
        BY <1>1, <1>3, <3>3, <4>1 DEF ClosedOK, Labelled
      <4>3. tree_island[u] \in -1..nisland
        BY DEF LabelsOK
      <4> QED
        BY <1>2, <1>8, <3>3, <4>2, <4>3
    <3> QED
      BY <3>1, <3>2, <3>3
  <2>3. ASSUME NEW t \in Trees, NEW u \in Trees, t # Top, tree_island'[t] = nisland, u \in Neighbours(t)
        PROVE  tree_island'[u] = nisland \/ u \in Range1(stack')
    <3>1. tree_island[u] = nisland \/ u \in Range1(stack)
      BY <1>8, <2>3 DEF ClosedOK
    <3>2. CASE u = Top
      BY <1>8, <3>2
    <3>3. CASE u # Top
      BY <1>3, <1>6, <1>8, <3>1, <3>3
    <3> QED
      BY <3>2, <3>3
  <2>4. (\A t, u \in Trees : tree_island[t] = nisland /\ u \in Neighbours(t) =>
           tree_island[u] = nisland \/ u \in Range1(stack))'
    BY <1>1, <1>7, <2>2, <2>3, SameGraph
  <2>5. (\A t, u \in Trees : Labelled(t) /\ tree_island[t] < nisland /\ u \in Neighbours(t) =>
           tree_island[u] = tree_island[t])'
    BY <1>1, <2>1, SameGraph
  <2> QED
    BY <2>4, <2>5 DEF ClosedOK
<1>16. JoinedOK'
  <2>1. ASSUME NEW t \in Trees, NEW u \in Trees,
               Labelled(t)', tree_island'[t] < nisland, tree_island'[u] = tree_island'[t]
        PROVE  Connected(t, u)
    <3>1. t # Top /\ u # Top
      BY <1>2, <1>8, <2>1
    <3>2. Labelled(t) /\ tree_island[t] < nisland /\ tree_island[u] = tree_island[t]
      BY <1>8, <1>9, <2>1, <3>1
    <3> QED
      BY <3>2 DEF JoinedOK
  <2>2. Connected(next, Top)
    BY <1>1, <1>3 DEF JoinedOK
  <2>3. ASSUME NEW u \in ToPush PROVE Connected(next, u)
    <3> SUFFICES ASSUME NEW S \in SUBSET Trees, next \in S, ClosedUnderRows(S) PROVE u \in S
      BY DEF Connected
    <3>1. Top \in S
      BY <2>2 DEF Connected
    <3>2. u \in Trees /\ u \in Neighbours(Top)
      BY <1>4
    <3> QED
      BY <3>1, <3>2, GraphFacts
  <2>4. \A t \in Trees : t \in Label(nisland)' => t \in Label(nisland) \/ t = Top
    BY <1>1, <1>8 DEF Label
  <2>5. Label(nisland)' \subseteq Trees /\ Range1(stack') \subseteq Trees
    BY <1>6, ElementsOf DEF Label
  <2>6. \A u \in (Label(nisland) \cup Range1(stack))' : u \in Trees /\ Connected(next, u)
    BY <1>1, <1>3, <1>6, <1>7, <2>2, <2>3, <2>4, <2>5 DEF JoinedOK
  <2>7. \A u \in Trees : Connected(next, u)' = Connected(next, u)
    BY <1>1, <1>2, SameGraph
  <2>8. (filling => \A u \in Label(nisland) \cup Range1(stack) : Connected(next, u))'
    BY <2>6, <2>7
  <2>9. (\A t, u \in Trees : Labelled(t) /\ tree_island[t] < nisland /\ tree_island[u] = tree_island[t] =>
           Connected(t, u))'
    BY <1>1, <2>1, SameGraph
  <2> QED
    BY <2>8, <2>9 DEF JoinedOK
<1>17. SizeOK'
  <2> DEFINE c == Cardinality(AllLabelled)
             m == ntree - 1
  <2>1. c \in Nat /\ m \in Nat /\ IsFiniteSet(AllLabelled)
    BY <1>2, LabelledCount
  <2>2. AllLabelled' = AllLabelled \cup {Top} /\ Top \notin AllLabelled
    BY <1>1, <1>3, <1>9 DEF AllLabelled
  <2>3. Cardinality(AllLabelled') = c + 1
    BY <2>1, <2>2, FS_AddElement
  <2>4. Len(stack) <= 1 + c * m
    BY DEF SizeOK
  <2>5. Len(stack') <= c * m + m
    <3>1. c * m \in Nat
      BY <2>1
    <3> HIDE DEF c
    <3> QED
      BY <1>2, <1>3, <1>4, <1>6, <2>4, <3>1, SMTT(30)
  <2>6. (c + 1) * m = c * m + m
    BY <2>1
  <2>7. c * m \in Nat
    BY <2>1
  <2> QED
    BY <1>3, <1>4, <1>6, <2>1, <2>3, <2>5, <2>6, <2>7, SMTT(30) DEF SizeOK
<1> QED
  BY <1>11, <1>13, <1>14, <1>15, <1>16, <1>17

LEMMA FilledInv ==
  ASSUME IndInv, Filled
  PROVE  IndInv'
<1> USE DEF IndInv
<1>1. /\ UNCHANGED <<graph, stage, stack, tree_island>> /\ filling /\ stack = <<>>
      /\ filling' = FALSE /\ nisland' = nisland + 1 /\ next' = next + 1
  BY DEF Filled
<1>2. next \in Trees /\ next \in Nat /\ ntree \in Nat /\ nisland \in Nat /\ stage = "fill" /\ next < ntree
      /\ tree_island \in [Trees -> Int] /\ stack \in Seq(Trees)
  BY FillTyped DEF Fill
<1>3. Range1(stack) = {}
  BY <1>1 DEF Range1
<1>4. tree_island[next] = nisland
  BY <1>1, <1>3 DEF LabelsOK
<1>5. \A t \in Trees : Labelled(t)' = Labelled(t)
  BY <1>1 DEF Labelled
<1>6. Labelled(next)
  BY <1>2, <1>4 DEF Labelled
<1>7. \A t \in Trees : tree_island[t] \in -1..nisland
  BY DEF LabelsOK
<1>8. GraphOK' /\ FillTypes' /\ PlaceOK'
  <2>1. next' \in 0..ntree /\ nisland' \in Nat
    BY <1>1, <1>2
  <2>2. stack' \in Seq(Trees) /\ tree_island' \in [Trees -> Int]
    BY <1>1, <1>2
  <2>3. filling' \in BOOLEAN
    BY <1>1, Zenon
  <2>4. GraphOK' /\ FillTypes'
    BY <1>1, <2>1, <2>2, <2>3, SameGraph DEF FillTypes
  <2>5. PlaceOK'
    BY <1>1, <1>2 DEF PlaceOK
  <2> QED
    BY <2>4, <2>5
<1>9. LabelsOK'
  <2>1. (\A t \in Trees : tree_island[t] \in -1..nisland /\ (tree_island[t] = nisland => filling))'
    BY <1>1, <1>2, <1>7
  <2>2. (\A t \in Trees : Labelled(t) => t \in Touched)'
    BY <1>1, <1>5, SameGraph DEF LabelsOK
  <2>3. \A t \in Trees : t < next' => t < next \/ t = next
    BY <1>1, <1>2 DEF Trees
  <2>4. (\A t \in Trees : t < next /\ t \in Touched => Labelled(t))'
    BY <1>1, <1>5, <1>6, <2>3, SameGraph DEF LabelsOK
  <2>5. ASSUME NEW k \in 0..nisland PROVE Label(k)' # {}
    <3>1. CASE k = nisland
      BY <1>1, <1>2, <1>4, <3>1 DEF Label
    <3>2. CASE k \in 0..nisland - 1
      BY <1>1, <3>2 DEF Label, LabelsOK
    <3> QED
      BY <1>2, <3>1, <3>2
  <2>6. (\A k \in 0..nisland - 1 : Label(k) # {})'
    <3>1. nisland' - 1 = nisland
      BY <1>1, <1>2
    <3> QED
      BY <2>5, <3>1
  <2> QED
    BY <1>1, <2>1, <2>2, <2>4, <2>6 DEF LabelsOK
<1>10. StackOK'
  BY <1>1, <1>3 DEF StackOK, Range1
<1>11. \A t \in Trees : tree_island[t] < nisland + 1 => tree_island[t] < nisland \/ tree_island[t] = nisland
  BY <1>2, <1>7
<1>12. ClosedOK'
  <2>1. \A t, u \in Trees : Labelled(t) /\ tree_island[t] < nisland + 1 /\ u \in Neighbours(t) =>
          tree_island[u] = tree_island[t]
    BY <1>3, <1>11 DEF ClosedOK
  <2>2. \A t \in Trees : tree_island[t] # nisland + 1
    BY <1>2, <1>7
  <2> QED
    BY <1>1, <1>5, <2>1, <2>2, SameGraph DEF ClosedOK
<1>13. JoinedOK'
  <2>1. ASSUME NEW t \in Trees, NEW u \in Trees, tree_island[t] = nisland, tree_island[u] = nisland
        PROVE  Connected(t, u)
    <3>1. Connected(next, t) /\ Connected(next, u)
      BY <1>1, <2>1 DEF JoinedOK, Label
    <3> QED
      BY <1>2, <3>1, ConnectedFromRoot
  <2>2. \A t, u \in Trees : Labelled(t) /\ tree_island[t] < nisland + 1 /\ tree_island[u] = tree_island[t] =>
          Connected(t, u)
    BY <1>11, <2>1 DEF JoinedOK
  <2> QED
    BY <1>1, <1>5, <2>2, SameGraph DEF JoinedOK
<1>14. SizeOK'
  <2>1. AllLabelled' = AllLabelled
    BY <1>1 DEF AllLabelled, Labelled
  <2> QED
    BY <1>1, <2>1 DEF SizeOK
<1> QED
  BY <1>8, <1>9, <1>10, <1>12, <1>13, <1>14

-----------------------------------------------------------------------------
(* The theorems.                                                           *)

\* The strengthening: a finished island has no neighbour outside, and what
\* neighbours the one that is being filled is labelled or on the stack.
THEOREM FillInductive == Spec => []IndInv
<1>1. Init => IndInv
  BY InitInv
<1>2. IndInv /\ [Next]_vars => IndInv'
  <2>1. IndInv /\ (\E system \in Systems : Discover(system)) => IndInv'
    BY DiscoverInv
  <2>2. IndInv /\ Fill => IndInv'
    BY SkipInv, RootInv, PopAgainInv, PopNewInv, FilledInv DEF Fill
  <2>3. IndInv /\ (Discovered \/ Map \/ Gather \/ Solve \/ Scatter \/ UNCHANGED vars) => IndInv'
    BY LaterInv
  <2>4. IndInv /\ NextStep => IndInv'
    BY NextStepInv
  <2> QED
    BY <2>1, <2>2, <2>3, <2>4 DEF Next
<1> QED
  BY <1>1, <1>2, PTL DEF Spec

\* What the islands are once the fill has ended.
LEMMA PartitionStep == IndInv => PartitionExact
<1> SUFFICES ASSUME IndInv, stage \notin {"idle", "fill"} PROVE
      /\ \A t \in Trees : tree_island[t] = -1 <=> t \notin Touched
      /\ \A t, u \in Touched : tree_island[t] = tree_island[u] <=> Connected(t, u)
      /\ {tree_island[t] : t \in Touched} = 0..nisland - 1
  BY DEF PartitionExact
<1> USE DEF IndInv
<1>1. next = ntree /\ ~ filling /\ ntree \in Nat /\ nisland \in Nat
  BY SizesAssumption DEF PlaceOK, FillTypes
<1>2. Touched \subseteq Trees
  BY GraphFacts
<1>3. \A t \in Trees : t \in Nat /\ t < ntree
  BY <1>1 DEF Trees
<1>4. \A t \in Trees : Labelled(t) <=> t \in Touched
  BY <1>1, <1>3 DEF LabelsOK
<1>5. \A t \in Trees : tree_island[t] \in -1..nisland /\ tree_island[t] # nisland
  BY <1>1 DEF LabelsOK
<1>6. \A t \in Touched : tree_island[t] \in 0..nisland - 1
  BY <1>1, <1>2, <1>4, <1>5 DEF Labelled
<1>7. \A t \in Trees : tree_island[t] = -1 <=> t \notin Touched
  BY <1>4 DEF Labelled
<1>8. ASSUME NEW t \in Touched, NEW u \in Touched, tree_island[t] = tree_island[u]
      PROVE  Connected(t, u)
  <2>1. tree_island[t] < nisland
    BY <1>1, <1>6
  <2> QED
    BY <1>2, <1>4, <1>8, <2>1 DEF JoinedOK
<1>9. ASSUME NEW t \in Touched, NEW u \in Touched, Connected(t, u)
      PROVE  tree_island[t] = tree_island[u]
  <2> DEFINE S == Label(tree_island[t])
  <2>1. S \in SUBSET Trees /\ t \in S
    BY <1>2 DEF Label
  <2>2. ASSUME NEW x \in S, NEW y \in Trees, y \in Neighbours(x) PROVE y \in S
    <3>1. x \in Trees /\ tree_island[x] = tree_island[t]
      BY DEF Label
    <3>2. tree_island[x] < nisland /\ Labelled(x)
      BY <1>1, <1>6, <3>1 DEF Labelled
    <3> QED
      BY <2>2, <3>1, <3>2 DEF ClosedOK, Label
  <2>3. ClosedUnderRows(S)
    <3> HIDE DEF S
    <3> QED
      BY <2>1, <2>2, GraphFacts
  <2> QED
    BY <1>9, <2>1, <2>3 DEF Connected, Label
<1>10. ASSUME NEW k \in 0..nisland - 1 PROVE \E t \in Touched : tree_island[t] = k
  <2>1. PICK t \in Trees : tree_island[t] = k
    BY DEF LabelsOK, Label
  <2>2. tree_island[t] # -1
    BY <1>1, <2>1
  <2> QED
    BY <1>4, <2>1, <2>2 DEF Labelled
<1>11. {tree_island[t] : t \in Touched} = 0..nisland - 1
  BY <1>6, <1>10
<1> QED
  BY <1>7, <1>8, <1>9, <1>11

\* Two trees have one island exactly if rows connect them, and the islands
\* are numbered without a gap.
THEOREM Partition == Spec => []PartitionExact
  BY FillInductive, PartitionStep, PTL

LEMMA RowsStep == IndInv => RowsInsideIslands
<1> SUFFICES ASSUME IndInv, stage \notin {"idle", "fill"}, NEW r \in RowIds, NEW t \in TreesOf(r)
             PROVE  tree_island[t] = RowIsland(r) /\ RowIsland(r) >= 0
  BY DEF RowsInsideIslands
<1> DEFINE f == rows[r + 1].trees[1]
<1>1. GraphOK /\ nisland \in Nat
  BY DEF IndInv, FillTypes
<1>2. f \in TreesOf(r) /\ rows[r + 1].trees # <<>>
  BY <1>1, RowFacts
<1>3. RowIsland(r) = tree_island[f]
  BY <1>2 DEF RowIsland
<1> HIDE DEF f
<1>4. f \in Touched /\ t \in Touched
  BY <1>2 DEF Touched
<1>5. Connected(f, t)
  BY <1>2 DEF Connected, ClosedUnderRows
<1>6. /\ tree_island[f] = tree_island[t]
      /\ tree_island[f] \in 0..nisland - 1
  BY <1>4, <1>5, PartitionStep DEF PartitionExact
<1> QED
  BY <1>1, <1>3, <1>6

\* No row touches the trees of two islands, so that islands can be solved at
\* once and a row can be given to the island of its first tree.
THEOREM RowsInside == Spec => []RowsInsideIslands
  BY FillInductive, RowsStep, PTL

LEMMA SizeStep == IndInv => StackFits
<1> SUFFICES ASSUME IndInv PROVE Len(stack) <= ntree * ntree
  BY DEF StackFits
<1>1. stack \in Seq(Trees) /\ ntree \in Nat /\ (stack # <<>> => ntree > 0)
  BY SizesAssumption DEF IndInv, FillTypes, PlaceOK
<1>2. CASE stack = <<>>
  <2>1. Len(stack) = 0 /\ ntree * ntree \in Nat
    BY <1>1, <1>2
  <2> QED
    BY <2>1
<1>3. CASE stack # <<>>
  <2> DEFINE c == Cardinality(AllLabelled)
             m == ntree - 1
  <2>1. c \in 0..ntree /\ m \in Nat /\ ntree = m + 1
    BY <1>1, <1>3, LabelledCount
  <2>2. Len(stack) <= 1 + c * m /\ Len(stack) \in Nat
    BY <1>1 DEF IndInv, SizeOK
  <2> HIDE DEF c, m
  <2>3. c * m <= ntree * m
    BY <2>1
  <2>4. ntree * ntree = ntree * m + ntree
    BY <1>1, <2>1
  <2>5. c * m \in Int /\ ntree * m \in Int /\ ntree * ntree \in Int /\ ntree >= 1
    BY <2>1
  <2> QED
    BY <1>1, <2>2, <2>3, <2>4, <2>5
<1> QED
  BY <1>2, <1>3

\* The stack never needs more than the elements that are allocated for it,
\* though the kernel does not look.
THEOREM StackBounded == Spec => []StackFits
  BY FillInductive, SizeStep, PTL

-----------------------------------------------------------------------------
(* Numbering a finite set along a strict total order.                      *)

StrictTotalOrder(S, R) ==
  /\ \A x \in S : <<x, x>> \notin R
  /\ \A x, y \in S : x # y => <<x, y>> \in R \/ <<y, x>> \in R
  /\ \A x, y, z \in S : <<x, y>> \in R /\ <<y, z>> \in R => <<x, z>> \in R

Preceding(S, R, x) == {y \in S : <<y, x>> \in R}
Rank(S, R, x) == Cardinality(Preceding(S, R, x))

\* The rank of an element is the number of its predecessors: ranks follow the
\* order, and each number below the size of the set is the rank of an element.
LEMMA RankNumbers ==
  ASSUME NEW S, NEW R, IsFiniteSet(S), StrictTotalOrder(S, R)
  PROVE  /\ \A x \in S : Rank(S, R, x) \in 0..Cardinality(S) - 1
         /\ \A x, y \in S : <<x, y>> \in R => Rank(S, R, x) < Rank(S, R, y)
         /\ \A x, y \in S : Rank(S, R, x) = Rank(S, R, y) => x = y
         /\ \A i \in 0..Cardinality(S) - 1 : \E x \in S : Rank(S, R, x) = i
<1> DEFINE N == Cardinality(S)
           f == [x \in S |-> Rank(S, R, x)]
<1>1. N \in Nat
  BY FS_CardinalityType
<1>2. \A x \in S : IsFiniteSet(Preceding(S, R, x)) /\ Rank(S, R, x) \in Nat
  BY FS_Subset, FS_CardinalityType DEF Preceding, Rank
<1>3. ASSUME NEW x \in S PROVE Rank(S, R, x) \in 0..N - 1
  <2>1. IsFiniteSet(S \ {x}) /\ Cardinality(S \ {x}) = N - 1
    BY FS_RemoveElement
  <2>2. Preceding(S, R, x) \subseteq S \ {x}
    BY DEF Preceding, StrictTotalOrder
  <2>3. Rank(S, R, x) <= N - 1
    BY <2>1, <2>2, FS_Subset DEF Rank
  <2> QED
    BY <1>1, <1>2, <2>3
<1>4. ASSUME NEW x \in S, NEW y \in S, <<x, y>> \in R
      PROVE  Rank(S, R, x) < Rank(S, R, y)
  <2>1. Preceding(S, R, x) \subseteq Preceding(S, R, y)
    BY <1>4 DEF Preceding, StrictTotalOrder
  <2>2. x \in Preceding(S, R, y) /\ x \notin Preceding(S, R, x)
    BY <1>4 DEF Preceding, StrictTotalOrder
  <2>3. /\ Cardinality(Preceding(S, R, x)) <= Cardinality(Preceding(S, R, y))
        /\ Cardinality(Preceding(S, R, y)) = Cardinality(Preceding(S, R, x))
             => Preceding(S, R, y) = Preceding(S, R, x)
    BY <1>2, <2>1, FS_Subset
  <2> QED
    BY <1>2, <2>2, <2>3 DEF Rank
<1>5. ASSUME NEW x \in S, NEW y \in S, Rank(S, R, x) = Rank(S, R, y)
      PROVE  x = y
  <2>1. ~ (Rank(S, R, x) < Rank(S, R, y)) /\ ~ (Rank(S, R, y) < Rank(S, R, x))
    BY <1>2, <1>5
  <2> QED
    BY <1>4, <2>1 DEF StrictTotalOrder
<1>6. f \in Injection(S, 0..N - 1)
  <2>1. f \in [S -> 0..N - 1]
    BY <1>3
  <2>2. \A x, y \in S : f[x] = f[y] => x = y
    BY <1>5
  <2> QED
    BY <2>1, <2>2 DEF Injection, IsInjective
<1>7. IsFiniteSet(0..N - 1) /\ Cardinality(0..N - 1) = N
  BY <1>1, FS_Interval, SMTT(30)
<1>8. f \in Surjection(S, 0..N - 1)
  BY <1>6, <1>7, FS_Injection
<1>9. \A i \in 0..N - 1 : \E x \in S : f[x] = i
  BY <1>8 DEF Surjection
<1> QED
  BY <1>3, <1>4, <1>5, <1>9

LEMMA DisjointUnion ==
  ASSUME NEW S, NEW T, IsFiniteSet(S), IsFiniteSet(T), S \cap T = {}
  PROVE  Cardinality(S \cup T) = Cardinality(S) + Cardinality(T)
<1>1. Cardinality(S \cup T) = Cardinality(S) + Cardinality(T) - Cardinality(S \cap T)
  BY FS_Union
<1>2. Cardinality(S \cap T) = 0
  BY FS_EmptySet
<1>3. Cardinality(S) \in Nat /\ Cardinality(T) \in Nat
  BY FS_CardinalityType
<1> QED
  BY <1>1, <1>2, <1>3

-----------------------------------------------------------------------------
(* When the fill has ended.                                                *)

Ended == stage \notin {"idle", "fill"}

LEMMA LabelRange ==
  ASSUME IndInv
  PROVE  /\ nisland \in Nat /\ ntree \in Nat
         /\ nisland + (IF filling THEN 1 ELSE 0) <= ntree
         /\ tree_island \in [Trees -> Islands]
         /\ Ended => \A t \in Trees : tree_island[t] \in -1..nisland - 1
<1> USE DEF IndInv
<1>1. nisland \in Nat /\ ntree \in Nat /\ tree_island \in [Trees -> Int]
  BY SizesAssumption DEF FillTypes
<1>2. IsFiniteSet(Trees) /\ Cardinality(Trees) = ntree
  BY <1>1, FS_Interval DEF Trees
<1> DEFINE Named == {t \in Trees : tree_island[t] \in 0..nisland - 1}
           Name == [t \in Named |-> tree_island[t]]
<1>3. Name \in Surjection(Named, 0..nisland - 1)
  <2>1. \A k \in 0..nisland - 1 : \E t \in Named : Name[t] = k
    BY DEF LabelsOK, Label
  <2> QED
    BY <2>1 DEF Surjection
<1>4. IsFiniteSet(Named) /\ Cardinality(Named) <= ntree
      /\ (filling => Cardinality(Named) <= ntree - 1)
  <2>1. filling => next \in Trees /\ next \notin Named
    BY <1>1 DEF PlaceOK, LabelsOK, Trees, Labelled, FillTypes
  <2>2. IsFiniteSet(Trees \ {next}) /\ (filling => Cardinality(Trees \ {next}) = ntree - 1)
    BY <1>2, <2>1, FS_RemoveElement
  <2>3. filling => Named \subseteq Trees \ {next}
    BY <2>1
  <2> QED
    BY <1>2, <2>2, <2>3, FS_Subset
<1>5. Cardinality(0..nisland - 1) <= Cardinality(Named) /\ Cardinality(0..nisland - 1) = nisland
  BY <1>1, <1>3, <1>4, FS_Surjection, FS_Interval
<1>6. nisland + (IF filling THEN 1 ELSE 0) <= ntree
  BY <1>1, <1>4, <1>5, FS_CardinalityType
<1>7. \A t \in Trees : tree_island[t] \in -1..nisland /\ (tree_island[t] = nisland => filling)
  BY DEF LabelsOK
<1>8. \A t \in Trees : tree_island[t] \in Islands
  BY <1>1, <1>6, <1>7 DEF Islands
<1>9. Ended => ~ filling
  BY DEF Ended, PlaceOK
<1> QED
  BY <1>1, <1>6, <1>7, <1>8, <1>9

LEMMA DofTypes ==
  ASSUME IndInv, Ended
  PROVE  /\ \A d \in Dofs : d \in Nat /\ DofIsland(d) \in Islands /\ DofIsland(d) \in Int /\ DofIsland(d) >= -1
         /\ IsFiniteSet(Dofs) /\ Cardinality(Dofs) = nv /\ nv \in Nat
<1>1. nv \in Nat /\ TreeOf \in [Dofs -> Trees]
  BY SizesAssumption
<1>2. tree_island \in [Trees -> Islands] /\ ntree \in Nat
  BY LabelRange
<1>3. \A d \in Dofs : DofIsland(d) \in Islands
  BY <1>1, <1>2 DEF DofIsland
<1>4. \A i \in Islands : i \in Int /\ i >= -1
  BY <1>2 DEF Islands
<1>5. IsFiniteSet(0..nv - 1) /\ Cardinality(0..nv - 1) = nv
  BY <1>1, FS_Interval
<1>6. \A d \in Dofs : d \in Nat
  BY <1>1 DEF Dofs
<1> QED
  BY <1>1, <1>3, <1>4, <1>5, <1>6 DEF Dofs

\* The order of the degrees of freedom: by island, those without one last.
DofOrder == {p \in Dofs \X Dofs :
  LET k == DofIsland(p[1])
      l == DofIsland(p[2])
  IN IF k = l THEN p[1] < p[2] ELSE k # -1 /\ (l = -1 \/ k < l)}

LEMMA DofOrderTotal ==
  ASSUME IndInv, Ended
  PROVE  StrictTotalOrder(Dofs, DofOrder)
<1>1. \A d \in Dofs : d \in Nat /\ DofIsland(d) \in Int
  BY DofTypes
<1>2. \A d, e \in Dofs : <<d, e>> \in DofOrder <=>
        IF DofIsland(d) = DofIsland(e) THEN d < e
        ELSE DofIsland(d) # -1 /\ (DofIsland(e) = -1 \/ DofIsland(d) < DofIsland(e))
  BY DEF DofOrder
<1> QED
  BY <1>1, <1>2 DEF StrictTotalOrder

LEMMA IdofIsRank ==
  ASSUME IndInv, Ended, NEW d \in Dofs
  PROVE  Idof(d) = Rank(Dofs, DofOrder, d)
<1>1. \A e \in Dofs : e \in Nat /\ DofIsland(e) \in Int /\ DofIsland(e) >= -1
  BY DofTypes
<1>2. \A e \in Dofs : <<e, d>> \in DofOrder <=>
        IF DofIsland(e) = DofIsland(d) THEN e < d
        ELSE DofIsland(e) # -1 /\ (DofIsland(d) = -1 \/ DofIsland(e) < DofIsland(d))
  BY DEF DofOrder
<1> DEFINE Earlier == IF DofIsland(d) >= 0
                      THEN {e \in Dofs : DofIsland(e) \in 0..DofIsland(d) - 1}
                      ELSE {e \in Dofs : DofIsland(e) >= 0}
           Same == {e \in InIsland(DofIsland(d)) : e < d}
<1>3. IsFiniteSet(Earlier) /\ IsFiniteSet(Same) /\ Earlier \cap Same = {}
  <2>1. Earlier \subseteq Dofs /\ Same \subseteq Dofs
    BY DEF InIsland
  <2>2. Earlier \cap Same = {}
    BY <1>1 DEF InIsland
  <2> HIDE DEF Earlier, Same
  <2> QED
    BY <2>1, <2>2, DofTypes, FS_Subset
<1>4. Preceding(Dofs, DofOrder, d) = Earlier \cup Same
  BY <1>1, <1>2 DEF Preceding, InIsland
<1>5. Idof(d) = Cardinality(Earlier) + Cardinality(Same)
  <2>1. CASE DofIsland(d) >= 0
    BY <2>1 DEF Idof
  <2>2. CASE ~ DofIsland(d) >= 0
    <3>1. DofIsland(d) = -1
      BY <1>1, <2>2
    <3> QED
      BY <2>2, <3>1 DEF Idof, nidof
  <2> QED
    BY <2>1, <2>2
<1> HIDE DEF Earlier, Same
<1>6. Cardinality(Earlier \cup Same) = Cardinality(Earlier) + Cardinality(Same)
  BY <1>3, DisjointUnion
<1> QED
  BY <1>4, <1>5, <1>6 DEF Rank

LEMMA DofNumbers ==
  ASSUME IndInv, Ended
  PROVE  /\ \A d \in Dofs : Idof(d) \in Dofs
         /\ \A i \in Dofs : \E d \in Dofs : Idof(d) = i
         /\ \A d, e \in Dofs : Idof(d) = Idof(e) => d = e
         /\ \A d, e \in Dofs : <<d, e>> \in DofOrder => Idof(d) < Idof(e)
<1>1. StrictTotalOrder(Dofs, DofOrder) /\ IsFiniteSet(Dofs) /\ Dofs = 0..Cardinality(Dofs) - 1
  BY DofOrderTotal, DofTypes DEF Dofs
<1>2. /\ \A d \in Dofs : Rank(Dofs, DofOrder, d) \in 0..Cardinality(Dofs) - 1
      /\ \A d, e \in Dofs : <<d, e>> \in DofOrder => Rank(Dofs, DofOrder, d) < Rank(Dofs, DofOrder, e)
      /\ \A d, e \in Dofs : Rank(Dofs, DofOrder, d) = Rank(Dofs, DofOrder, e) => d = e
      /\ \A i \in 0..Cardinality(Dofs) - 1 : \E d \in Dofs : Rank(Dofs, DofOrder, d) = i
  BY <1>1, RankNumbers
<1>3. \A d \in Dofs : Idof(d) = Rank(Dofs, DofOrder, d)
  BY IdofIsRank
<1>4. \A d \in Dofs : Rank(Dofs, DofOrder, d) \in Dofs
  BY <1>1, <1>2
<1>5. \A i \in Dofs : \E d \in Dofs : Rank(Dofs, DofOrder, d) = i
  BY <1>1, <1>2
<1>6. \A d \in Dofs : Idof(d) \in Dofs
  BY <1>3, <1>4
<1>7. \A i \in Dofs : \E d \in Dofs : Idof(d) = i
  BY <1>3, <1>5
<1>8. ASSUME NEW d \in Dofs, NEW e \in Dofs
      PROVE  (Idof(d) = Idof(e) => d = e) /\ (<<d, e>> \in DofOrder => Idof(d) < Idof(e))
  <2>1. Idof(d) = Rank(Dofs, DofOrder, d) /\ Idof(e) = Rank(Dofs, DofOrder, e)
    BY <1>3
  <2> QED
    BY <1>2, <2>1
<1> QED
  BY <1>6, <1>7, <1>8

-----------------------------------------------------------------------------
(* The rows of islands.                                                    *)

IslandRowIds == {r \in RowIds : RowIsland(r) >= 0}

LEMMA RowTypes ==
  ASSUME IndInv, Ended
  PROVE  /\ \A r \in RowIds : r \in Nat /\ RowIsland(r) \in Islands /\ RowIsland(r) \in Int /\ RowIsland(r) >= -1
         /\ \A r, s \in RowIds : Before(s, r) <=> s < r
         /\ IsFiniteSet(RowIds) /\ Cardinality(RowIds) = Len(rows) /\ Len(rows) \in Nat
         /\ IsFiniteSet(IslandRowIds) /\ Cardinality(IslandRowIds) \in 0..Len(rows)
         /\ \A r \in RowIds : RowIsland(r) = -1 <=> TreesOf(r) = {}
<1>1. /\ rows \in Seq(Row)
      /\ \A j, k \in DOMAIN rows : j < k => rows[j].kind <= rows[k].kind
  <2>1. CASE rows = <<>>
    BY <2>1
  <2>2. CASE rows \in Systems
    BY <2>2, SystemsAssumption
  <2> QED
    BY <2>1, <2>2 DEF IndInv, GraphOK
<1>2. Len(rows) \in Nat /\ DOMAIN rows = 1..Len(rows)
  BY <1>1
<1>3. \A r \in RowIds : r \in Nat /\ r + 1 \in DOMAIN rows /\ rows[r + 1].kind \in Int
  <2> SUFFICES ASSUME NEW r \in RowIds
               PROVE  r \in Nat /\ r + 1 \in DOMAIN rows /\ rows[r + 1].kind \in Int
    OBVIOUS
  <2>1. r \in Nat /\ r + 1 \in 1..Len(rows)
    BY <1>2 DEF RowIds
  <2>2. rows[r + 1] \in Row
    BY <1>1, <1>2, <2>1
  <2> QED
    BY <1>2, <2>1, <2>2 DEF Row
<1>4. \A r, s \in RowIds : Before(s, r) <=> s < r
  <2> SUFFICES ASSUME NEW r \in RowIds, NEW s \in RowIds PROVE Before(s, r) <=> s < r
    OBVIOUS
  <2>1. s < r => rows[s + 1].kind <= rows[r + 1].kind
    BY <1>1, <1>3
  <2>2. r < s => rows[r + 1].kind <= rows[s + 1].kind
    BY <1>1, <1>3
  <2> QED
    BY <1>3, <2>1, <2>2 DEF Before
<1>5. IsFiniteSet(RowIds) /\ Cardinality(RowIds) = Len(rows)
  <2>1. /\ IsFiniteSet(0..Len(rows) - 1)
        /\ Cardinality(0..Len(rows) - 1) = IF 0 > Len(rows) - 1 THEN 0 ELSE Len(rows) - 1 - 0 + 1
    BY <1>2, FS_Interval, SMTT(30)
  <2> QED
    BY <1>2, <2>1 DEF RowIds
<1>6. IsFiniteSet(IslandRowIds) /\ Cardinality(IslandRowIds) \in 0..Len(rows)
  <2>1. IslandRowIds \subseteq RowIds
    BY DEF IslandRowIds
  <2> QED
    BY <1>2, <1>5, <2>1, FS_Subset, FS_CardinalityType
<1>7. tree_island \in [Trees -> Islands] /\ ntree \in Nat
  BY LabelRange
<1>8. \A r \in RowIds : /\ TreesOf(r) \subseteq Trees
                        /\ TreesOf(r) # {} => rows[r + 1].trees[1] \in TreesOf(r)
                        /\ rows[r + 1].trees = <<>> <=> TreesOf(r) = {}
  BY RowFacts DEF IndInv
<1>9. \A t \in Touched : tree_island[t] # -1
  BY PartitionStep, GraphFacts DEF Ended, PartitionExact, IndInv
<1>10. ASSUME NEW r \in RowIds PROVE RowIsland(r) \in Islands /\ (RowIsland(r) = -1 <=> TreesOf(r) = {})
  <2>1. CASE TreesOf(r) = {}
    BY <1>7, <1>8, <2>1 DEF RowIsland, Islands
  <2>2. CASE TreesOf(r) # {}
    <3>1. rows[r + 1].trees[1] \in Trees /\ rows[r + 1].trees[1] \in Touched
      BY <1>8, <2>2 DEF Touched
    <3> QED
      BY <1>7, <1>8, <1>9, <2>2, <3>1 DEF RowIsland
  <2> QED
    BY <2>1, <2>2
<1>11. \A i \in Islands : i \in Int /\ i >= -1
  BY <1>7 DEF Islands
<1> QED
  BY <1>2, <1>3, <1>4, <1>5, <1>6, <1>10, <1>11

\* The order of the rows: by island, in the order of make_constraint.
RowOrder == {p \in IslandRowIds \X IslandRowIds :
  \/ RowIsland(p[1]) < RowIsland(p[2])
  \/ RowIsland(p[1]) = RowIsland(p[2]) /\ p[1] < p[2]}

LEMMA RowOrderTotal ==
  ASSUME IndInv, Ended
  PROVE  StrictTotalOrder(IslandRowIds, RowOrder)
<1>1. \A r \in IslandRowIds : r \in Nat /\ RowIsland(r) \in Int
  BY RowTypes DEF IslandRowIds
<1>2. \A r, s \in IslandRowIds : <<s, r>> \in RowOrder <=>
        RowIsland(s) < RowIsland(r) \/ (RowIsland(s) = RowIsland(r) /\ s < r)
  BY DEF RowOrder
<1> QED
  BY <1>1, <1>2 DEF StrictTotalOrder

LEMMA IefcIsRank ==
  ASSUME IndInv, Ended, NEW r \in IslandRowIds
  PROVE  Iefc(r) = Rank(IslandRowIds, RowOrder, r)
<1>1. /\ r \in RowIds /\ RowIsland(r) >= 0
      /\ \A s \in RowIds : s \in Nat /\ RowIsland(s) \in Int /\ (Before(s, r) <=> s < r)
  BY RowTypes DEF IslandRowIds
<1>2. \A s \in IslandRowIds : <<s, r>> \in RowOrder <=>
        RowIsland(s) < RowIsland(r) \/ (RowIsland(s) = RowIsland(r) /\ s < r)
  BY DEF RowOrder
<1> DEFINE Earlier == {s \in RowIds : RowIsland(s) \in 0..RowIsland(r) - 1}
           Same == {s \in IslandRows(RowIsland(r)) : Before(s, r)}
<1>3. IsFiniteSet(Earlier) /\ IsFiniteSet(Same) /\ Earlier \cap Same = {}
  <2>1. Earlier \subseteq RowIds /\ Same \subseteq RowIds
    BY DEF IslandRows
  <2>2. Earlier \cap Same = {}
    BY <1>1 DEF IslandRows
  <2> HIDE DEF Earlier, Same
  <2> QED
    BY <2>1, <2>2, RowTypes, FS_Subset
<1>4. Preceding(IslandRowIds, RowOrder, r) = Earlier \cup Same
  <2>1. ASSUME NEW s \in Preceding(IslandRowIds, RowOrder, r) PROVE s \in Earlier \cup Same
    BY <1>1, <1>2, <2>1 DEF Preceding, IslandRows, IslandRowIds
  <2>2. ASSUME NEW s \in Earlier \cup Same PROVE s \in Preceding(IslandRowIds, RowOrder, r)
    BY <1>1, <1>2, <2>2 DEF Preceding, IslandRows, IslandRowIds
  <2> QED
    BY <2>1, <2>2
<1>5. Iefc(r) = Cardinality(Earlier) + Cardinality(Same)
  BY DEF Iefc, efcadr
<1> HIDE DEF Earlier, Same
<1>6. Cardinality(Earlier \cup Same) = Cardinality(Earlier) + Cardinality(Same)
  BY <1>3, DisjointUnion
<1> QED
  BY <1>4, <1>5, <1>6 DEF Rank

\* The elements of the rows of islands come first, in their order.
LEMMA RowNumbers ==
  ASSUME IndInv, Ended
  PROVE  /\ \A r \in IslandRowIds : Iefc(r) \in RowIds
         /\ \A r, s \in IslandRowIds : Iefc(r) = Iefc(s) => r = s
         /\ \A r, s \in IslandRowIds : <<r, s>> \in RowOrder => Iefc(r) < Iefc(s)
         /\ Gathered = 0..Cardinality(IslandRowIds) - 1
<1> DEFINE N == Cardinality(IslandRowIds)
<1>1. /\ \A r \in IslandRowIds : Rank(IslandRowIds, RowOrder, r) \in 0..N - 1
      /\ \A r, s \in IslandRowIds :
           <<r, s>> \in RowOrder => Rank(IslandRowIds, RowOrder, r) < Rank(IslandRowIds, RowOrder, s)
      /\ \A r, s \in IslandRowIds :
           Rank(IslandRowIds, RowOrder, r) = Rank(IslandRowIds, RowOrder, s) => r = s
      /\ \A i \in 0..N - 1 : \E r \in IslandRowIds : Rank(IslandRowIds, RowOrder, r) = i
  BY RowOrderTotal, RowTypes, RankNumbers
<1>2. \A r \in IslandRowIds : Iefc(r) = Rank(IslandRowIds, RowOrder, r)
  BY IefcIsRank
<1>3. N \in 0..Len(rows) /\ Len(rows) \in Nat
  BY RowTypes
<1> HIDE DEF N
<1>4. \A r \in IslandRowIds : Iefc(r) \in 0..N - 1
  BY <1>1, <1>2
<1>5. \A r \in IslandRowIds : Iefc(r) \in RowIds
  BY <1>3, <1>4 DEF RowIds
<1>6. Gathered = {Iefc(r) : r \in IslandRowIds}
  BY DEF Gathered, IslandRowIds
<1>7. \A i \in 0..N - 1 : \E r \in IslandRowIds : Iefc(r) = i
  BY <1>1, <1>2
<1>8. Gathered = 0..N - 1
  BY <1>4, <1>6, <1>7
<1>9. ASSUME NEW r \in IslandRowIds, NEW s \in IslandRowIds
      PROVE  (Iefc(r) = Iefc(s) => r = s) /\ (<<r, s>> \in RowOrder => Iefc(r) < Iefc(s))
  <2>1. Iefc(r) = Rank(IslandRowIds, RowOrder, r) /\ Iefc(s) = Rank(IslandRowIds, RowOrder, s)
    BY <1>2
  <2> QED
    BY <1>1, <2>1
<1> QED
  BY <1>5, <1>8, <1>9 DEF N

-----------------------------------------------------------------------------
(* The steps that make and use the maps.                                   *)

LEMMA SameNumbers ==
  ASSUME UNCHANGED <<graph, fill>>
  PROVE  /\ RowIds' = RowIds /\ \A r \in RowIds : TreesOf(r)' = TreesOf(r)
         /\ \A d \in Dofs : DofIsland(d)' = DofIsland(d) /\ Idof(d)' = Idof(d)
         /\ \A r \in RowIds : RowIsland(r)' = RowIsland(r) /\ Iefc(r)' = Iefc(r)
         /\ Gathered' = Gathered /\ IslandRowIds' = IslandRowIds /\ Touched' = Touched
<1>1. rows' = rows /\ tree_island' = tree_island
  BY DEF graph, fill
<1>2. RowIds' = RowIds /\ \A r : TreesOf(r)' = TreesOf(r)
  BY <1>1 DEF RowIds, TreesOf
<1>3. \A d : DofIsland(d)' = DofIsland(d)
  BY <1>1 DEF DofIsland
<1>4. \A d : Idof(d)' = Idof(d)
  BY <1>3 DEF Idof, nidof, InIsland
<1>5. \A r : RowIsland(r)' = RowIsland(r)
  BY <1>1 DEF RowIsland
<1>6. \A r : Iefc(r)' = Iefc(r)
  BY <1>1, <1>2, <1>5 DEF Iefc, efcadr, IslandRows, Before
<1>7. Gathered' = Gathered /\ IslandRowIds' = IslandRowIds
  BY <1>2, <1>5, <1>6 DEF Gathered, IslandRowIds
<1>8. Touched' = Touched
  BY <1>2 DEF Touched
<1> QED
  BY <1>2, <1>3, <1>4, <1>5, <1>6, <1>7, <1>8

\* The degree of freedom and the row at an element.
LEMMA DofAt ==
  ASSUME IndInv, Ended, NEW d \in Dofs
  PROVE  DofsAt(Idof(d)) # {} /\ (CHOOSE e \in DofsAt(Idof(d)) : TRUE) = d
<1>1. DofsAt(Idof(d)) = {d}
  BY DofNumbers DEF DofsAt
<1> QED
  BY <1>1

LEMMA RowAtIefc ==
  ASSUME IndInv, Ended, NEW r \in IslandRowIds
  PROVE  Iefc(r) \in Gathered /\ RowAt(Iefc(r)) = r
<1>1. r \in RowIds /\ RowIsland(r) >= 0
  BY DEF IslandRowIds
<1>2. \A s \in RowIds : RowIsland(s) >= 0 /\ Iefc(s) = Iefc(r) => s = r
  BY RowNumbers DEF IslandRowIds
<1>3. Iefc(r) \in Gathered
  BY <1>1 DEF Gathered
<1> QED
  BY <1>1, <1>2, <1>3 DEF RowAt

LEMMA MapDofs ==
  ASSUME IndInv, Map
  PROVE  DofMapsOK'
<1>1. UNCHANGED <<graph, fill>> /\ Ended
  BY DEF Map, Ended
<1>2. Islands' = Islands /\ \A d \in Dofs : DofIsland(d)' = DofIsland(d) /\ Idof(d)' = Idof(d)
  BY <1>1, SameNumbers DEF Islands
<1>3. /\ map_dof2idof' = [d \in Dofs |-> Idof(d)]
      /\ map_idof2dof' = [i \in Dofs |-> IF DofsAt(i) = {} THEN 0 ELSE CHOOSE d \in DofsAt(i) : TRUE]
      /\ dof_islandid' = [i \in Dofs |->
           IF DofsAt(i) = {} THEN -1 ELSE DofIsland(CHOOSE d \in DofsAt(i) : TRUE)]
  BY DEF Map
<1>4. \A d \in Dofs : /\ Idof(d) \in Dofs /\ DofIsland(d) \in Islands
                      /\ map_idof2dof'[Idof(d)] = d /\ dof_islandid'[Idof(d)] = DofIsland(d)
  BY <1>1, <1>3, DofNumbers, DofTypes, DofAt
<1>5. ASSUME NEW i \in Dofs
      PROVE  \E d \in Dofs : Idof(d) = i /\ map_idof2dof'[i] = d /\ dof_islandid'[i] = DofIsland(d)
  <2>1. PICK d \in Dofs : Idof(d) = i
    BY <1>1, DofNumbers
  <2> QED
    BY <1>4, <2>1
<1>6. /\ map_dof2idof' \in [Dofs -> Dofs] /\ map_idof2dof' \in [Dofs -> Dofs]
      /\ dof_islandid' \in [Dofs -> Islands]
  <2>1. map_idof2dof' = [i \in Dofs |-> map_idof2dof'[i]] /\ dof_islandid' = [i \in Dofs |-> dof_islandid'[i]]
    BY <1>3
  <2>2. \A i \in Dofs : map_idof2dof'[i] \in Dofs /\ dof_islandid'[i] \in Islands
    BY <1>4, <1>5
  <2> QED
    BY <1>3, <1>4, <2>1, <2>2
<1>7. \A i \in Dofs : \E d \in Dofs : Idof(d)' = i
  BY <1>2, <1>5
<1>8. \A d \in Dofs : /\ map_dof2idof'[d] = Idof(d)' /\ map_idof2dof'[Idof(d)'] = d
                      /\ dof_islandid'[Idof(d)'] = DofIsland(d)'
  BY <1>2, <1>3, <1>4, ZenonT(30)
<1>9. dof_islandid' \in [Dofs -> Islands']
  BY <1>2, <1>6
<1> QED
  BY <1>6, <1>7, <1>8, <1>9 DEF DofMapsOK

LEMMA MapRows ==
  ASSUME IndInv, Map
  PROVE  RowMapsOK'
<1>1. UNCHANGED <<graph, fill>> /\ Ended
  BY DEF Map, Ended
<1>2. /\ Islands' = Islands /\ RowIds' = RowIds /\ Gathered' = Gathered /\ IslandRowIds' = IslandRowIds
      /\ \A r \in RowIds : RowIsland(r)' = RowIsland(r) /\ Iefc(r)' = Iefc(r)
  BY <1>1, SameNumbers DEF Islands
<1>3. /\ map_iefc2efc' = [ic \in RowIds |-> IF ic \in Gathered THEN RowAt(ic) ELSE 0]
      /\ efc_islandid' = [ic \in RowIds |-> IF ic \in Gathered THEN RowIsland(RowAt(ic)) ELSE -1]
  BY DEF Map
<1>4. \A r \in IslandRowIds : r \in RowIds /\ Iefc(r) \in RowIds /\ Iefc(r) \in Gathered /\ RowAt(Iefc(r)) = r
  BY <1>1, RowNumbers, RowAtIefc DEF IslandRowIds
<1>5. \A ic \in Gathered : \E r \in IslandRowIds : Iefc(r) = ic
  BY DEF Gathered, IslandRowIds
<1>6. \A ic \in Gathered : RowAt(ic) \in RowIds /\ RowIsland(RowAt(ic)) \in Islands
  <2> TAKE ic \in Gathered
  <2>1. PICK r \in IslandRowIds : Iefc(r) = ic
    BY <1>5
  <2> QED
    BY <1>1, <1>4, <2>1, RowTypes
<1>7. -1 \in Islands /\ (RowIds # {} => 0 \in RowIds)
  BY <1>1, LabelRange, RowTypes DEF Islands, RowIds
<1>8. map_iefc2efc' \in [RowIds -> RowIds] /\ efc_islandid' \in [RowIds -> Islands]
  BY <1>3, <1>6, <1>7
<1>9. \A r \in RowIds : RowIsland(r) >= 0 =>
        /\ Iefc(r) \in RowIds /\ map_iefc2efc'[Iefc(r)] = r
        /\ efc_islandid'[Iefc(r)] = RowIsland(r)
  BY <1>3, <1>4 DEF IslandRowIds
<1>10. \A ic \in RowIds \ Gathered : map_iefc2efc'[ic] = 0 /\ efc_islandid'[ic] = -1
  BY <1>3
<1>11. Gathered = 0..Cardinality(IslandRowIds) - 1
  BY <1>1, RowNumbers
<1> QED
  BY <1>2, <1>8, <1>9, <1>10, <1>11, SMTT(30) DEF RowMapsOK, IslandRowIds

\* The parts of MapInv speak of the maps and of what the fill has left.
LEMMA SameMaps ==
  ASSUME UNCHANGED <<graph, fill, dof_maps, row_maps>>
  PROVE  /\ (DofMapsOK /\ RowMapsOK)' = (DofMapsOK /\ RowMapsOK) /\ Unset' = Unset
         /\ Islands' = Islands
<1>1. UNCHANGED <<map_dof2idof, map_idof2dof, dof_islandid, map_iefc2efc, efc_islandid>>
  BY DEF dof_maps, row_maps
<1>2. /\ RowIds' = RowIds /\ Gathered' = Gathered /\ Islands' = Islands
      /\ \A d \in Dofs : DofIsland(d)' = DofIsland(d) /\ Idof(d)' = Idof(d)
      /\ \A r \in RowIds : RowIsland(r)' = RowIsland(r) /\ Iefc(r)' = Iefc(r)
      /\ IslandRowIds' = IslandRowIds
  BY SameNumbers DEF Islands
<1>3. DofMapsOK' <=> DofMapsOK
  BY <1>1, <1>2 DEF DofMapsOK
<1>4. {r \in RowIds : RowIsland(r) >= 0}' = {r \in RowIds : RowIsland(r) >= 0}
  BY <1>2 DEF IslandRowIds
<1>5. RowMapsOK' <=> RowMapsOK
  <2> DEFINE Typed == map_iefc2efc \in [RowIds -> RowIds] /\ efc_islandid \in [RowIds -> Islands]
             Row1(r) == RowIsland(r) >= 0 =>
                          /\ Iefc(r) \in RowIds /\ map_iefc2efc[Iefc(r)] = r
                          /\ efc_islandid[Iefc(r)] = RowIsland(r)
             Rest == \A ic \in RowIds \ Gathered : map_iefc2efc[ic] = 0 /\ efc_islandid[ic] = -1
             Size == Gathered = 0..Cardinality({r \in RowIds : RowIsland(r) >= 0}) - 1
  <2>1. RowMapsOK <=> Typed /\ (\A r \in RowIds : Row1(r)) /\ Rest /\ Size
    BY DEF RowMapsOK
  <2>2. RowMapsOK' <=> Typed' /\ (\A r \in RowIds : Row1(r))' /\ Rest' /\ Size'
    BY DEF RowMapsOK
  <2>3. Typed' <=> Typed
    BY <1>1, <1>2
  <2>4. (\A r \in RowIds : Row1(r))' <=> (\A r \in RowIds : Row1(r))
    BY <1>1, <1>2
  <2>5. Rest' <=> Rest
    BY <1>1, <1>2
  <2>6. Size' <=> Size
    BY <1>2, <1>4
  <2> HIDE DEF Typed, Row1, Rest, Size
  <2> QED
    BY <2>1, <2>2, <2>3, <2>4, <2>5, <2>6
<1> QED
  BY <1>1, <1>2, <1>3, <1>5 DEF Unset

LEMMA SameResults ==
  ASSUME UNCHANGED <<graph, fill, dof_maps, row_maps>>
  PROVE  /\ UNCHANGED iJ => GatherOK' = GatherOK
         /\ UNCHANGED <<iforce, iqacc>> => SolveOK' = SolveOK
         /\ \A S : Results(S)' = Results(S)
<1>1. UNCHANGED <<map_dof2idof, map_idof2dof, dof_islandid, map_iefc2efc, efc_islandid>>
  BY DEF dof_maps, row_maps
<1>2. /\ RowIds' = RowIds /\ Gathered' = Gathered
      /\ \A d \in Dofs : DofIsland(d)' = DofIsland(d) /\ Idof(d)' = Idof(d)
      /\ \A r \in RowIds : RowIsland(r)' = RowIsland(r) /\ Iefc(r)' = Iefc(r)
  BY SameNumbers
<1>3. UNCHANGED iJ => GatherOK' = GatherOK
  BY <1>1, <1>2 DEF GatherOK
<1>4. UNCHANGED <<iforce, iqacc>> => SolveOK' = SolveOK
  BY <1>1, <1>2 DEF SolveOK
<1> QED
  BY <1>3, <1>4 DEF Results

LEMMA MapStep == IndInv /\ MapInv /\ Map => MapInv'
<1> SUFFICES ASSUME IndInv, MapInv, Map PROVE MapInv'
  OBVIOUS
<1>1. DofMapsOK' /\ RowMapsOK'
  BY MapDofs, MapRows
<1>2. stage = "map" /\ stage' = "gather" /\ UNCHANGED <<iJ, iforce, iqacc, force, qacc>>
  BY DEF Map, results
<1> QED
  BY <1>1, <1>2 DEF MapInv

LEMMA GatherStep == IndInv /\ MapInv /\ Gather => MapInv'
<1> SUFFICES ASSUME IndInv, MapInv, Gather PROVE MapInv'
  OBVIOUS
<1>1. /\ stage = "gather" /\ stage' = "solve" /\ UNCHANGED <<iforce, iqacc, force, qacc>>
      /\ UNCHANGED <<graph, fill, dof_maps, row_maps>>
  BY DEF Gather
<1>2. DofMapsOK /\ RowMapsOK
  BY <1>1 DEF MapInv
<1>3. DofMapsOK' /\ RowMapsOK'
  BY <1>1, <1>2, SameMaps
<1>4. iJ' \in [RowIds -> RowIds] /\ (Gathered = RowIds => \A ic \in RowIds : iJ'[ic] = map_iefc2efc[ic])
  BY DEF Gather
<1>5. iJ' \in [RowIds -> RowIds] /\ (Gathered = RowIds => iJ' = map_iefc2efc)
  BY <1>2, <1>4 DEF RowMapsOK
<1>6. GatherOK'
  <2>1. RowIds' = RowIds /\ Gathered' = Gathered /\ map_iefc2efc' = map_iefc2efc
    BY <1>1, SameNumbers DEF row_maps
  <2> QED
    BY <1>5, <2>1 DEF GatherOK
<1> QED
  BY <1>1, <1>3, <1>6 DEF MapInv

LEMMA SolveStep == IndInv /\ MapInv /\ Solve => MapInv'
<1> SUFFICES ASSUME IndInv, MapInv, Solve PROVE MapInv'
  OBVIOUS
<1>1. /\ stage = "solve" /\ stage' = "scatter" /\ UNCHANGED <<iJ, force, qacc>>
      /\ UNCHANGED <<graph, fill, dof_maps, row_maps>>
      /\ iforce' = [ic \in RowIds |-> IF efc_islandid[ic] >= 0 THEN iJ[ic] ELSE Old]
      /\ iqacc' = [i \in Dofs |->
           IF dof_islandid[i] >= 0 /\ Intact(dof_islandid[i]) THEN map_idof2dof[i] ELSE Old]
  BY DEF Solve
<1>2. DofMapsOK /\ RowMapsOK /\ GatherOK
  BY <1>1 DEF MapInv
<1>3. DofMapsOK' /\ RowMapsOK' /\ GatherOK'
  BY <1>1, <1>2, SameMaps, SameResults
<1>4. iforce' \in [RowIds -> RowIds \cup {Old}] /\ iqacc' \in [Dofs -> Dofs \cup {Old}]
  BY <1>1, <1>2 DEF DofMapsOK, RowMapsOK, GatherOK
<1>5. ASSUME Gathered = RowIds, NEW r \in RowIds, RowIsland(r) >= 0 PROVE iforce'[Iefc(r)] = r
  <2>1. /\ Iefc(r) \in RowIds /\ map_iefc2efc[Iefc(r)] = r /\ efc_islandid[Iefc(r)] = RowIsland(r)
        /\ iJ = map_iefc2efc
    BY <1>2, <1>5 DEF RowMapsOK, GatherOK
  <2> QED
    BY <1>1, <1>5, <2>1
<1>6. ASSUME Gathered = RowIds, NEW d \in Dofs, DofIsland(d) >= 0 PROVE iqacc'[Idof(d)] = d
  <2>1. /\ Idof(d) \in Dofs /\ map_idof2dof[Idof(d)] = d /\ dof_islandid[Idof(d)] = DofIsland(d)
        /\ iJ = map_iefc2efc
    BY <1>2, <1>6 DEF DofMapsOK, GatherOK
  <2>2. Intact(DofIsland(d))
    BY <2>1 DEF Intact
  <2> QED
    BY <1>1, <1>6, <2>1, <2>2
<1>7. SolveOK'
  <2>1. /\ RowIds' = RowIds /\ Gathered' = Gathered
        /\ \A d \in Dofs : DofIsland(d)' = DofIsland(d) /\ Idof(d)' = Idof(d)
        /\ \A r \in RowIds : RowIsland(r)' = RowIsland(r) /\ Iefc(r)' = Iefc(r)
    BY <1>1, SameNumbers
  <2> QED
    BY <1>4, <1>5, <1>6, <2>1 DEF SolveOK
<1> QED
  BY <1>1, <1>3, <1>7 DEF MapInv

\* If every row touches a tree the rows fill all elements.
LEMMA AllGathered ==
  ASSUME IndInv, Ended, \A r \in RowIds : TreesOf(r) # {}
  PROVE  Gathered = RowIds /\ \A r \in RowIds : RowIsland(r) >= 0
<1>1. \A r \in RowIds : RowIsland(r) >= 0
  BY RowTypes
<1>2. IslandRowIds = RowIds
  BY <1>1 DEF IslandRowIds
<1> QED
  BY <1>1, <1>2, RowNumbers, RowTypes DEF RowIds

LEMMA ScatterResults ==
  ASSUME IndInv, MapInv, Scatter, \A r \in RowIds : TreesOf(r) # {}
  PROVE  /\ \A r \in RowIds : force'[r] = r
         /\ \A d \in Dofs : qacc'[d] = IF TreeOf[d] \in Touched THEN d ELSE Smooth
<1>1. stage = "scatter" /\ Ended
  BY DEF Scatter, Ended
<1>2. DofMapsOK /\ RowMapsOK /\ SolveOK
  BY <1>1 DEF MapInv
<1>3. Gathered = RowIds /\ \A r \in RowIds : RowIsland(r) >= 0
  BY <1>1, AllGathered
<1>4. ASSUME NEW r \in RowIds PROVE force'[r] = r
  <2>1. \A s \in RowIds : Iefc(s) \in RowIds /\ map_iefc2efc[Iefc(s)] = s
    BY <1>2, <1>3 DEF RowMapsOK
  <2>2. \A ic \in RowIds : \E s \in RowIds : ic = Iefc(s)
    BY <1>3 DEF Gathered
  <2>3. Writers(r) = {Iefc(r)}
    BY <2>1, <2>2 DEF Writers
  <2>4. force'[r] \in {iforce[ic] : ic \in Writers(r)}
    BY <2>3 DEF Scatter
  <2>5. iforce[Iefc(r)] = r
    BY <1>2, <1>3 DEF SolveOK
  <2> QED
    BY <2>3, <2>4, <2>5
<1>5. ASSUME NEW d \in Dofs PROVE qacc'[d] = IF TreeOf[d] \in Touched THEN d ELSE Smooth
  <2>1. qacc'[d] = IF DofIsland(d) < 0 THEN Smooth ELSE iqacc[map_dof2idof[d]]
    BY DEF Scatter
  <2>2. map_dof2idof[d] = Idof(d) /\ (DofIsland(d) >= 0 => iqacc[Idof(d)] = d)
    BY <1>2, <1>3 DEF DofMapsOK, SolveOK
  <2>3. DofIsland(d) \in Int /\ DofIsland(d) >= -1
    BY <1>1, DofTypes
  <2>4. TreeOf[d] \in Touched <=> DofIsland(d) # -1
    BY <1>1, PartitionStep, SizesAssumption DEF PartitionExact, DofIsland
  <2> QED
    BY <2>1, <2>2, <2>3, <2>4
<1> QED
  BY <1>4, <1>5

LEMMA ScatterStep == IndInv /\ MapInv /\ Scatter => MapInv'
<1> SUFFICES ASSUME IndInv, MapInv, Scatter PROVE MapInv'
  OBVIOUS
<1>1. /\ stage = "scatter" /\ stage' = "done" /\ UNCHANGED <<iJ, iforce, iqacc>>
      /\ UNCHANGED <<graph, fill, dof_maps, row_maps>>
  BY DEF Scatter
<1>2. DofMapsOK /\ RowMapsOK /\ GatherOK /\ SolveOK
  BY <1>1 DEF MapInv
<1>3. DofMapsOK' /\ RowMapsOK' /\ GatherOK' /\ SolveOK'
  BY <1>1, <1>2, SameMaps, SameResults
<1>4. RowIds' = RowIds /\ Touched' = Touched /\ \A r \in RowIds : TreesOf(r)' = TreesOf(r)
  BY <1>1, SameNumbers
<1>5. ResultsExact'
  BY <1>4, ScatterResults DEF ResultsExact
<1>6. force' \in Results(RowIds)
  BY DEF Scatter, Results
<1>7. qacc' \in Results(Dofs)
  <2>1. \A d \in Dofs : map_dof2idof[d] \in Dofs /\ iqacc[map_dof2idof[d]] \in Dofs \cup {Old}
    BY <1>2 DEF DofMapsOK, SolveOK
  <2>2. qacc' = [d \in Dofs |-> IF DofIsland(d) < 0 THEN Smooth ELSE iqacc[map_dof2idof[d]]]
    BY DEF Scatter
  <2> QED
    BY <2>1, <2>2 DEF Results
<1>8. (force \in Results(RowIds) /\ qacc \in Results(Dofs))'
  BY <1>4, <1>6, <1>7 DEF Results
<1> QED
  BY <1>1, <1>3, <1>5, <1>8 DEF MapInv

\* Until the maps are made there are none.
LEMMA EarlierStep ==
  ASSUME IndInv, MapInv, (\E system \in Systems : Discover(system)) \/ Fill \/ Discovered \/ NextStep
  PROVE  MapInv'
<1>1. CASE NextStep
  BY <1>1 DEF NextStep, MapInv, Unset
<1>2. CASE (\E system \in Systems : Discover(system)) \/ Fill \/ Discovered
  <2>1. /\ stage \in {"idle", "fill"} /\ stage' \in {"fill", "map"}
        /\ UNCHANGED <<dof_maps, row_maps, results>>
    BY <1>2 DEF Discover, Fill, Skip, Root, PopAgain, PopNew, Filled, Discovered, Scanning
  <2> QED
    BY <2>1 DEF MapInv, Unset, dof_maps, row_maps, results
<1> QED
  BY <1>1, <1>2

LEMMA IdleStep == IndInv /\ MapInv /\ UNCHANGED vars => MapInv'
<1> SUFFICES ASSUME IndInv, MapInv, UNCHANGED vars PROVE MapInv'
  OBVIOUS
<1>1. UNCHANGED <<graph, fill, dof_maps, row_maps>> /\ UNCHANGED <<stage, iJ, iforce, iqacc, force, qacc>>
  BY DEF vars, results
<1>2. /\ (DofMapsOK /\ RowMapsOK)' = (DofMapsOK /\ RowMapsOK) /\ Unset' = Unset
      /\ GatherOK' = GatherOK /\ SolveOK' = SolveOK /\ \A S : Results(S)' = Results(S)
  BY <1>1, SameMaps, SameResults
<1>3. RowIds' = RowIds /\ Touched' = Touched /\ \A r \in RowIds : TreesOf(r)' = TreesOf(r)
  BY <1>1, SameNumbers
<1>4. ResultsExact => ResultsExact'
  BY <1>1, <1>3 DEF ResultsExact
<1>5. (force \in Results(RowIds) /\ qacc \in Results(Dofs))' <=> force \in Results(RowIds) /\ qacc \in Results(Dofs)
  BY <1>1, <1>2, <1>3 DEF Results
<1> HIDE DEF MapInv
<1> DEFINE A == IF stage \in {"gather", "solve", "scatter", "done"} THEN DofMapsOK /\ RowMapsOK ELSE Unset
           B == IF stage \in {"solve", "scatter", "done"} THEN GatherOK ELSE iJ = <<>>
           C == IF stage \in {"scatter", "done"} THEN SolveOK ELSE iforce = <<>> /\ iqacc = <<>>
           E == stage \in {"idle", "fill", "map", "gather", "solve", "scatter", "done"}
           D == IF stage = "done" THEN ResultsExact /\ force \in Results(RowIds) /\ qacc \in Results(Dofs)
                ELSE force = <<>> /\ qacc = <<>>
<1>6. (A => A') /\ (E => E')
  BY <1>1, <1>2
<1>7. (B => B') /\ (C => C')
  BY <1>1, <1>2
<1>8. D => D'
  BY <1>1, <1>4, <1>5
<1>9. MapInv <=> A /\ B /\ C /\ D /\ E
  BY DEF MapInv
<1>10. MapInv' <=> A' /\ B' /\ C' /\ D' /\ E'
  BY DEF MapInv
<1> HIDE DEF A, B, C, D, E
<1> QED
  BY <1>6, <1>7, <1>8, <1>9, <1>10

\* At every stage after the fill the maps and the results made with them are
\* the right ones.
THEOREM MapsInductive == Spec => []MapInv
<1>1. Init => MapInv
  BY DEF Init, MapInv, Unset
<1>2. IndInv /\ MapInv /\ [Next]_vars => MapInv'
  BY MapStep, GatherStep, SolveStep, ScatterStep, EarlierStep, IdleStep DEF Next
<1> QED
  BY <1>1, <1>2, FillInductive, PTL DEF Spec

LEMMA TypesStep == IndInv /\ MapInv => TypeOK
<1> SUFFICES ASSUME IndInv, MapInv PROVE TypeOK
  OBVIOUS
<1>1. GraphOK /\ FillTypes /\ PlaceOK
  BY DEF IndInv
<1>2. nisland \in 0..ntree /\ tree_island \in [Trees -> Islands]
  BY LabelRange
<1>3. tree_tree \subseteq Trees \X Trees
  <2>1. \A p \in tree_tree : \E t, u : p = <<t, u>>
    BY <1>1 DEF GraphOK, Edges
  <2>2. \A t, u : <<t, u>> \in tree_tree => t \in Trees /\ u \in Trees
    BY <1>1, EdgeFacts, RowFacts DEF Joins
  <2> QED
    BY <2>1, <2>2
<1>4. /\ map_dof2idof \in {<<>>} \cup [Dofs -> Dofs] /\ map_idof2dof \in {<<>>} \cup [Dofs -> Dofs]
      /\ dof_islandid \in {<<>>} \cup [Dofs -> Islands]
      /\ map_iefc2efc \in {<<>>} \cup [RowIds -> RowIds]
      /\ efc_islandid \in {<<>>} \cup [RowIds -> Islands]
  BY DEF MapInv, DofMapsOK, RowMapsOK, Unset
<1>5. iJ \in {<<>>} \cup [RowIds -> RowIds]
  BY DEF MapInv, GatherOK
<1>6. iforce \in Results(RowIds) /\ iqacc \in Results(Dofs)
  <2>1. iforce \in {<<>>} \cup [RowIds -> RowIds \cup {Old}] /\ iqacc \in {<<>>} \cup [Dofs -> Dofs \cup {Old}]
    BY DEF MapInv, SolveOK
  <2> QED
    BY <2>1 DEF Results
<1>7. force \in Results(RowIds) /\ qacc \in Results(Dofs)
  BY DEF MapInv, Results
<1> QED
  BY <1>1, <1>2, <1>3, <1>4, <1>5, <1>6, <1>7 DEF TypeOK, GraphOK, FillTypes, MapInv

\* Every variable keeps its type; above all the maps are indices into arrays
\* of nv and of njmax elements, and the labels of the fill are trees' numbers.
THEOREM IslandsTyping == Spec => []TypeOK
  BY FillInductive, MapsInductive, TypesStep, PTL

LEMMA DofMapsStep == IndInv /\ MapInv => DofMapsInverse
<1> SUFFICES ASSUME IndInv, MapInv, stage \in {"gather", "solve", "scatter"} PROVE DofMapsInverse
  BY DEF DofMapsInverse
<1>1. DofMapsOK /\ Ended
  BY DEF MapInv, Ended
<1>2. \A d \in Dofs : map_idof2dof[map_dof2idof[d]] = d /\ dof_islandid[map_dof2idof[d]] = DofIsland(d)
  BY <1>1 DEF DofMapsOK
<1>3. ASSUME NEW i \in Dofs, NEW j \in Dofs, i < j
      PROVE  \/ dof_islandid[i] = dof_islandid[j] /\ map_idof2dof[i] < map_idof2dof[j]
             \/ dof_islandid[i] # -1 /\ (dof_islandid[j] = -1 \/ dof_islandid[i] < dof_islandid[j])
  <2>1. PICK d \in Dofs, e \in Dofs : Idof(d) = i /\ Idof(e) = j
    BY <1>1 DEF DofMapsOK
  <2>2. /\ dof_islandid[i] = DofIsland(d) /\ map_idof2dof[i] = d
        /\ dof_islandid[j] = DofIsland(e) /\ map_idof2dof[j] = e
    BY <1>1, <2>1 DEF DofMapsOK
  <2>3. i \in Nat /\ j \in Nat /\ ~ (j < i) /\ i # j
    BY <1>1, <1>3, DofTypes
  <2>4. <<d, e>> \in DofOrder
    BY <1>1, <2>1, <2>3, DofNumbers, DofOrderTotal DEF StrictTotalOrder
  <2>5. DofIsland(d) \in Int /\ DofIsland(e) \in Int /\ DofIsland(d) >= -1 /\ DofIsland(e) >= -1
    BY <1>1, DofTypes
  <2> QED
    BY <2>2, <2>4, <2>5 DEF DofOrder
<1> QED
  BY <1>2, <1>3 DEF DofMapsInverse

LEMMA BlocksStep == IndInv /\ MapInv => IslandBlocks
<1> SUFFICES ASSUME IndInv, MapInv, stage \in {"gather", "solve", "scatter"} PROVE IslandBlocks
  BY DEF IslandBlocks
<1>1. RowMapsOK /\ Ended
  BY DEF MapInv, Ended
<1>2. ASSUME NEW ic \in Gathered
      PROVE  \E r \in IslandRowIds : /\ Iefc(r) = ic /\ map_iefc2efc[ic] = r
                                    /\ efc_islandid[ic] = RowIsland(r) /\ ic \in RowIds
  <2>1. PICK r \in IslandRowIds : Iefc(r) = ic
    BY DEF Gathered, IslandRowIds
  <2> QED
    BY <1>1, <2>1 DEF RowMapsOK, IslandRowIds
<1>3. \A ic \in RowIds \ Gathered : efc_islandid[ic] = -1
  BY <1>1 DEF RowMapsOK
<1>4. ASSUME NEW r \in RowIds, RowIsland(r) >= 0
      PROVE  Cardinality({ic \in RowIds : efc_islandid[ic] = RowIsland(r) /\ map_iefc2efc[ic] = r}) = 1
  <2> DEFINE E == {ic \in RowIds : efc_islandid[ic] = RowIsland(r) /\ map_iefc2efc[ic] = r}
  <2>1. Iefc(r) \in E
    BY <1>1, <1>4 DEF RowMapsOK
  <2>2. ASSUME NEW ic \in E PROVE ic = Iefc(r)
    <3>1. ic \in Gathered
      BY <1>3, <1>4
    <3> QED
      BY <1>2, <3>1
  <2>3. E = {Iefc(r)}
    BY <2>1, <2>2
  <2> HIDE DEF E
  <2>4. Cardinality(E) = 1
    BY <2>3, FS_Singleton
  <2> QED
    BY <2>4 DEF E
<1>5. ASSUME NEW ic \in RowIds, NEW jc \in RowIds, ic < jc
      PROVE  \/ efc_islandid[jc] = -1
             \/ efc_islandid[ic] # -1 /\ efc_islandid[ic] < efc_islandid[jc]
             \/ efc_islandid[ic] = efc_islandid[jc] /\ map_iefc2efc[ic] < map_iefc2efc[jc]
  <2>1. CASE jc \notin Gathered
    BY <1>3, <2>1
  <2>2. CASE jc \in Gathered
    <3>1. ic \in Nat /\ jc \in Nat /\ Cardinality(IslandRowIds) \in Nat
      BY <1>1, RowTypes
    <3>2. ic \in Gathered
      BY <1>1, <1>5, <2>2, <3>1, RowNumbers
    <3>3. PICK r \in IslandRowIds : /\ Iefc(r) = ic /\ map_iefc2efc[ic] = r
                                    /\ efc_islandid[ic] = RowIsland(r)
      BY <1>2, <3>2
    <3>4. PICK s \in IslandRowIds : /\ Iefc(s) = jc /\ map_iefc2efc[jc] = s
                                    /\ efc_islandid[jc] = RowIsland(s)
      BY <1>2, <2>2
    <3>5. <<r, s>> \in RowOrder
      <4>1. r # s /\ ~ (Iefc(s) < Iefc(r))
        BY <1>5, <3>1, <3>3, <3>4
      <4> QED
        BY <1>1, <4>1, RowNumbers, RowOrderTotal DEF StrictTotalOrder
    <3>6. /\ r \in RowIds /\ s \in RowIds /\ RowIsland(r) >= 0 /\ RowIsland(s) >= 0
          /\ RowIsland(r) \in Int /\ RowIsland(s) \in Int
      BY <1>1, RowTypes DEF IslandRowIds
    <3> QED
      BY <3>3, <3>4, <3>5, <3>6 DEF RowOrder
  <2> QED
    BY <2>1, <2>2
<1> QED
  BY <1>4, <1>5 DEF IslandBlocks

\* The maps of the degrees of freedom are inverse to each other and give the
\* serial enumeration, and every row of an island has one element, in a block
\* of its island and in the order of make_constraint.
THEOREM MapsCorrect == Spec => []MapsExact
<1>1. IndInv /\ MapInv => MapsExact
  BY DofMapsStep, BlocksStep DEF MapsExact
<1> QED
  BY <1>1, FillInductive, MapsInductive, PTL

\* If every row touches a tree, the solver's results come back to the rows
\* and to the degrees of freedom that they belong to.
THEOREM ResultsCorrect == Spec => []ResultsExact
<1>1. MapInv => ResultsExact
  BY DEF MapInv, ResultsExact
<1> QED
  BY <1>1, MapsInductive, PTL
=============================================================================

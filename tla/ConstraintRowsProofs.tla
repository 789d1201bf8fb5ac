------------------------- MODULE ConstraintRowsProofs -------------------------
(***************************************************************************)
(* Proofs about ConstraintRows for any constraints, contacts, scenes and   *)
(* limits: the rows of the atomic counters are dealt out by category, and  *)
(* what is stored in them and in their entries is of their owner.          *)
(***************************************************************************)
EXTENDS ConstraintRowsInv, TLAPS

-----------------------------------------------------------------------------
(* The sets of the model.                                                  *)

LEMMA MaxOfUnion ==
  ASSUME NEW S \in SUBSET Nat, NEW T \in SUBSET Nat,
         \E n \in S : \A k \in S : k <= n, \E n \in T : \A k \in T : k <= n
  PROVE  \E n \in S \cup T : \A k \in S \cup T : k <= n
<1>1. PICK m \in S : \A k \in S : k <= m
  OBVIOUS
<1>2. PICK n \in T : \A k \in T : k <= n
  OBVIOUS
<1>3. CASE m <= n
  <2>1. \A k \in S \cup T : k <= n
    BY <1>1, <1>2, <1>3
  <2> QED
    BY <2>1, <1>2
<1>4. CASE n <= m
  <2>1. \A k \in S \cup T : k <= m
    BY <1>1, <1>2, <1>4
  <2> QED
    BY <2>1, <1>1
<1> QED
  BY <1>3, <1>4

LEMMA LargestBounds ==
  ASSUME NEW S \in SUBSET Nat, \E n \in S : \A k \in S : k <= n
  PROVE  Largest(S) \in S /\ \A k \in S : k <= Largest(S)
BY DEF Largest

\* No table is longer than the arrays, and contacts fit into theirs.
LEMMA RowsInRange ==
  ASSUME njmax \in NjMaxes
  PROVE  njmax \in Nat /\ \A r \in Nat : r < njmax => r \in Rows
<1>1. Largest(NjMaxes) \in NjMaxes /\ njmax <= Largest(NjMaxes)
  BY LargestBounds, LimitsAssumption
<1>2. njmax \in Nat /\ Largest(NjMaxes) \in Nat
  BY <1>1, LimitsAssumption
<1> QED
  BY <1>1, <1>2 DEF Rows

LEMMA EntriesInRange ==
  ASSUME njmax \in NjMaxes, njmax_nnz \in NnzMaxes
  PROVE  /\ \A r \in Nat : r < njmax => r \in Entries
         /\ njmax_nnz \in Nat /\ \A e \in Nat : e < njmax_nnz => e \in Entries
<1> DEFINE S == NjMaxes \cup NnzMaxes
<1>1. \E n \in S : \A k \in S : k <= n
  BY MaxOfUnion, LimitsAssumption
<1>2. S \in SUBSET Nat
  BY LimitsAssumption
<1>3. Largest(S) \in S /\ njmax <= Largest(S) /\ njmax_nnz <= Largest(S)
  BY <1>1, <1>2, LargestBounds
<1> QED
  BY <1>2, <1>3 DEF Entries

LEMMA DimsInRange ==
  /\ \A c \in Contacts : \A d \in Nat : d < RowsOf[c] => d \in Dims
  /\ \A d \in Dims : d \in Nat /\ 0 \in Dims
<1> DEFINE S == {RowsOf[c] : c \in Contacts} \cup {0}
<1>1. S \in SUBSET Nat
  BY ConstraintsAssumption
<1>2. Largest(S) \in S /\ \A k \in S : k <= Largest(S)
  BY <1>1, LargestBounds, DimsAssumption
<1>3. Largest(S) \in Nat
  BY <1>1, <1>2
<1>4. Dims = 0..Largest(S) - 1
  BY DEF Dims
<1> HIDE DEF S
<1>5. \A c \in Contacts : RowsOf[c] \in Nat /\ RowsOf[c] <= Largest(S)
  BY <1>2, ConstraintsAssumption DEF S
<1> QED
  BY <1>3, <1>4, <1>5

LEMMA ProductNat == \A a, b \in Nat : a * b \in Nat
OBVIOUS

\* Blocks of n entries follow each other.
LEMMA Blocks ==
  /\ \A a, b, n \in Nat : a < b => a * n + n <= b * n
<1> SUFFICES ASSUME NEW a \in Nat, NEW b \in Nat, NEW n \in Nat, a < b
             PROVE  a * n + n <= b * n
  OBVIOUS
<1>1. b - a - 1 \in Nat
  OBVIOUS
<1>2. (b - a - 1) * n \in Nat
  BY <1>1, ProductNat
<1>3. (b - a - 1) * n = b * n - a * n - n
  OBVIOUS
<1>4. a * n \in Nat /\ b * n \in Nat
  BY ProductNat
<1> QED
  BY <1>2, <1>3, <1>4

LEMMA ConstraintFacts ==
  \A t \in Constraints :
    /\ KernelOf[t] \in 1..10 /\ RowsOf[t] \in Nat \ {0} /\ NnzOf[t] \in Nat
    /\ t \notin Slots /\ t # None
BY ConstraintsAssumption, DistinctAssumption DEF ContactInit, BlockRows

\* Owners have rows.
LEMMA OwnerFacts ==
  ASSUME TypeOK
  PROVE  /\ Owners \subseteq Threads
         /\ \A t \in Owners : NRows(t) \in Nat \ {0} /\ Nnz(t) \in Nat
         /\ \A t \in active : t \in Constraints /\ t \notin Slots /\ KernelFor(t) \in 1..10 /\ NRows(t) = RowsOf[t]
         /\ \A t \in Touching :
              /\ t \in Slots /\ t \in InUse /\ t \notin Constraints /\ KernelFor(t) = 11
              /\ contact[t] \in Contacts /\ NRows(t) = RowsOf[contact[t]]
         /\ Stage \in 1..14
<1>1. \A t \in active : t \in Constraints
  BY DEF TypeOK
<1>2. \A t \in Touching : t \in Slots /\ t \in InUse /\ contact[t] \in Contacts /\ RowsOf[contact[t]] > 0
  BY DEF TypeOK, Touching, InUse
<1>3. \A t \in Slots : t \notin Constraints
  BY DistinctAssumption
<1>4. \A t \in Touching : NRows(t) = RowsOf[contact[t]] /\ Nnz(t) = NnzOf[contact[t]] /\ KernelFor(t) = 11
  BY <1>2, <1>3 DEF NRows, Nnz, Kind, KernelFor, ContactInit
<1>5. \A t \in active : NRows(t) = RowsOf[t] /\ Nnz(t) = NnzOf[t] /\ KernelFor(t) = KernelOf[t]
  BY <1>1 DEF NRows, Nnz, Kind, KernelFor
<1>6. \A c \in Contacts : RowsOf[c] \in Nat /\ NnzOf[c] \in Nat
  BY ConstraintsAssumption
<1>7. Stage \in 1..14
  BY DEF Stage, TypeOK, Solve
<1>8. Owners \subseteq Threads
  BY <1>1, <1>2 DEF Owners, Threads
<1>9. \A t \in Owners : NRows(t) \in Nat \ {0} /\ Nnz(t) \in Nat
  BY <1>1, <1>2, <1>4, <1>5, <1>6, ConstraintFacts DEF Owners
<1> QED
  BY <1>1, <1>2, <1>3, <1>4, <1>5, <1>7, <1>8, <1>9, ConstraintFacts

-----------------------------------------------------------------------------
(* A call begins.                                                          *)

LEMMA InitInv == Init => IndInv
<1> SUFFICES ASSUME Init PROVE IndInv
  OBVIOUS
<1>1. TypeOK
  <2>1. PICK data \in FirstData :
          /\ data.efc_address \in [Slots -> [Dims -> -1..njmax - 1]]
          /\ efc_address = data.efc_address
          /\ rownnz = data.rownnz /\ rowadr = data.rowadr
    BY DEF Init
  <2> QED
    BY <2>1, LimitsAssumption, DataAssumption DEF Init, TypeOK, Rows, Solve
<1>2. active = {} /\ InUse = {} /\ Touching = {} /\ Owners = {}
  BY DEF Init, InUse, Touching, Owners
<1>3. \A t \in Threads : ~ Given(t)
  BY DEF Init, Given
<1>4. RanOK /\ AllocOK /\ CoverOK /\ CountsOK /\ CategoryOK
  BY <1>2, <1>3 DEF Init, RanOK, AllocOK, CoverOK, CountsOK, CategoryOK, Stage, Solve, ContactInit,
       FirstContactRow, Counters
<1>5. AddressOK /\ RowOK /\ LossesReported
  BY <1>2, <1>3 DEF Init, AddressOK, RowOK, LossesReported
<1>6. IdOK
  BY <1>2, DistinctAssumption DEF Init, IdOK
<1>7. SparseOK /\ EntryOK
  BY <1>2 DEF SparseOK, EntryOK, Filled, FilledRows
<1> QED
  BY <1>1, <1>4, <1>5, <1>6, <1>7 DEF IndInv

LEMMA CallInv == \A scene \in Scenes : IndInv /\ Call(scene) => IndInv'
<1> SUFFICES ASSUME NEW scene \in Scenes, IndInv, Call(scene) PROVE IndInv'
  OBVIOUS
<1> USE DEF Call, config
<1>1. TypeOK'
  <2>1. njmax \in Nat /\ -1 \in -1..njmax - 1
    BY LimitsAssumption DEF IndInv, TypeOK
  <2> QED
    BY <2>1, ScenesAssumption DEF IndInv, TypeOK, Solve
<1>2. \A t \in Threads : ~ Given(t)'
  BY DEF Given
<1>3. Stage' = 1 /\ \A t \in Owners' : ~ Ended(t)' /\ KernelFor(t)' >= 1
  <2>1. Stage' = 1
    BY DEF Stage
  <2>2. \A t \in Owners' : KernelFor(t)' \in 1..11
    BY <1>1, ConstraintFacts DEF KernelFor, Owners, TypeOK, ContactInit
  <2> QED
    BY <2>1, <2>2 DEF Ended
<1>4. RanOK' /\ AllocOK' /\ CoverOK' /\ CountsOK' /\ CategoryOK'
  BY <1>2, <1>3 DEF RanOK, AllocOK, CoverOK, CountsOK, CategoryOK, ContactInit,
       FirstContactRow, Counters
<1>5. AddressOK'
  <2>1. \A s \in Touching' : s \in Threads /\ ~ Given(s)'
    BY <1>2 DEF Touching, InUse, Threads
  <2>2. ASSUME NEW s \in InUse', contact'[s] \notin Flex, NEW d \in Dims, efc_address'[s][d] >= 0
        PROVE  FALSE
    <3>1. s \in Slots /\ contact'[s] \in Contacts \ Flex
      BY <1>1, <2>2 DEF InUse, TypeOK
    <3>2. s \in Cleared(scene.contact)
      BY <3>1 DEF Cleared
    <3> QED
      BY <3>1, <3>2, <2>2
  <2> QED
    BY <2>1, <2>2 DEF AddressOK
<1>6. RowOK' /\ LossesReported'
  BY <1>3 DEF RowOK, LossesReported, ContactUpdate, Owners
<1>7. IdOK'
  <2>1. \A s \in Touching' : s \in Threads /\ ~ Given(s)'
    BY <1>2 DEF Touching, InUse, Threads
  <2> QED
    BY <2>1 DEF IndInv, IdOK, Stored, RowsGiven
<1>8. SparseOK' /\ EntryOK'
  <2>1. Filled' = {}
    BY <1>3 DEF Filled
  <2> QED
    BY <2>1 DEF SparseOK, EntryOK, FilledRows
<1> QED
  BY <1>1, <1>4, <1>5, <1>6, <1>7, <1>8 DEF IndInv

-----------------------------------------------------------------------------
(* A thread takes its rows.                                                *)

LEMMA SameCall ==
  ASSUME UNCHANGED <<config, input>>
  PROVE  /\ UNCHANGED <<is_sparse, njmax, njmax_nnz, active, contact>>
         /\ Touching' = Touching /\ InUse' = InUse /\ Owners' = Owners
         /\ \A t : KernelFor(t)' = KernelFor(t) /\ NRows(t)' = NRows(t) /\ Nnz(t)' = Nnz(t)
         /\ \A k : Kernel(k)' = Kernel(k)
BY DEF config, input, Touching, InUse, Owners, KernelFor, NRows, Nnz, Kind, Kernel

\* The threads of a kernel are owners whose turn it is.
LEMMA TurnFacts ==
  ASSUME IndInv, kernel \in 1..ContactInit
  PROVE  /\ Stage = kernel
         /\ \A t \in Kernel(kernel) : t \in Owners /\ KernelFor(t) = kernel
         /\ \A t \in Kernel(kernel) : t \in Slots <=> kernel = 11
         /\ \A t \in Owners : Ended(t) <=> KernelFor(t) < kernel \/ t \in ran
<1> USE DEF ContactInit
<1>1. Stage = kernel
  BY DEF Stage
<1>2. \A t \in Kernel(kernel) : t \in Owners /\ KernelFor(t) = kernel
  <2>1. CASE kernel < 11
    BY <2>1, OwnerFacts DEF Kernel, Owners, KernelFor, IndInv, TypeOK
  <2>2. CASE kernel = 11
    BY <2>2, OwnerFacts DEF Kernel, Owners, IndInv
  <2> QED
    BY <2>1, <2>2
<1>3. \A t \in Kernel(kernel) : t \in Slots <=> kernel = 11
  <2>1. CASE kernel < 11
    BY <2>1, OwnerFacts DEF Kernel, Owners, IndInv
  <2>2. CASE kernel = 11
    BY <2>2, OwnerFacts DEF Kernel, IndInv
  <2> QED
    BY <2>1, <2>2
<1>4. \A t \in Owners : Ended(t) <=> KernelFor(t) < kernel \/ t \in ran
  <2>1. ran \subseteq Kernel(kernel)
    BY <1>1 DEF IndInv, RanOK
  <2> QED
    BY <1>1, <1>2, <2>1 DEF Ended
<1> QED
  BY <1>1, <1>2, <1>3, <1>4

LEMMA AllocateInv == \A t \in Threads : IndInv /\ Allocate(t) => IndInv'
<1> SUFFICES ASSUME NEW t \in Threads, IndInv, Allocate(t) PROVE IndInv'
  OBVIOUS
<1> USE DEF ContactInit
<1>1. /\ UNCHANGED <<config, input, kernel, efc_nnz, rownnz, rowadr, row, J, reports>>
      /\ kernel \in 1..11 /\ t \in Kernel(kernel) /\ ~ Given(t)
      /\ base' = [base EXCEPT ![t] = nefc] /\ nefc' = nefc + NRows(t) /\ count' = CountRows(t)
      /\ t \in Constraints => UNCHANGED <<id, efc_address, ran>>
      /\ t \notin Constraints =>
           /\ efc_address' = [efc_address EXCEPT ![t] = Addresses(t)]
           /\ id' = [r \in Rows |-> IF r < njmax /\ r - nefc \in 0..NRows(t) - 1 THEN t ELSE id[r]]
           /\ ran' = IF is_sparse THEN ran ELSE ran \cup {t}
  BY DEF Allocate, written
<1>2. /\ UNCHANGED <<is_sparse, njmax, njmax_nnz, active, contact>>
      /\ Touching' = Touching /\ InUse' = InUse /\ Owners' = Owners
      /\ \A u : KernelFor(u)' = KernelFor(u) /\ NRows(u)' = NRows(u) /\ Nnz(u)' = Nnz(u)
      /\ \A k : Kernel(k)' = Kernel(k)
  BY <1>1, SameCall
<1>3. /\ Stage = kernel /\ Stage' = kernel
      /\ t \in Owners /\ KernelFor(t) = kernel /\ (t \in Slots <=> kernel = 11)
      /\ t \in Constraints <=> kernel < 11
      /\ \A u \in Owners : Ended(u) <=> KernelFor(u) < kernel \/ u \in ran
      /\ \A u \in Owners : Ended(u)' => Ended(u) \/ u = t
  <2>1. Stage' = Stage
    BY <1>1 DEF Stage
  <2>2. t \in Constraints <=> t \notin Slots
    BY DistinctAssumption DEF Threads
  <2>3. ran' \subseteq ran \cup {t}
    BY <1>1
  <2>4. Stage = kernel /\ t \in Owners /\ KernelFor(t) = kernel /\ (t \in Slots <=> kernel = 11)
    BY <1>1, TurnFacts
  <2>5. t \in Constraints <=> kernel < 11
    BY <2>2, <2>4, <1>1
  <2>6. \A u \in Owners : Ended(u) <=> KernelFor(u) < kernel \/ u \in ran
    BY <1>1, TurnFacts
  <2>7. \A u \in Owners : Ended(u)' => Ended(u) \/ u = t
    BY <1>2, <2>1, <2>3 DEF Ended
  <2> QED
    BY <2>1, <2>4, <2>5, <2>6, <2>7
<1>4. /\ \A u \in Threads : u # t => base'[u] = base[u] /\ (Given(u)' <=> Given(u))
                                    /\ RowsGiven(u)' = RowsGiven(u) /\ Stored(u)' = Stored(u)
                                    /\ (KeepsRows(u)' <=> KeepsRows(u))
      /\ base'[t] = nefc /\ Given(t)'
  <2>1. base'[t] = nefc /\ \A u \in Threads : u # t => base'[u] = base[u]
    BY <1>1 DEF IndInv, TypeOK
  <2>2. nefc # None
    BY DistinctAssumption DEF IndInv, TypeOK
  <2> QED
    BY <1>2, <2>1, <2>2 DEF Given, RowsGiven, Stored, KeepsRows
<1>5. NRows(t) \in Nat \ {0} /\ nefc \in Nat /\ nefc' \in Nat /\ ~ Ended(t)
  <2>1. NRows(t) \in Nat \ {0}
    BY <1>3, OwnerFacts DEF IndInv
  <2>2. ~ Ended(t)
    BY <1>1, <1>3 DEF IndInv, AllocOK
  <2> QED
    BY <1>1, <2>1, <2>2 DEF IndInv, TypeOK
<1>6. TypeOK'
  <2>1. count' \in [Counters -> Nat]
    BY <1>1, <1>5 DEF CountRows, IndInv, TypeOK, CounterOf, Counters
  <2>2. id' \in [Rows -> Threads \cup {None}]
    BY <1>1 DEF IndInv, TypeOK
  <2>3. t \in Slots => Addresses(t) \in [Dims -> -1..njmax - 1]
    <3>1. \A d \in Dims : d \in Nat
      BY DimsInRange
    <3>2. njmax \in Nat
      BY RowsInRange DEF IndInv, TypeOK
    <3> QED
      BY <1>5, <3>1, <3>2 DEF Addresses, IndInv, TypeOK
  <2>4. efc_address' \in [Slots -> [Dims -> -1..njmax - 1]]
    <3>1. CASE t \in Constraints
      BY <1>1, <3>1 DEF IndInv, TypeOK
    <3>2. CASE t \notin Constraints
      <4>1. efc_address' = [efc_address EXCEPT ![t] = Addresses(t)] /\ t \in Slots
        BY <1>1, <3>2 DEF Threads
      <4> QED
        BY <2>3, <4>1 DEF IndInv, TypeOK
    <3> QED
      BY <3>1, <3>2
  <2>5. base' \in [Threads -> Nat \cup {None}]
    BY <1>1, <1>5 DEF IndInv, TypeOK
  <2> QED
    BY <1>1, <1>2, <1>5, <2>1, <2>2, <2>4, <2>5 DEF IndInv, TypeOK
<1>7. RanOK'
  BY <1>1, <1>2, <1>3 DEF IndInv, RanOK
<1>8. AllocOK'
  <2>1. \A u \in Threads : Given(u)' =>
          u \in Owners /\ KernelFor(u) <= kernel /\ base'[u] + NRows(u) <= nefc'
    <3>1. ASSUME NEW u \in Threads, Given(u), u # t
          PROVE  u \in Owners /\ KernelFor(u) <= kernel /\ base'[u] + NRows(u) <= nefc'
      <4>1. u \in Owners /\ KernelFor(u) <= kernel /\ base[u] + NRows(u) <= nefc
        BY <1>3, <3>1 DEF IndInv, AllocOK
      <4>2. NRows(u) \in Nat /\ base[u] \in Nat
        BY <4>1, <3>1, OwnerFacts DEF IndInv, TypeOK, Given
      <4> QED
        BY <1>1, <1>4, <1>5, <3>1, <4>1, <4>2
    <3> QED
      BY <1>1, <1>3, <1>4, <1>5, <3>1
  <2>2. \A u \in Owners : Ended(u)' => Given(u)'
    <3>1. Owners \subseteq Threads
      BY OwnerFacts DEF IndInv
    <3> QED
      BY <1>3, <1>4, <3>1 DEF IndInv, AllocOK
  <2>3. ASSUME NEW u \in Threads, Given(u), u # t
        PROVE  base'[u] + NRows(u) <= base'[t]
    BY <1>4, <2>3 DEF IndInv, AllocOK
  <2>4. \A u, v \in Threads : u # v /\ Given(u)' /\ Given(v)' =>
          base'[u] + NRows(u) <= base'[v] \/ base'[v] + NRows(v) <= base'[u]
    BY <1>4, <2>3 DEF IndInv, AllocOK
  <2> QED
    BY <1>2, <1>3, <2>1, <2>2, <2>4 DEF AllocOK
<1>9. CoverOK'
  <2> SUFFICES ASSUME NEW r \in 0..nefc' - 1 PROVE \E u \in Threads : r \in RowsGiven(u)'
    BY DEF CoverOK
  <2>1. CASE r < nefc
    <3>1. PICK u \in Threads : r \in RowsGiven(u)
      BY <1>5, <2>1 DEF IndInv, CoverOK
    <3>2. u # t
      BY <1>1, <3>1 DEF RowsGiven
    <3> QED
      BY <1>4, <3>1, <3>2
  <2>2. CASE r >= nefc
    <3>1. r \in nefc..nefc + NRows(t) - 1
      BY <1>1, <1>5, <2>2
    <3>2. RowsGiven(t)' = nefc..nefc + NRows(t) - 1
      BY <1>2, <1>4 DEF RowsGiven
    <3> QED
      BY <3>1, <3>2
  <2> QED
    BY <1>5, <2>1, <2>2
<1>10. CountsOK' /\ CategoryOK'
  <2>1. /\ count["ne"] \in Nat /\ count["nf"] \in Nat /\ count["nl"] \in Nat
        /\ count'["ne"] = IF kernel <= 5 THEN count["ne"] + NRows(t) ELSE count["ne"]
        /\ count'["nf"] = IF kernel \in 6..7 THEN count["nf"] + NRows(t) ELSE count["nf"]
        /\ count'["nl"] = IF kernel \in 8..10 THEN count["nl"] + NRows(t) ELSE count["nl"]
    <3>1. CASE t \in Slots
      BY <1>1, <1>3, <3>1 DEF CountRows, IndInv, TypeOK, Counters
    <3>2. CASE t \notin Slots
      <4>1. kernel \in 1..10
        BY <1>1, <1>3, <3>2
      <4>2. count' = [count EXCEPT ![CounterOf(kernel)] = @ + NRows(t)]
        BY <1>1, <3>2 DEF CountRows
      <4>3. count \in [Counters -> Nat] /\ Counters = {"ne", "nf", "nl"}
        BY DEF IndInv, TypeOK, Counters
      <4>4. CASE kernel <= 5
        BY <4>1, <4>2, <4>3, <4>4 DEF CounterOf
      <4>5. CASE kernel \in 6..7
        BY <4>1, <4>2, <4>3, <4>5 DEF CounterOf
      <4>6. CASE kernel \in 8..10
        BY <4>1, <4>2, <4>3, <4>6 DEF CounterOf
      <4> QED
        BY <4>1, <4>4, <4>5, <4>6
    <3> QED
      BY <3>1, <3>2
  <2>2. CountsOK'
    <3> USE <1>1, <1>3, <1>5, <2>1 DEF IndInv, CountsOK, FirstContactRow
    <3>1. CASE kernel <= 5
      BY <3>1
    <3>2. CASE kernel \in 6..7
      BY <3>2
    <3>3. CASE kernel \in 8..10
      BY <3>3
    <3>4. CASE kernel = 11
      BY <3>4
    <3> QED
      BY <3>1, <3>2, <3>3, <3>4
  <2>3. CategoryOK'
    <3> SUFFICES ASSUME NEW u \in Threads, Given(u)'
                 PROVE  IF u \in Slots THEN FirstContactRow' <= base'[u]
                        ELSE CASE CounterOf(KernelOf[u]) = "ne" -> base'[u] + NRows(u) <= count'["ne"]
                               [] CounterOf(KernelOf[u]) = "nf" ->
                                    count'["ne"] <= base'[u] /\ base'[u] + NRows(u) <= count'["ne"] + count'["nf"]
                               [] OTHER ->
                                    count'["ne"] + count'["nf"] <= base'[u]
                                      /\ base'[u] + NRows(u) <= FirstContactRow'
      BY <1>2 DEF CategoryOK
    <3>1. u \in Owners /\ KernelFor(u) <= kernel /\ base'[u] \in Nat /\ NRows(u) \in Nat
      <4>1. u \in Owners /\ KernelFor(u) <= kernel
        BY <1>2, <1>3, <1>8 DEF AllocOK
      <4>2. base'[u] \in Nat
        BY <1>6 DEF TypeOK, Given
      <4> QED
        BY <4>1, <4>2, OwnerFacts DEF IndInv
    <3>2. u \notin Slots => KernelOf[u] \in 1..10 /\ KernelFor(u) = KernelOf[u]
      BY ConstraintFacts DEF Threads, KernelFor
    <3>3. u \in Slots => KernelFor(u) = 11
      BY DistinctAssumption DEF KernelFor
    <3> USE <2>1, <1>1, <1>5 DEF CounterOf, FirstContactRow
    <3>4. CASE u = t
      BY <3>1, <3>2, <3>3, <3>4, <1>3, <1>4 DEF IndInv, CountsOK
    <3>5. CASE u # t
      <4>1. base'[u] = base[u] /\ Given(u)
        BY <1>4, <3>5
      <4> QED
        BY <3>1, <3>2, <3>3, <4>1 DEF IndInv, CategoryOK
    <3> QED
      BY <3>4, <3>5
  <2> QED
    BY <2>2, <2>3
<1>11. AddressOK'
  <2>1. ASSUME NEW s \in Touching, Given(s)', NEW d \in Dims, d < RowsOf[contact[s]]
        PROVE  efc_address'[s][d] = IF base'[s] + d < njmax THEN base'[s] + d ELSE -1
    <3>1. s \in Slots /\ s \in Threads /\ s \notin Constraints /\ NRows(s) = RowsOf[contact[s]]
      BY OwnerFacts DEF IndInv, Threads
    <3>2. CASE s = t
      <4>1. efc_address'[t] = Addresses(t)
        BY <1>1, <3>1, <3>2 DEF IndInv, TypeOK
      <4>2. ~ d >= NRows(t)
        BY <2>1, <3>1, <3>2, <1>5, DimsInRange
      <4> QED
        BY <1>4, <3>2, <4>1, <4>2 DEF Addresses
    <3>3. CASE s # t
      <4>1. efc_address'[s] = efc_address[s]
        BY <1>1, <3>1, <3>3 DEF IndInv, TypeOK
      <4> QED
        BY <1>4, <2>1, <3>1, <3>3, <4>1 DEF IndInv, AddressOK
    <3> QED
      BY <3>2, <3>3
  <2>2. ASSUME NEW s \in InUse, contact[s] \notin Flex, NEW d \in Dims, efc_address'[s][d] >= 0
        PROVE  Given(s)' /\ d < RowsOf[contact[s]]
    <3>1. s \in Slots /\ s \in Threads /\ s \notin Constraints
      BY DistinctAssumption DEF InUse, Threads
    <3>2. CASE s = t
      <4>1. efc_address'[t] = Addresses(t)
        BY <1>1, <3>1, <3>2 DEF IndInv, TypeOK
      <4>2. ~ (efc_address[t][d] >= 0)
        BY <1>1, <2>2, <3>2 DEF IndInv, AddressOK
      <4>3. d < NRows(t)
        BY <2>2, <3>2, <4>1, <4>2, <1>5, DimsInRange DEF Addresses
      <4> QED
        BY <1>4, <3>1, <3>2, <4>3 DEF NRows, Kind
    <3>3. CASE s # t
      <4>1. efc_address'[s] = efc_address[s]
        BY <1>1, <3>1, <3>3 DEF IndInv, TypeOK
      <4> QED
        BY <1>4, <2>2, <3>1, <3>3, <4>1 DEF IndInv, AddressOK
    <3> QED
      BY <3>2, <3>3
  <2> QED
    BY <1>2, <2>1, <2>2 DEF AddressOK
<1>12. IdOK'
  <2>1. ASSUME NEW r \in Rows, id'[r] \in Slots
        PROVE  0 \in Dims
    <3>1. CASE id'[r] = id[r]
      BY <2>1, <3>1 DEF IndInv, IdOK
    <3>2. CASE id'[r] # id[r]
      <4>1. t \notin Constraints
        BY <1>1, <3>2
      <4>2. contact[t] \in Contacts /\ NRows(t) = RowsOf[contact[t]]
        BY <1>3, <4>1, OwnerFacts DEF Owners, IndInv, TypeOK
      <4> QED
        BY <4>2, <1>5, DimsInRange
    <3> QED
      BY <3>1, <3>2
  <2>2. ASSUME NEW s \in Touching, NEW r \in Stored(s)'
        PROVE  id'[r] = s
    <3>1. s \in Slots /\ s \in Threads /\ s \notin Constraints
      BY OwnerFacts DEF IndInv, Threads
    <3>2. CASE s = t
      <4>1. r \in nefc..nefc + NRows(t) - 1 /\ r < njmax
        BY <1>2, <1>4, <2>2, <3>2 DEF Stored, RowsGiven
      <4>2. r \in Rows
        BY <4>1, <1>5, RowsInRange DEF IndInv, TypeOK
      <4> QED
        BY <1>1, <1>5, <3>1, <3>2, <4>1, <4>2
    <3>3. CASE s # t
      <4>1. r \in Stored(s) /\ id[r] = s
        BY <1>4, <2>2, <3>1, <3>3 DEF IndInv, IdOK
      <4>2. r \in base[s]..base[s] + NRows(s) - 1 /\ r < njmax /\ Given(s)
        BY <4>1 DEF Stored, RowsGiven
      <4>3. base[s] \in Nat /\ NRows(s) \in Nat
        BY <3>1, <4>2, <2>2, OwnerFacts DEF IndInv, TypeOK, Given, Owners
      <4>4. base[s] + NRows(s) <= nefc
        BY <3>1, <4>2 DEF IndInv, AllocOK
      <4>5. r \in Rows /\ r < nefc
        BY <4>2, <4>3, <4>4, <1>5, RowsInRange DEF IndInv, TypeOK
      <4> QED
        BY <1>1, <1>5, <4>1, <4>2, <4>5
    <3> QED
      BY <3>2, <3>3
  <2> QED
    BY <1>2, <2>1, <2>2 DEF IdOK
<1>13. RowOK'
  <2>1. \A u \in active : Ended(u)' => Ended(u) /\ u # t /\ u \in Threads
    <3>1. CASE t \in Constraints
      BY <1>1, <1>2, <1>3, <1>5, <3>1 DEF Ended, IndInv, TypeOK, Threads, Owners
    <3>2. CASE t \notin Constraints
      BY <1>3, <3>2 DEF IndInv, TypeOK, Threads, Owners
    <3> QED
      BY <3>1, <3>2
  <2> QED
    BY <1>1, <1>2, <1>3, <1>4, <2>1 DEF IndInv, RowOK, ContactUpdate
<1>14. SparseOK' /\ EntryOK'
  <2>1. \A u \in Filled' : (u \in Filled /\ u # t) \/ (u = t /\ t \in Touching)
    <3>1. ASSUME NEW u \in Owners, Ended(u)', u # t
          PROVE  Ended(u) /\ u \in Threads
      BY <1>3, <3>1, OwnerFacts DEF IndInv
    <3>2. t \in active => ~ Ended(t)'
      BY <1>1, <1>2, <1>3, <1>5, OwnerFacts DEF Ended, IndInv
    <3> QED
      BY <1>2, <1>3, <1>4, <3>1, <3>2 DEF Filled, Owners
  <2>2. is_sparse => Filled' \subseteq Filled \ {t}
    <3>1. is_sparse => ran' = ran
      BY <1>1
    <3>2. is_sparse => ~ Ended(t)'
      BY <1>2, <1>3, <1>5, <3>1 DEF Ended
    <3> QED
      BY <2>1, <3>2 DEF Filled
  <2>3. \A u \in Filled : u \in Threads
    BY OwnerFacts DEF IndInv, Filled
  <2>4. SparseOK'
    <3>1. is_sparse => \A r \in FilledRows' : r \in FilledRows
      BY <1>4, <2>2, <2>3 DEF FilledRows
    <3> QED
      BY <1>1, <1>2, <3>1 DEF IndInv, SparseOK
  <2>5. EntryOK'
    <3> SUFFICES ASSUME efc_nnz <= njmax_nnz, NEW u \in Filled', NEW r \in Stored(u)', JacobianDone(u, r)',
                        NEW e \in EntriesOf(r)'
                 PROVE  J'[e] = <<u, r - base'[u]>>
      BY <1>1, <1>2 DEF EntryOK
    <3>1. u \notin Touching
      BY <1>1, <1>2, <1>3, OwnerFacts DEF JacobianDone, ContactJac, IndInv
    <3>2. u \in Filled /\ u # t /\ u \in Threads
      BY <2>1, <2>3, <3>1
    <3>3. JacobianDone(u, r) /\ e \in EntriesOf(r) /\ r \in Stored(u)
      BY <1>1, <1>2, <1>3, <1>4, <3>2 DEF JacobianDone, EntriesOf, ContactJac
    <3> QED
      BY <1>1, <1>3, <1>4, <3>2, <3>3 DEF IndInv, EntryOK, ContactJac
  <2> QED
    BY <2>4, <2>5
<1>15. LossesReported'
  BY <1>1 DEF LossesReported
<1> QED
  BY <1>6, <1>7, <1>8, <1>9, <1>10, <1>11, <1>12, <1>13, <1>14, <1>15 DEF IndInv

-----------------------------------------------------------------------------
(* A thread writes its rows, or gives up.                                  *)

LEMMA GivenFacts ==
  ASSUME IndInv
  PROVE  /\ \A t \in Threads : Given(t) => base[t] \in Nat /\ NRows(t) \in Nat \ {0} /\ Nnz(t) \in Nat
                                           /\ base[t] + NRows(t) <= nefc /\ t \in Owners
         /\ \A t \in Threads : \A r \in RowsGiven(t) : Given(t) /\ r \in Nat /\ base[t] <= r
                                             /\ r < base[t] + NRows(t) /\ r - base[t] \in Nat
         /\ \A t \in Threads : \A r \in Stored(t) : r \in RowsGiven(t) /\ r < njmax /\ r \in Rows /\ r \in Entries
         /\ njmax \in Nat /\ njmax_nnz \in Nat /\ efc_nnz \in Nat /\ nefc \in Nat
<1>1. \A t \in Threads : Given(t) => base[t] \in Nat /\ NRows(t) \in Nat \ {0} /\ Nnz(t) \in Nat
                                     /\ base[t] + NRows(t) <= nefc /\ t \in Owners
  BY OwnerFacts DEF IndInv, TypeOK, AllocOK, Given
<1>2. \A t \in Threads : \A r \in RowsGiven(t) : Given(t) /\ r \in Nat /\ base[t] <= r
                                     /\ r < base[t] + NRows(t) /\ r - base[t] \in Nat
  BY <1>1 DEF RowsGiven
<1>3. \A t \in Threads : \A r \in Stored(t) : r \in RowsGiven(t) /\ r < njmax /\ r \in Rows /\ r \in Entries
  BY <1>2, RowsInRange, EntriesInRange DEF Stored, IndInv, TypeOK
<1> QED
  BY <1>1, <1>2, <1>3, RowsInRange, EntriesInRange DEF IndInv, TypeOK

LEMMA DisjointRows ==
  ASSUME IndInv
  PROVE  \A t, u \in Threads : t # u => RowsGiven(t) \cap RowsGiven(u) = {}
<1> SUFFICES ASSUME NEW t \in Threads, NEW u \in Threads, t # u,
                    NEW r \in RowsGiven(t), r \in RowsGiven(u)
             PROVE  FALSE
  OBVIOUS
<1>1. /\ Given(t) /\ base[t] <= r /\ r < base[t] + NRows(t)
      /\ Given(u) /\ base[u] <= r /\ r < base[u] + NRows(u) /\ r \in Nat
  BY GivenFacts
<1>2. base[t] + NRows(t) <= base[u] \/ base[u] + NRows(u) <= base[t]
  BY <1>1 DEF IndInv, AllocOK
<1> QED
  BY <1>1, <1>2, GivenFacts

\* What a thread leaves alone that only ends.
LEMMA EndFacts ==
  ASSUME IndInv, NEW t \in Threads, Owed(t),
         UNCHANGED <<config, input, kernel, base>>, ran' = ran \cup {t}
  PROVE  /\ UNCHANGED <<is_sparse, njmax, njmax_nnz, active, contact>>
         /\ Touching' = Touching /\ InUse' = InUse /\ Owners' = Owners
         /\ \A u : NRows(u)' = NRows(u) /\ RowsGiven(u)' = RowsGiven(u) /\ Stored(u)' = Stored(u)
                   /\ (Given(u)' <=> Given(u)) /\ (KeepsRows(u)' <=> KeepsRows(u))
                   /\ KernelFor(u)' = KernelFor(u)
         /\ kernel \in 1..11 /\ Stage = kernel /\ Stage' = kernel
         /\ t \in Owners /\ Given(t) /\ ~ Ended(t) /\ KernelFor(t) = kernel
         /\ \A u \in Owners : Ended(u)' => Ended(u) \/ u = t
         /\ Filled \subseteq Filled' /\ Filled' \subseteq Filled \cup {t}
<1> USE DEF ContactInit
<1>1. /\ UNCHANGED <<is_sparse, njmax, njmax_nnz, active, contact>>
      /\ Touching' = Touching /\ InUse' = InUse /\ Owners' = Owners
      /\ \A u : KernelFor(u)' = KernelFor(u) /\ NRows(u)' = NRows(u) /\ Nnz(u)' = Nnz(u)
  BY SameCall
<1>2. \A u : RowsGiven(u)' = RowsGiven(u) /\ Stored(u)' = Stored(u)
             /\ (Given(u)' <=> Given(u)) /\ (KeepsRows(u)' <=> KeepsRows(u))
  BY <1>1 DEF RowsGiven, Stored, Given, KeepsRows
<1>3. kernel \in 1..11 /\ Stage = kernel /\ t \in Owners /\ Given(t) /\ KernelFor(t) = kernel
  BY TurnFacts DEF Owed
<1>4. Stage' = Stage
  BY DEF Stage
<1>5. \A u : Ended(u) => Ended(u)'
  BY <1>1, <1>4 DEF Ended
<1>6. \A u \in Owners : Ended(u)' => Ended(u) \/ u = t
  BY <1>1, <1>4 DEF Ended
<1>7. ~ Ended(t)
  BY <1>3 DEF Owed, Ended
<1> QED
  BY <1>1, <1>2, <1>3, <1>4, <1>5, <1>6, <1>7 DEF Filled

\* The conjuncts that do not depend on what is written.
LEMMA EndKeeps ==
  ASSUME IndInv, NEW t \in Threads, Owed(t),
         UNCHANGED <<config, input, kernel, base, count, nefc, efc_address>>, ran' = ran \cup {t}
  PROVE  RanOK' /\ AllocOK' /\ CoverOK' /\ CountsOK' /\ CategoryOK' /\ AddressOK' /\ LossesReported'
<1>1. /\ UNCHANGED <<is_sparse, njmax, njmax_nnz, active, contact>>
      /\ Touching' = Touching /\ InUse' = InUse /\ Owners' = Owners
      /\ \A u : NRows(u)' = NRows(u) /\ RowsGiven(u)' = RowsGiven(u) /\ (Given(u)' <=> Given(u))
                /\ KernelFor(u)' = KernelFor(u)
      /\ kernel \in 1..11 /\ Stage = kernel /\ Stage' = kernel /\ Given(t)
      /\ \A u \in Owners : Ended(u)' => Ended(u) \/ u = t
  BY EndFacts
<1>2. RanOK'
  <2>1. t \in Kernel(kernel) /\ Kernel(kernel)' = Kernel(kernel)
    BY <1>1, SameCall DEF Owed
  <2> QED
    BY <1>1, <2>1 DEF IndInv, RanOK
<1>3. AllocOK' /\ CoverOK'
  BY <1>1 DEF IndInv, AllocOK, CoverOK
<1>4. CountsOK' /\ CategoryOK'
  BY <1>1 DEF IndInv, CountsOK, CategoryOK, FirstContactRow
<1>5. AddressOK' /\ LossesReported'
  BY <1>1 DEF IndInv, AddressOK, LossesReported
<1> QED
  BY <1>2, <1>3, <1>4, <1>5

LEMMA GiveUpInv == \A t \in Threads : IndInv /\ GiveUp(t) => IndInv'
<1> SUFFICES ASSUME NEW t \in Threads, IndInv, GiveUp(t) PROVE IndInv'
  OBVIOUS
<1>1. /\ UNCHANGED <<config, input, kernel, counters, columns, base, written, reports>>
      /\ UNCHANGED <<count, nefc, efc_nnz, rownnz, rowadr, id, efc_address, row, J>>
      /\ ran' = ran \cup {t} /\ Owed(t) /\ ~ KeepsRows(t)
  BY DEF GiveUp, counters, columns, written
<1>2. RanOK' /\ AllocOK' /\ CoverOK' /\ CountsOK' /\ CategoryOK' /\ AddressOK' /\ LossesReported'
  BY <1>1, EndKeeps
<1>3. TypeOK'
  BY <1>1 DEF IndInv, TypeOK, config, input
<1>4. /\ UNCHANGED <<is_sparse, njmax, njmax_nnz, active, contact>>
      /\ Touching' = Touching /\ InUse' = InUse /\ Owners' = Owners
      /\ \A u : NRows(u)' = NRows(u) /\ Stored(u)' = Stored(u)
                /\ (KeepsRows(u)' <=> KeepsRows(u))
      /\ kernel \in 1..11 /\ Stage = kernel /\ Stage' = kernel
      /\ \A u \in Owners : Ended(u)' => Ended(u) \/ u = t
      /\ Filled' \subseteq Filled \cup {t}
  BY <1>1, EndFacts
<1>5. IdOK' /\ RowOK'
  BY <1>1, <1>4 DEF IndInv, IdOK, RowOK, Owners, ContactUpdate
<1>6. Filled' \subseteq Filled
  BY <1>1, <1>4 DEF Filled
<1>7. SparseOK'
  <2>1. FilledRows' \subseteq FilledRows
    BY <1>4, <1>6 DEF FilledRows
  <2> QED
    BY <1>1, <1>4, <2>1 DEF IndInv, SparseOK
<1>8. EntryOK'
  <2>1. \A u, r : EntriesOf(r)' = EntriesOf(r) /\ (JacobianDone(u, r)' => u \in active)
    BY <1>1, <1>4 DEF EntriesOf, JacobianDone, ContactJac
  <2>2. \A u \in active : \A r : JacobianDone(u, r)
    BY DEF JacobianDone
  <2> QED
    BY <1>1, <1>4, <1>6, <2>1, <2>2 DEF IndInv, EntryOK, ContactJac
<1> QED
  BY <1>2, <1>3, <1>5, <1>7, <1>8 DEF IndInv

LEMMA FillDenseInv == \A t \in Threads : IndInv /\ FillDense(t) => IndInv'
<1> SUFFICES ASSUME NEW t \in Threads, IndInv, FillDense(t) PROVE IndInv'
  OBVIOUS
<1>1. /\ UNCHANGED <<config, input, kernel, base, reports>>
      /\ UNCHANGED <<count, nefc, efc_nnz, rownnz, rowadr, efc_address>>
      /\ ran' = ran \cup {t} /\ Owed(t) /\ ~ is_sparse
      /\ row' = [r \in Rows |-> IF r \in RowsGiven(t) THEN <<t, r - base[t]>> ELSE row[r]]
      /\ id' = [r \in Rows |-> IF r \in RowsGiven(t) THEN t ELSE id[r]]
      /\ J' = [e \in Entries |-> IF e \in RowsGiven(t) THEN <<t, e - base[t]>> ELSE J[e]]
  BY DEF FillDense, WriteRows, counters
<1>2. RanOK' /\ AllocOK' /\ CoverOK' /\ CountsOK' /\ CategoryOK' /\ AddressOK' /\ LossesReported'
  BY <1>1, EndKeeps
<1>3. TypeOK'
  BY <1>1, GivenFacts DEF IndInv, TypeOK, config, input
<1>4. /\ UNCHANGED <<is_sparse, njmax, njmax_nnz, active, contact>>
      /\ Touching' = Touching /\ InUse' = InUse /\ Owners' = Owners
      /\ \A u : Stored(u)' = Stored(u) /\ (KeepsRows(u)' <=> KeepsRows(u))
      /\ kernel \in 1..11 /\ Stage = kernel /\ Stage' = kernel /\ t \in Owners
      /\ \A u \in Owners : Ended(u)' => Ended(u) \/ u = t
      /\ Filled' \subseteq Filled \cup {t}
  BY <1>1, EndFacts
<1>5. \A u \in Owners : \A r \in Stored(u) :
        /\ u = t => r \in RowsGiven(t)
        /\ u # t => r \notin RowsGiven(t)
        /\ r \in Rows /\ r \in Entries
  <2>1. Owners \subseteq Threads
    BY OwnerFacts DEF IndInv
  <2> QED
    BY <2>1, GivenFacts, DisjointRows
<1>6. IdOK'
  <2>1. t \in Slots => 0 \in Dims
    <3>1. t \in Slots => t \in Touching
      BY <1>4, OwnerFacts DEF IndInv, Owners
    <3>2. t \in Touching => contact[t] \in Contacts /\ RowsOf[contact[t]] \in Nat \ {0}
      BY OwnerFacts, <1>4 DEF IndInv
    <3> QED
      BY <3>1, <3>2, DimsInRange
  <2> QED
    BY <1>1, <1>4, <1>5, <2>1 DEF IndInv, IdOK, Owners
<1>7. RowOK'
  BY <1>1, <1>4, <1>5 DEF IndInv, RowOK, ContactUpdate, Owners
<1>8. SparseOK'
  BY <1>1, <1>4 DEF SparseOK
<1>9. EntryOK'
  <2>1. \A u, r : EntriesOf(r) = {r} /\ EntriesOf(r)' = {r} /\ (JacobianDone(u, r)' => u \in active)
    BY <1>1, <1>4 DEF EntriesOf, JacobianDone, ContactJac
  <2>2. \A u \in active : \A r : JacobianDone(u, r)
    BY DEF JacobianDone
  <2>3. \A u \in Filled : u \in Owners
    BY DEF Filled
  <2>4. ASSUME efc_nnz <= njmax_nnz, NEW u \in Filled', NEW r \in Stored(u), u \in active
        PROVE  J'[r] = <<u, r - base[u]>>
    <3>1. CASE u = t
      BY <1>1, <1>4, <1>5, <2>4, <3>1
    <3>2. CASE u # t
      <4>1. J[r] = <<u, r - base[u]>>
        BY <1>4, <2>1, <2>2, <2>4, <3>2 DEF IndInv, EntryOK, ContactJac
      <4> QED
        BY <1>1, <1>4, <1>5, <2>3, <2>4, <3>2, <4>1
    <3> QED
      BY <3>1, <3>2
  <2> SUFFICES ASSUME efc_nnz <= njmax_nnz, NEW u \in Filled', NEW r \in Stored(u)', JacobianDone(u, r)',
                      NEW e \in EntriesOf(r)'
               PROVE  J'[e] = <<u, r - base'[u]>>
    BY <1>1, <1>4 DEF EntryOK
  <2> QED
    BY <1>1, <1>4, <2>1, <2>4
<1> QED
  BY <1>2, <1>3, <1>6, <1>7, <1>8, <1>9 DEF IndInv

LEMMA FillSparseInv ==
  \A t \in Threads : \A size : IndInv /\ FillSparse(t, size) => IndInv'
<1> SUFFICES ASSUME NEW t \in Threads, NEW size, IndInv, FillSparse(t, size) PROVE IndInv'
  OBVIOUS
<1> DEFINE start(r) == efc_nnz + (r - base[t]) * Nnz(t)
           row_of(e) == {r \in Stored(t) : e \in start(r)..start(r) + size - 1}
           fits == efc_nnz + Need(t) <= njmax_nnz
<1>1. /\ UNCHANGED <<config, input, kernel, base, reports>>
      /\ UNCHANGED <<count, nefc, efc_address>>
      /\ ran' = ran \cup {t} /\ Owed(t) /\ is_sparse /\ size \in Sizes(t)
      /\ efc_nnz' = efc_nnz + Need(t)
      /\ rownnz' = [r \in Rows |->
             IF r \in Stored(t) /\ (fits \/ SizeFirst(t)) THEN size ELSE rownnz[r]]
      /\ rowadr' = [r \in Rows |-> IF r \in Stored(t) /\ fits THEN start(r) ELSE rowadr[r]]
      /\ fits /\ t \in Constraints =>
           /\ row' = [r \in Rows |-> IF r \in RowsGiven(t) THEN <<t, r - base[t]>> ELSE row[r]]
           /\ id' = [r \in Rows |-> IF r \in RowsGiven(t) THEN t ELSE id[r]]
           /\ J' = [e \in Entries |->
                IF row_of(e) = {} THEN J[e] ELSE <<t, (CHOOSE r \in row_of(e) : TRUE) - base[t]>>]
      /\ ~ (fits /\ t \in Constraints) => UNCHANGED <<id, row, J>>
  BY DEF FillSparse, WriteRows, written
<1>2. RanOK' /\ AllocOK' /\ CoverOK' /\ CountsOK' /\ CategoryOK' /\ AddressOK' /\ LossesReported'
  BY <1>1, EndKeeps
<1>3. /\ UNCHANGED <<is_sparse, njmax, njmax_nnz, active, contact>>
      /\ Touching' = Touching /\ InUse' = InUse /\ Owners' = Owners
      /\ \A u : Stored(u)' = Stored(u) /\ (KeepsRows(u)' <=> KeepsRows(u))
      /\ kernel \in 1..11 /\ Stage = kernel /\ Stage' = kernel /\ t \in Owners /\ Given(t)
      /\ \A u \in Owners : Ended(u)' => Ended(u) \/ u = t
      /\ Filled' \subseteq Filled \cup {t}
  BY <1>1, EndFacts
<1>4. /\ base[t] \in Nat /\ NRows(t) \in Nat \ {0} /\ Nnz(t) \in Nat /\ efc_nnz \in Nat
      /\ njmax_nnz \in Nat
      /\ size \in Nat /\ size <= Nnz(t) /\ Need(t) \in Nat
  <2>1. base[t] \in Nat /\ NRows(t) \in Nat \ {0} /\ Nnz(t) \in Nat /\ efc_nnz \in Nat /\ njmax_nnz \in Nat
    BY <1>3, GivenFacts
  <2>2. size \in Nat /\ size <= Nnz(t)
    BY <1>1, <2>1 DEF Sizes
  <2>3. Need(t) \in Nat
    BY <2>1, ProductNat DEF Need
  <2> QED
    BY <2>1, <2>2, <2>3
<1>5. \A r \in Stored(t) : start(r) \in Nat /\ efc_nnz <= start(r) /\ start(r) + size <= efc_nnz + Need(t)
  <2> SUFFICES ASSUME NEW r \in Stored(t)
               PROVE  start(r) \in Nat /\ efc_nnz <= start(r) /\ start(r) + size <= efc_nnz + Need(t)
    OBVIOUS
  <2>1. r - base[t] \in Nat /\ r - base[t] < NRows(t)
    BY GivenFacts, <1>4
  <2>2. (r - base[t]) * Nnz(t) \in Nat
    BY <2>1, <1>4, ProductNat
  <2>3. (r - base[t]) * Nnz(t) + Nnz(t) <= NRows(t) * Nnz(t)
    BY <2>1, <1>4, Blocks
  <2> QED
    BY <1>4, <2>2, <2>3 DEF Need
<1>6. \A r, q \in Stored(t) : r # q => start(r) + size <= start(q) \/ start(q) + size <= start(r)
  <2>1. ASSUME NEW r \in Stored(t), NEW q \in Stored(t), r < q
        PROVE  start(r) + size <= start(q)
    <3>1. r - base[t] \in Nat /\ q - base[t] \in Nat /\ r - base[t] < q - base[t]
      BY GivenFacts, <1>4, <2>1
    <3>2. (r - base[t]) * Nnz(t) + Nnz(t) <= (q - base[t]) * Nnz(t)
      BY <3>1, <1>4, Blocks
    <3>3. (r - base[t]) * Nnz(t) \in Nat /\ (q - base[t]) * Nnz(t) \in Nat
      BY <3>1, <1>4, ProductNat
    <3> QED
      BY <1>4, <3>2, <3>3
  <2>2. \A r, q \in Stored(t) : r # q => r < q \/ q < r
    BY GivenFacts
  <2> QED
    BY <2>1, <2>2
<1>7. \A u \in Owners : \A r \in Stored(u) :
        /\ u = t => r \in RowsGiven(t)
        /\ u # t => r \notin RowsGiven(t) /\ r \notin Stored(t)
        /\ r \in Rows
  <2>1. Owners \subseteq Threads
    BY OwnerFacts DEF IndInv
  <2> QED
    BY <2>1, GivenFacts, DisjointRows
<1>8. \A e : row_of(e) # {} => (CHOOSE r \in row_of(e) : TRUE) \in row_of(e)
  OBVIOUS
<1>9. \A u \in Filled : u \in Owners
  BY DEF Filled
<1> HIDE DEF start, row_of, fits
<1>10. TypeOK'
  <2>1. rownnz' \in [Rows -> Nat] /\ rowadr' \in [Rows -> Nat] /\ efc_nnz' \in Nat
    BY <1>1, <1>4, <1>5 DEF IndInv, TypeOK
  <2>2. id' \in [Rows -> Threads \cup {None}]
    BY <1>1 DEF IndInv, TypeOK
  <2>3. row' \in [Rows -> (Threads \X Int) \cup {None}]
    <3>1. \A r \in RowsGiven(t) : r - base[t] \in Int
      BY GivenFacts
    <3>2. row \in [Rows -> (Threads \X Int) \cup {None}]
      BY DEF IndInv, TypeOK
    <3>3. CASE fits /\ t \in Constraints
      BY <1>1, <3>1, <3>2, <3>3
    <3>4. CASE ~ (fits /\ t \in Constraints)
      BY <1>1, <3>2, <3>4
    <3> QED
      BY <3>3, <3>4
  <2>4. J' \in [Entries -> (Threads \X Int) \cup {None}]
    <3>1. \A e : row_of(e) # {} => (CHOOSE r \in row_of(e) : TRUE) - base[t] \in Int
      <4>1. \A e : row_of(e) \subseteq Stored(t)
        BY DEF row_of
      <4>2. Stored(t) \subseteq Nat
        BY GivenFacts
      <4> QED
        BY <1>4, <1>8, <4>1, <4>2
    <3>2. J \in [Entries -> (Threads \X Int) \cup {None}]
      BY DEF IndInv, TypeOK
    <3>3. CASE fits /\ t \in Constraints
      <4> DEFINE new(e) == IF row_of(e) = {} THEN J[e]
                           ELSE <<t, (CHOOSE r \in row_of(e) : TRUE) - base[t]>>
      <4>1. J' = [e \in Entries |-> new(e)]
        BY <1>1, <3>3
      <4>2. \A e \in Entries : row_of(e) = {} => new(e) \in (Threads \X Int) \cup {None}
        BY <3>2
      <4>3. \A e \in Entries : row_of(e) # {} => new(e) \in Threads \X Int
        BY <3>1
      <4> HIDE DEF new
      <4> QED
        BY <4>1, <4>2, <4>3
    <3>4. CASE ~ (fits /\ t \in Constraints)
      BY <1>1, <3>2, <3>4
    <3> QED
      BY <3>3, <3>4
  <2> QED
    BY <1>1, <1>3, <2>1, <2>2, <2>3, <2>4 DEF IndInv, TypeOK
<1>11. IdOK'
  <2>1. \A s \in Touching : s \in Slots /\ s \notin Constraints
    BY OwnerFacts DEF IndInv
  <2>2. t \in Constraints => t \notin Slots
    BY ConstraintFacts
  <2>3. CASE fits /\ t \in Constraints
    BY <1>1, <1>3, <1>7, <2>1, <2>2, <2>3 DEF IndInv, IdOK, Owners
  <2>4. CASE ~ (fits /\ t \in Constraints)
    BY <1>1, <1>3, <2>4 DEF IndInv, IdOK
  <2> QED
    BY <2>3, <2>4
<1>12. RowOK'
  <2>1. ASSUME efc_nnz' <= njmax_nnz, NEW u \in active, Ended(u)', KeepsRows(u), NEW r \in Stored(u)
        PROVE  row'[r] = <<u, r - base[u]>>
    <3>1. fits /\ efc_nnz <= njmax_nnz
      BY <1>1, <1>4, <2>1 DEF fits
    <3>2. u \in Constraints /\ u \in Owners
      BY <2>1 DEF IndInv, TypeOK, Owners
    <3>3. CASE u = t
      BY <1>1, <1>7, <2>1, <3>1, <3>2, <3>3
    <3>4. CASE u # t
      <4>1. row[r] = <<u, r - base[u]>>
        BY <1>3, <2>1, <3>1, <3>2, <3>4 DEF IndInv, RowOK
      <4> QED
        BY <1>1, <1>7, <2>1, <3>1, <3>2, <3>4, <4>1
    <3> QED
      BY <3>3, <3>4
  <2> QED
    BY <1>1, <1>3, <2>1 DEF RowOK, ContactUpdate
<1>13. SparseOK' /\ EntryOK'
  <2> SUFFICES ASSUME efc_nnz' <= njmax_nnz PROVE SparseOK' /\ EntryOK'
    BY <1>1, <1>3 DEF SparseOK, EntryOK
  <2>1. fits /\ efc_nnz <= njmax_nnz
    BY <1>1, <1>4 DEF fits
  <2>2. \A r \in FilledRows : r \in Rows
    BY <1>7, <1>9 DEF FilledRows
  <2>3. ASSUME NEW r \in FilledRows', r \notin Stored(t)
        PROVE  r \in FilledRows /\ r \in Rows /\ rowadr'[r] = rowadr[r] /\ rownnz'[r] = rownnz[r]
    <3>1. r \in FilledRows
      BY <1>3, <2>3 DEF FilledRows
    <3> QED
      BY <1>1, <2>2, <2>3, <3>1
  <2>4. \A r \in Stored(t) : rowadr'[r] = start(r) /\ rownnz'[r] = size
    BY <1>1, <1>3, <1>7, <2>1
  <2>5. \A r \in FilledRows : rowadr[r] \in Nat /\ rownnz[r] \in Nat /\ rowadr[r] + rownnz[r] <= efc_nnz
    BY <1>1, <2>1, <2>2 DEF IndInv, TypeOK, SparseOK
  <2>6. SparseOK'
    <3>1. \A r \in FilledRows' : rowadr'[r] + rownnz'[r] <= efc_nnz'
      BY <1>1, <1>4, <1>5, <2>3, <2>4, <2>5
    <3>2. ASSUME NEW r \in FilledRows', NEW q \in FilledRows', r # q
          PROVE  rowadr'[r] + rownnz'[r] <= rowadr'[q] \/ rowadr'[q] + rownnz'[q] <= rowadr'[r]
      <4>1. CASE r \in Stored(t) /\ q \in Stored(t)
        BY <1>6, <2>4, <3>2, <4>1
      <4>2. CASE r \in Stored(t) /\ q \notin Stored(t)
        BY <1>4, <1>5, <2>3, <2>4, <2>5, <4>2
      <4>3. CASE r \notin Stored(t) /\ q \in Stored(t)
        BY <1>4, <1>5, <2>3, <2>4, <2>5, <4>3
      <4>4. CASE r \notin Stored(t) /\ q \notin Stored(t)
        BY <1>1, <2>1, <2>3, <3>2, <4>4 DEF IndInv, SparseOK
      <4> QED
        BY <4>1, <4>2, <4>3, <4>4
    <3> QED
      BY <3>1, <3>2 DEF SparseOK
  <2>7. EntryOK'
    <3> SUFFICES ASSUME NEW u \in Filled', NEW r \in Stored(u)', JacobianDone(u, r)',
                        NEW e \in EntriesOf(r)'
                 PROVE  J'[e] = <<u, r - base'[u]>>
      BY DEF EntryOK
    <3>1. u \in active /\ u \in Constraints /\ r \in Stored(u) /\ u \in Owners
      BY <1>1, <1>3, <1>9 DEF JacobianDone, ContactJac, IndInv, TypeOK
    <3>2. e \in rowadr'[r]..rowadr'[r] + rownnz'[r] - 1
      BY <1>1, <1>3 DEF EntriesOf
    <3>3. CASE u = t
      <4>1. e \in start(r)..start(r) + size - 1 /\ r \in Stored(t)
        BY <2>4, <3>1, <3>2, <3>3
      <4>2. r \in row_of(e)
        BY <4>1 DEF row_of
      <4>3. \A q \in row_of(e) : q \in Stored(t) /\ e \in start(q)..start(q) + size - 1
        BY DEF row_of
      <4>4. \A q \in row_of(e) : q = r
        BY <1>4, <1>5, <1>6, <4>1, <4>3
      <4>5. (CHOOSE q \in row_of(e) : TRUE) = r
        BY <1>8, <4>2, <4>4
      <4>6. e \in Entries
        <5>1. e \in Nat /\ e < njmax_nnz
          BY <1>1, <1>4, <1>5, <4>1
        <5> QED
          BY <5>1, EntriesInRange DEF IndInv, TypeOK
      <4> QED
        BY <1>1, <2>1, <3>1, <3>3, <4>2, <4>5, <4>6
    <3>4. CASE u # t
      <4>1. u \in Filled /\ r \notin Stored(t) /\ r \in FilledRows
        BY <1>3, <1>7, <3>1, <3>4 DEF FilledRows
      <4>2. r \in FilledRows' /\ rowadr'[r] = rowadr[r] /\ rownnz'[r] = rownnz[r]
        BY <1>1, <1>7, <3>1, <3>4, <4>1 DEF FilledRows
      <4>3. e \in EntriesOf(r) /\ e < efc_nnz /\ e \in Nat
        BY <1>1, <1>4, <2>5, <3>2, <4>1, <4>2 DEF EntriesOf
      <4>4. J[e] = <<u, r - base[u]>>
        <5>1. JacobianDone(u, r)
          BY <3>1 DEF JacobianDone
        <5>2. Stage < ContactJac
          BY <1>3 DEF ContactJac
        <5> QED
          BY <2>1, <3>1, <4>1, <4>3, <5>1, <5>2 DEF IndInv, EntryOK
      <4>5. row_of(e) = {}
        BY <1>4, <1>5, <4>3 DEF row_of
      <4>6. e \in Entries
        BY <1>4, <2>1, <4>3, EntriesInRange DEF IndInv, TypeOK
      <4>7. J'[e] = J[e]
        BY <1>1, <2>1, <4>5, <4>6
      <4> QED
        BY <1>1, <4>4, <4>7
    <3> QED
      BY <3>3, <3>4
  <2> QED
    BY <2>6, <2>7
<1> QED
  BY <1>2, <1>10, <1>11, <1>12, <1>13 DEF IndInv

-----------------------------------------------------------------------------
(* The kernels of contacts.                                                *)

\* All owners have ended, and an address leads to a row of its contact.
LEMMA ContactFacts ==
  ASSUME IndInv, Stage > ContactInit
  PROVE  /\ \A t \in Owners : Ended(t) /\ Given(t) /\ t \in Threads
         /\ \A s \in InUse : \A d \in Dims : d < RowsOf[contact[s]] /\ efc_address[s][d] >= 0 =>
              /\ s \in Touching /\ s \in Filled /\ s \in Threads /\ d \in Nat
              /\ efc_address[s][d] = base[s] + d /\ base[s] \in Nat
              /\ efc_address[s][d] \in Stored(s)
         /\ \A s \in Touching : \A r \in Stored(s) :
              /\ r - base[s] \in Dims /\ r - base[s] < RowsOf[contact[s]]
              /\ efc_address[s][r - base[s]] = r
         /\ \A s \in Touching : s \in Filled
<1> USE DEF ContactInit
<1>1. \A t \in Owners : Ended(t) /\ Given(t) /\ t \in Threads
  <2>1. \A t \in Owners : Ended(t)
    BY OwnerFacts DEF IndInv, Ended, Owners
  <2> QED
    BY <2>1, OwnerFacts DEF IndInv, AllocOK
<1>2. \A s \in Touching : /\ s \in Filled /\ s \in Threads /\ Given(s) /\ base[s] \in Nat
                          /\ s \in Slots /\ contact[s] \in Contacts
                          /\ NRows(s) = RowsOf[contact[s]] /\ RowsOf[contact[s]] \in Nat
  <2>1. \A s \in Touching : s \in Slots /\ contact[s] \in Contacts /\ NRows(s) = RowsOf[contact[s]]
    BY OwnerFacts DEF IndInv
  <2>2. \A s \in Touching : s \in Filled
    BY <1>1, <2>1 DEF Filled, Owners, KeepsRows
  <2>3. \A s \in Touching : s \in Threads /\ Given(s) /\ base[s] \in Nat
    BY <1>1, GivenFacts DEF Owners
  <2> QED
    BY <2>1, <2>2, <2>3, ConstraintsAssumption
<1>3. ASSUME NEW s \in InUse, NEW d \in Dims, d < RowsOf[contact[s]], efc_address[s][d] >= 0
      PROVE  /\ s \in Touching /\ d \in Nat
             /\ efc_address[s][d] = base[s] + d
             /\ efc_address[s][d] \in Stored(s)
  <2>1. s \in Touching /\ d \in Nat
    <3>1. contact[s] \in Contacts /\ s \in Slots
      BY DEF IndInv, TypeOK, InUse
    <3>2. RowsOf[contact[s]] \in Nat /\ d \in Nat
      BY <3>1, ConstraintsAssumption, DimsInRange
    <3> QED
      BY <1>3, <3>1, <3>2 DEF Touching
  <2>2. base[s] \in Nat /\ Given(s) /\ njmax \in Nat /\ NRows(s) = RowsOf[contact[s]] /\ NRows(s) \in Nat
    BY <1>2, <2>1, GivenFacts
  <2>3. efc_address[s][d] = IF base[s] + d < njmax THEN base[s] + d ELSE -1
    BY <1>3, <2>1, <2>2 DEF IndInv, AddressOK
  <2>4. efc_address[s][d] = base[s] + d /\ base[s] + d < njmax
    BY <1>3, <2>3
  <2>5. base[s] + d \in base[s]..base[s] + NRows(s) - 1
    BY <1>3, <2>1, <2>2
  <2> QED
    BY <2>1, <2>2, <2>4, <2>5 DEF Stored, RowsGiven
<1>4. ASSUME NEW s \in Touching, NEW r \in Stored(s)
      PROVE  /\ r - base[s] \in Dims /\ r - base[s] < RowsOf[contact[s]]
             /\ efc_address[s][r - base[s]] = r
  <2>1. /\ r - base[s] \in Nat /\ r - base[s] < NRows(s) /\ r < njmax
        /\ r \in Nat /\ base[s] \in Nat
    BY <1>2, GivenFacts
  <2>2. r - base[s] \in Dims /\ r - base[s] < RowsOf[contact[s]]
    BY <1>2, <2>1, DimsInRange
  <2>3. base[s] + (r - base[s]) = r
    BY <2>1
  <2> QED
    BY <1>2, <2>1, <2>2, <2>3 DEF IndInv, AddressOK
<1> QED
  BY <1>1, <1>2, <1>3, <1>4

\* Who owns a row.
LEMMA OneOwner ==
  ASSUME IndInv
  PROVE  \A t, u \in Owners : \A r \in Stored(t) : r \in Stored(u) => t = u
<1>1. Owners \subseteq Threads
  BY OwnerFacts DEF IndInv
<1> QED
  BY <1>1, DisjointRows, GivenFacts

\* The kernels of contacts and later steps change no address.
LEMMA SameOverwritten ==
  ASSUME UNCHANGED <<is_sparse, contact, rownnz, rowadr, efc_address>>
  PROVE  Overwritten' = Overwritten /\ \A r : EntriesOf(r)' = EntriesOf(r)
<1>1. Overwritten' = Overwritten
  BY DEF Overwritten, InUse, Leftover, EntriesOf
<1>2. \A r : EntriesOf(r)' = EntriesOf(r)
  BY DEF EntriesOf
<1> QED
  BY <1>1, <1>2

\* What the kernels of contacts leave alone.
LEMMA ContactKernelKeeps ==
  ASSUME IndInv, kernel \in {ContactJac, ContactUpdate},
         UNCHANGED <<config, input, kernel, base, count, nefc, efc_address>>
  PROVE  /\ RanOK' /\ AllocOK' /\ CoverOK' /\ CountsOK' /\ CategoryOK' /\ AddressOK' /\ LossesReported'
         /\ UNCHANGED <<is_sparse, njmax, njmax_nnz, active, contact>>
         /\ Touching' = Touching /\ InUse' = InUse /\ Owners' = Owners
         /\ \A u : NRows(u)' = NRows(u) /\ Stored(u)' = Stored(u) /\ (Given(u)' <=> Given(u))
                   /\ (KeepsRows(u)' <=> KeepsRows(u))
         /\ Stage = kernel /\ Stage' = kernel /\ Stage > ContactInit
         /\ \A u \in Owners : Ended(u)
         /\ Filled' = Filled /\ FilledRows' = FilledRows
<1> USE DEF ContactJac, ContactUpdate, ContactInit
<1>1. /\ UNCHANGED <<is_sparse, njmax, njmax_nnz, active, contact>>
      /\ Touching' = Touching /\ InUse' = InUse /\ Owners' = Owners
      /\ \A u : KernelFor(u)' = KernelFor(u) /\ NRows(u)' = NRows(u)
  BY SameCall
<1>2. \A u : RowsGiven(u)' = RowsGiven(u) /\ Stored(u)' = Stored(u)
             /\ (Given(u)' <=> Given(u)) /\ (KeepsRows(u)' <=> KeepsRows(u))
  BY <1>1 DEF RowsGiven, Stored, Given, KeepsRows
<1>3. Stage = kernel /\ Stage' = kernel /\ Stage > 11
  BY DEF Stage
<1>4. \A u \in Owners : Ended(u) /\ Ended(u)' /\ Given(u)
  BY <1>1, <1>3, ContactFacts, OwnerFacts DEF Ended, Owners, IndInv
<1>5. RanOK' /\ AllocOK' /\ CoverOK'
  BY <1>1, <1>2, <1>3, <1>4 DEF IndInv, RanOK, AllocOK, CoverOK
<1>6. CountsOK' /\ CategoryOK'
  BY <1>1, <1>2, <1>3 DEF IndInv, CountsOK, CategoryOK, FirstContactRow
<1>7. AddressOK' /\ LossesReported'
  BY <1>1, <1>2, <1>3 DEF IndInv, AddressOK, LossesReported
<1>8. Filled' = Filled /\ FilledRows' = FilledRows
  <2>1. Filled' = Filled
    BY <1>1, <1>2, <1>4 DEF Filled
  <2> QED
    BY <1>2, <2>1 DEF FilledRows
<1> QED
  BY <1>1, <1>2, <1>3, <1>4, <1>5, <1>6, <1>7, <1>8

LEMMA JacobianSparseInv ==
  \A s \in Slots : \A d \in Dims : IndInv /\ JacobianSparse(s, d) => IndInv'
<1> SUFFICES ASSUME NEW s \in Slots, NEW d \in Dims, IndInv, JacobianSparse(s, d) PROVE IndInv'
  OBVIOUS
<1> DEFINE a == efc_address[s][d]
<1>1. /\ UNCHANGED <<config, input, kernel, base, count, nefc, efc_nnz, reports>>
      /\ UNCHANGED <<rownnz, rowadr, id, efc_address, row>>
      /\ kernel = ContactJac /\ is_sparse /\ s \in InUse /\ a >= 0 /\ <<s, d>> \notin ran
      /\ J' = [e \in Entries |-> IF e \in rowadr[a]..rowadr[a] + rownnz[a] - 1 THEN <<s, d>> ELSE J[e]]
      /\ ran' = ran \cup {<<s, d>>}
  BY DEF JacobianSparse, counters, columns, SparseJacobians
<1>2. /\ RanOK' /\ AllocOK' /\ CoverOK' /\ CountsOK' /\ CategoryOK' /\ AddressOK' /\ LossesReported'
      /\ UNCHANGED <<is_sparse, njmax, njmax_nnz, active, contact>>
      /\ Touching' = Touching /\ Owners' = Owners
      /\ \A u : Stored(u)' = Stored(u) /\ (KeepsRows(u)' <=> KeepsRows(u))
      /\ Stage = 12 /\ Stage' = 12 /\ Stage > ContactInit /\ \A u \in Owners : Ended(u)
      /\ Filled' = Filled /\ FilledRows' = FilledRows
  BY <1>1, ContactKernelKeeps DEF ContactJac
<1>3. TypeOK'
  <2>1. <<s, d>> \in Threads \X Int
    BY DimsInRange DEF Threads
  <2> QED
    BY <1>1, <1>2, <2>1 DEF IndInv, TypeOK
<1>4. IdOK' /\ RowOK' /\ SparseOK'
  BY <1>1, <1>2 DEF IndInv, IdOK, RowOK, SparseOK, ContactUpdate, Owners
<1>5. EntryOK'
  <2> SUFFICES ASSUME efc_nnz <= njmax_nnz, NEW u \in Filled, NEW r \in Stored(u),
                      JacobianDone(u, r)', NEW e \in EntriesOf(r), e \notin Overwritten
               PROVE  J'[e] = <<u, r - base[u]>>
    BY <1>1, <1>2, SameOverwritten DEF EntryOK, ContactJac
  <2>1. u \in Owners /\ u \in Threads /\ r \in FilledRows /\ r \in Rows
    <3>1. u \in Owners
      BY DEF Filled
    <3> QED
      BY <3>1, OwnerFacts, GivenFacts DEF FilledRows, IndInv
  <2>2. e \in rowadr[r]..rowadr[r] + rownnz[r] - 1 /\ e \in Nat /\ e \in Entries
    <3>1. e \in rowadr[r]..rowadr[r] + rownnz[r] - 1
      BY <1>1 DEF EntriesOf
    <3>2. rowadr[r] \in Nat /\ rownnz[r] \in Nat /\ rowadr[r] + rownnz[r] <= efc_nnz
      BY <1>1, <2>1 DEF IndInv, TypeOK, SparseOK
    <3>3. e \in Nat /\ e < njmax_nnz
      BY <3>1, <3>2, GivenFacts
    <3> QED
      BY <3>1, <3>3, EntriesInRange DEF IndInv, TypeOK
  <2>3. CASE d \in Leftover(s)
    <3>1. EntriesOf(a) \subseteq Overwritten
      BY <1>1, <2>3 DEF Overwritten
    <3>2. e \notin rowadr[a]..rowadr[a] + rownnz[a] - 1
      BY <1>1, <3>1 DEF EntriesOf
    <3>3. J'[e] = J[e]
      BY <1>1, <2>2, <3>2
    <3>4. CASE JacobianDone(u, r)
      BY <3>3, <3>4 DEF IndInv, EntryOK
    <3>5. CASE ~ JacobianDone(u, r)
      <4>1. u = s /\ r - base[s] = d /\ u \notin active
        BY <1>1, <1>2, <3>5 DEF JacobianDone
      <4>2. u \in Touching
        BY <2>1, <4>1 DEF Owners
      <4>3. r - base[s] < RowsOf[contact[s]]
        BY <1>2, <4>1, <4>2, ContactFacts
      <4>4. d >= RowsOf[contact[s]] /\ d \in Nat /\ RowsOf[contact[s]] \in Nat
        <5>1. contact[s] \in Contacts
          BY <1>1 DEF IndInv, TypeOK, InUse
        <5> QED
          BY <2>3, <5>1, DimsInRange, ConstraintsAssumption DEF Leftover
      <4> QED
        BY <4>1, <4>3, <4>4
    <3> QED
      BY <3>4, <3>5
  <2>4. CASE d \notin Leftover(s)
    <3>1. d < RowsOf[contact[s]]
      <4>1. contact[s] \in Contacts
        BY <1>1 DEF IndInv, TypeOK, InUse
      <4>2. RowsOf[contact[s]] \in Nat
        BY <4>1, ConstraintsAssumption
      <4> QED
        BY <1>1, <2>4, <4>2, DimsInRange DEF Leftover
    <3>2. s \in Touching /\ s \in Filled /\ d \in Nat /\ a = base[s] + d /\ base[s] \in Nat /\ a \in Stored(s)
      BY <1>1, <1>2, <3>1, ContactFacts
    <3>3. s \in Owners /\ a \in FilledRows /\ a \in Rows
      <4>1. s \in Owners
        BY <3>2 DEF Filled
      <4> QED
        BY <3>2, <4>1, OwnerFacts, GivenFacts DEF FilledRows, IndInv
    <3>4. CASE r = a
      <4>1. u = s
        BY <3>2, <2>1, <3>3, <3>4, OneOwner
      <4> QED
        BY <1>1, <3>2, <2>2, <3>4, <4>1
    <3>5. CASE r # a
      <4>1. rowadr[r] + rownnz[r] <= rowadr[a] \/ rowadr[a] + rownnz[a] <= rowadr[r]
        BY <1>1, <2>1, <3>3, <3>5 DEF IndInv, SparseOK
      <4>2. rowadr[r] \in Nat /\ rownnz[r] \in Nat /\ rowadr[a] \in Nat /\ rownnz[a] \in Nat
        BY <2>1, <3>3 DEF IndInv, TypeOK
      <4>3. J'[e] = J[e]
        BY <1>1, <2>2, <4>1, <4>2
      <4>4. <<u, r - base[u]>> # <<s, d>>
        <5>1. ASSUME u = s, r - base[u] = d PROVE FALSE
          <6>1. r \in Nat
            BY <2>1, OwnerFacts, GivenFacts DEF IndInv
          <6> QED
            BY <3>2, <3>5, <5>1, <6>1
        <5> QED
          BY <5>1
      <4>5. JacobianDone(u, r)
        BY <1>1, <1>2, <4>4 DEF JacobianDone
      <4> QED
        BY <4>3, <4>5 DEF IndInv, EntryOK
    <3> QED
      BY <3>4, <3>5
  <2> QED
    BY <2>3, <2>4
<1> QED
  BY <1>2, <1>3, <1>4, <1>5 DEF IndInv

LEMMA JacobianDenseInv == \A r \in Rows : IndInv /\ JacobianDense(r) => IndInv'
<1> SUFFICES ASSUME NEW r \in Rows, IndInv, JacobianDense(r) PROVE IndInv'
  OBVIOUS
<1> DEFINE writer == IF id[r] \in Slots THEN <<id[r], r - efc_address[id[r]][0]>> ELSE None
<1>1. /\ UNCHANGED <<config, input, kernel, base, count, nefc, efc_nnz, reports>>
      /\ UNCHANGED <<rownnz, rowadr, id, efc_address, row>>
      /\ kernel = ContactJac /\ ~ is_sparse /\ r \in DenseJacobians /\ r \notin ran
      /\ J' = [J EXCEPT ![r] = writer]
      /\ ran' = ran \cup {r}
  BY DEF JacobianDense, counters, columns
<1>2. /\ RanOK' /\ AllocOK' /\ CoverOK' /\ CountsOK' /\ CategoryOK' /\ AddressOK' /\ LossesReported'
      /\ UNCHANGED <<is_sparse, njmax, njmax_nnz, active, contact>>
      /\ Touching' = Touching /\ Owners' = Owners
      /\ \A u : Stored(u)' = Stored(u) /\ (KeepsRows(u)' <=> KeepsRows(u))
      /\ Stage = 12 /\ Stage' = 12 /\ Stage > ContactInit /\ \A u \in Owners : Ended(u)
      /\ Filled' = Filled
  BY <1>1, ContactKernelKeeps DEF ContactJac
<1>3. TypeOK'
  <2>1. id[r] \in Slots => efc_address[id[r]][0] \in Int
    BY RowsInRange DEF IndInv, TypeOK, IdOK
  <2>2. r \in Int
    BY <1>1 DEF DenseJacobians
  <2>3. writer \in (Threads \X Int) \cup {None}
    <3>1. CASE id[r] \in Slots
      <4>1. r - efc_address[id[r]][0] \in Int /\ id[r] \in Threads
        BY <2>1, <2>2, <3>1 DEF Threads
      <4> QED
        BY <3>1, <4>1
    <3> QED
      BY <3>1
  <2> HIDE DEF writer
  <2> QED
    BY <1>1, <1>2, <2>3 DEF IndInv, TypeOK
<1>4. IdOK' /\ RowOK' /\ SparseOK'
  BY <1>1, <1>2 DEF IndInv, IdOK, RowOK, SparseOK, ContactUpdate, Owners
<1>5. EntryOK'
  <2> SUFFICES ASSUME efc_nnz <= njmax_nnz, NEW u \in Filled, NEW q \in Stored(u),
                      JacobianDone(u, q)', NEW e \in EntriesOf(q), e \notin Overwritten
               PROVE  J'[e] = <<u, q - base[u]>>
    BY <1>1, <1>2, SameOverwritten DEF EntryOK, ContactJac
  <2>1. u \in Owners /\ u \in Threads /\ q \in Nat /\ q \in Entries /\ e = q
    <3>1. u \in Owners
      BY DEF Filled
    <3>2. u \in Threads
      BY <3>1, OwnerFacts DEF IndInv
    <3>3. e = q
      BY <1>1 DEF EntriesOf
    <3> QED
      BY <3>1, <3>2, <3>3, GivenFacts
  <2>2. CASE q # r
    <3>1. J'[q] = J[q]
      BY <1>1, <2>1, <2>2 DEF IndInv, TypeOK
    <3>2. JacobianDone(u, q)
      BY <1>1, <1>2, <2>2 DEF JacobianDone
    <3> QED
      BY <2>1, <3>1, <3>2 DEF IndInv, EntryOK
  <2>3. CASE q = r
    <3>1. u \notin active
      <4>1. r >= FirstContactRow
        BY <1>1 DEF DenseJacobians
      <4>2. ASSUME u \in active PROVE FALSE
        <5>1. u \notin Slots /\ KernelOf[u] \in 1..10
          BY <4>2, OwnerFacts, ConstraintFacts DEF IndInv
        <5>2. Given(u) /\ base[u] \in Nat /\ NRows(u) \in Nat /\ r < base[u] + NRows(u)
          BY <2>1, <2>3, GivenFacts
        <5>3. /\ count["ne"] \in Nat /\ count["nf"] \in Nat /\ count["nl"] \in Nat
          BY DEF IndInv, TypeOK, Counters
        <5>4. base[u] + NRows(u) <= FirstContactRow
          BY <2>1, <5>1, <5>2, <5>3 DEF IndInv, CategoryOK, FirstContactRow
        <5> QED
          BY <2>1, <2>3, <4>1, <5>2, <5>3, <5>4 DEF FirstContactRow
      <4> QED
        BY <4>2
    <3>2. u \in Touching /\ u \in Slots
      BY <2>1, <3>1, OwnerFacts DEF Owners, IndInv
    <3>3. id[r] = u
      BY <2>3, <3>2 DEF IndInv, IdOK
    <3>4. efc_address[u][0] = base[u]
      <4>1. /\ base[u] \in Nat /\ base[u] <= r /\ r < njmax /\ njmax \in Nat /\ Given(u)
            /\ RowsOf[contact[u]] \in Nat \ {0} /\ contact[u] \in Contacts
        BY <2>1, <2>3, <3>2, GivenFacts, OwnerFacts DEF IndInv
      <4>2. 0 \in Dims /\ 0 < RowsOf[contact[u]]
        BY <4>1, DimsInRange
      <4> QED
        BY <2>1, <2>3, <3>2, <4>1, <4>2 DEF IndInv, AddressOK
    <3>5. J'[r] = <<u, r - base[u]>>
      BY <1>1, <2>1, <2>3, <3>2, <3>3, <3>4 DEF IndInv, TypeOK
    <3> QED
      BY <2>1, <2>3, <3>5
  <2> QED
    BY <2>2, <2>3
<1> QED
  BY <1>2, <1>3, <1>4, <1>5 DEF IndInv

LEMMA UpdateInv == \A s \in Slots : \A d \in Dims : IndInv /\ Update(s, d) => IndInv'
<1> SUFFICES ASSUME NEW s \in Slots, NEW d \in Dims, IndInv, Update(s, d) PROVE IndInv'
  OBVIOUS
<1> DEFINE a == efc_address[s][d]
<1>1. /\ UNCHANGED <<config, input, kernel, base, count, nefc, efc_nnz, reports>>
      /\ UNCHANGED <<rownnz, rowadr, efc_address, J>>
      /\ kernel = ContactUpdate /\ s \in InUse /\ a >= 0 /\ d < RowsOf[contact[s]]
      /\ row' = [row EXCEPT ![a] = <<s, d>>] /\ id' = [id EXCEPT ![a] = s]
      /\ ran' = ran \cup {<<s, d>>}
  BY DEF Update, counters, Updates, SparseJacobians
<1>2. /\ RanOK' /\ AllocOK' /\ CoverOK' /\ CountsOK' /\ CategoryOK' /\ AddressOK' /\ LossesReported'
      /\ UNCHANGED <<is_sparse, njmax, njmax_nnz, active, contact>>
      /\ Touching' = Touching /\ Owners' = Owners
      /\ \A u : Stored(u)' = Stored(u) /\ (KeepsRows(u)' <=> KeepsRows(u))
      /\ Stage = 13 /\ Stage' = 13 /\ Stage > ContactInit /\ \A u \in Owners : Ended(u)
      /\ Filled' = Filled /\ FilledRows' = FilledRows
  BY <1>1, ContactKernelKeeps DEF ContactUpdate
<1>3. s \in Touching /\ s \in Owners /\ d \in Nat /\ a = base[s] + d /\ base[s] \in Nat /\ a \in Stored(s)
  BY <1>1, <1>2, ContactFacts DEF Owners
<1>4. a \in Rows /\ \A u \in Owners : \A r \in Stored(u) : r \in Rows /\ r \in Nat /\ (r = a => u = s)
  BY <1>3, OneOwner, OwnerFacts, GivenFacts DEF IndInv
<1>5. TypeOK'
  <2>1. <<s, d>> \in Threads \X Int /\ s \in Threads
    BY <1>3 DEF Threads
  <2> QED
    BY <1>1, <1>2, <2>1 DEF IndInv, TypeOK
<1>6. IdOK'
  <2>1. 0 \in Dims
    BY DimsInRange
  <2>2. ASSUME NEW q \in Touching, NEW r \in Stored(q) PROVE id'[r] = q
    <3>1. q \in Owners /\ id[r] = q
      BY <2>2 DEF Owners, IndInv, IdOK
    <3>2. r \in Rows /\ (r = a => q = s)
      BY <1>4, <3>1
    <3> QED
      BY <1>1, <3>1, <3>2 DEF IndInv, TypeOK
  <2> QED
    BY <1>2, <2>1, <2>2 DEF IdOK
<1>7. RowOK'
  <2>1. \A r \in Rows : row'[r] = IF r = a THEN <<s, d>> ELSE row[r]
    BY <1>1 DEF IndInv, TypeOK
  <2>2. ASSUME efc_nnz <= njmax_nnz, NEW u \in active, KeepsRows(u), NEW r \in Stored(u)
        PROVE  row'[r] = <<u, r - base[u]>>
    <3>1. u \in Owners /\ u # s
      BY <1>3, OwnerFacts DEF Owners, IndInv
    <3>2. r # a /\ r \in Rows
      BY <1>4, <3>1
    <3>3. row[r] = <<u, r - base[u]>>
      BY <1>2, <2>2, <3>1 DEF IndInv, RowOK
    <3> QED
      BY <2>1, <3>2, <3>3
  <2>3. ASSUME NEW q \in Touching, NEW r \in Stored(q), <<q, r - base[q]>> \in ran'
        PROVE  row'[r] = <<q, r - base[q]>>
    <3>1. q \in Owners /\ r \in Rows /\ (r = a => q = s)
      BY <1>4 DEF Owners
    <3>2. CASE r = a
      BY <1>3, <2>1, <3>1, <3>2
    <3>3. CASE r # a
      <4>1. <<q, r - base[q]>> # <<s, d>>
        <5>1. ASSUME q = s, r - base[s] = d PROVE FALSE
          BY <1>3, <1>4, <3>1, <3>3, <5>1
        <5> QED
          BY <5>1
      <4>2. row[r] = <<q, r - base[q]>>
        BY <1>1, <1>2, <2>3, <4>1 DEF IndInv, RowOK, ContactUpdate
      <4> QED
        BY <2>1, <3>1, <3>3, <4>2
    <3> QED
      BY <3>2, <3>3
  <2> QED
    BY <1>1, <1>2, <2>2, <2>3 DEF RowOK, ContactUpdate, Solve
<1>8. SparseOK'
  BY <1>1, <1>2 DEF IndInv, SparseOK
<1>9. EntryOK'
  <2>1. \A u, r : EntriesOf(r)' = EntriesOf(r) /\ JacobianDone(u, r) /\ Overwritten' = Overwritten
    BY <1>1, <1>2, SameOverwritten DEF JacobianDone, ContactJac
  <2> QED
    BY <1>1, <1>2, <2>1 DEF IndInv, EntryOK, ContactJac
<1> QED
  BY <1>2, <1>5, <1>6, <1>7, <1>8, <1>9 DEF IndInv

-----------------------------------------------------------------------------
(* From kernel to kernel and to the end of the step.                       *)

LEMMA NextKernelInv == IndInv /\ NextKernel => IndInv'
<1> SUFFICES ASSUME IndInv, NextKernel PROVE IndInv'
  OBVIOUS
<1> USE DEF ContactInit, ContactJac, ContactUpdate, Solve
<1>1. /\ UNCHANGED <<config, input, count, nefc, efc_nnz, rownnz, rowadr, id, efc_address>>
      /\ UNCHANGED <<base, row, J, reports>>
      /\ kernel \in 1..13 /\ Launched \subseteq ran /\ kernel' = kernel + 1 /\ ran' = {}
  BY DEF NextKernel, counters, columns, written
<1>2. /\ UNCHANGED <<is_sparse, njmax, njmax_nnz, active, contact>>
      /\ Touching' = Touching /\ InUse' = InUse /\ Owners' = Owners
      /\ \A u : KernelFor(u)' = KernelFor(u) /\ NRows(u)' = NRows(u)
  BY <1>1, SameCall
<1>3. \A u : RowsGiven(u)' = RowsGiven(u) /\ Stored(u)' = Stored(u)
             /\ (Given(u)' <=> Given(u)) /\ (KeepsRows(u)' <=> KeepsRows(u))
  BY <1>1, <1>2 DEF RowsGiven, Stored, Given, KeepsRows
<1>4. Stage = kernel /\ Stage' = kernel + 1
  BY <1>1 DEF Stage
<1>5. \A u \in Owners : KernelFor(u) \in 1..11
  BY OwnerFacts DEF IndInv, Owners
<1>6. \A u \in Owners : Ended(u)' <=> Ended(u)
  <2>1. ASSUME NEW u \in Owners, KernelFor(u) = kernel PROVE u \in ran
    <3>1. kernel \in 1..11
      BY <1>5, <2>1
    <3>2. u \in Kernel(kernel)
      <4>1. CASE u \in active
        BY <2>1, <4>1, OwnerFacts DEF Kernel, KernelFor, IndInv
      <4>2. CASE u \in Touching
        BY <2>1, <4>2, OwnerFacts DEF Kernel, IndInv
      <4> QED
        BY <4>1, <4>2 DEF Owners
    <3> QED
      BY <1>1, <3>1, <3>2 DEF Launched
  <2> QED
    BY <1>1, <1>2, <1>4, <1>5, <2>1 DEF Ended
<1>7. Filled' = Filled /\ FilledRows' = FilledRows
  <2>1. Filled' = Filled
    BY <1>2, <1>3, <1>6 DEF Filled
  <2> QED
    BY <1>3, <2>1 DEF FilledRows
<1>8. TypeOK'
  BY <1>1, <1>2 DEF IndInv, TypeOK
<1>9. RanOK'
  BY <1>1 DEF RanOK
<1>10. AllocOK' /\ CoverOK'
  <2>1. \A u \in Owners : KernelFor(u) <= Stage => KernelFor(u) <= Stage'
    BY <1>1, <1>4, <1>5
  <2> QED
    BY <1>1, <1>2, <1>3, <1>6, <2>1 DEF IndInv, AllocOK, CoverOK
<1>11. CountsOK' /\ CategoryOK'
  <2>1. count["ne"] \in Nat /\ count["nf"] \in Nat /\ count["nl"] \in Nat /\ nefc \in Nat
    BY DEF IndInv, TypeOK, Counters
  <2> QED
    BY <1>1, <1>2, <1>3, <1>4, <2>1 DEF IndInv, CountsOK, CategoryOK, FirstContactRow
<1>12. AddressOK' /\ IdOK'
  BY <1>1, <1>2, <1>3 DEF IndInv, AddressOK, IdOK
<1>13. RowOK'
  <2>1. ASSUME Stage' = 14, NEW s \in Touching, NEW r \in Stored(s)
        PROVE  row[r] = <<s, r - base[s]>>
    <3>1. Stage = 13 /\ kernel = 13
      BY <1>1, <1>4, <2>1
    <3>2. /\ r - base[s] \in Dims /\ r - base[s] < RowsOf[contact[s]]
          /\ efc_address[s][r - base[s]] = r /\ s \in InUse
      BY <3>1, ContactFacts, OwnerFacts DEF IndInv
    <3>3. r \in Nat
      BY OwnerFacts, GivenFacts DEF IndInv, Owners
    <3>4. <<s, r - base[s]>> \in Updates
      BY <3>2, <3>3 DEF Updates, SparseJacobians
    <3> QED
      BY <1>1, <3>1, <3>4 DEF IndInv, RowOK, Launched
  <2> QED
    BY <1>1, <1>2, <1>3, <1>4, <1>6, <2>1 DEF IndInv, RowOK, Owners
<1>14. SparseOK'
  BY <1>1, <1>2, <1>7 DEF IndInv, SparseOK
<1>15. EntryOK'
  <2> SUFFICES ASSUME efc_nnz <= njmax_nnz, NEW u \in Filled, NEW r \in Stored(u),
                      JacobianDone(u, r)', NEW e \in EntriesOf(r),
                      Stage' < 12 \/ e \notin Overwritten
               PROVE  J[e] = <<u, r - base[u]>>
    <3>1. Overwritten' = Overwritten /\ \A q : EntriesOf(q)' = EntriesOf(q)
      BY <1>1, <1>2, SameOverwritten
    <3> QED
      BY <1>1, <1>2, <1>3, <1>7, <3>1 DEF EntryOK
  <2>1. JacobianDone(u, r)
    <3>1. u \in active \/ Stage' > 12
      BY <1>1, <1>2 DEF JacobianDone
    <3>2. CASE u \in active \/ Stage > 12
      BY <3>2 DEF JacobianDone
    <3>3. CASE u \notin active /\ Stage = 12
      <4>1. u \in Touching /\ kernel = 12
        BY <1>4, <3>3 DEF Filled, Owners
      <4>2. /\ u \in InUse /\ u \in Slots /\ u \in Threads /\ r \in Nat /\ r < njmax /\ Given(u)
            /\ base[u] \in Nat /\ base[u] <= r /\ r < base[u] + NRows(u)
            /\ NRows(u) \in Nat /\ base[u] + NRows(u) <= nefc /\ nefc \in Nat /\ njmax \in Nat
        BY <4>1, OwnerFacts, GivenFacts DEF Owners, IndInv
      <4>3. CASE is_sparse
        <5>1. r - base[u] \in Dims /\ efc_address[u][r - base[u]] = r
          BY <3>3, <4>1, ContactFacts
        <5>2. <<u, r - base[u]>> \in SparseJacobians
          BY <4>2, <5>1 DEF SparseJacobians
        <5> QED
          BY <1>1, <3>3, <4>1, <4>3, <5>2 DEF Launched, JacobianDone
      <4>4. CASE ~ is_sparse
        <5>1. count["ne"] \in Nat /\ count["nf"] \in Nat /\ count["nl"] \in Nat
          BY DEF IndInv, TypeOK, Counters
        <5>2. FirstContactRow <= base[u]
          BY <4>2 DEF IndInv, CategoryOK
        <5>3. r \in DenseJacobians
          BY <4>2, <5>1, <5>2 DEF DenseJacobians, LastRow, FirstContactRow
        <5> QED
          BY <1>1, <3>3, <4>1, <4>4, <5>3 DEF Launched, JacobianDone
      <4> QED
        BY <4>3, <4>4
    <3> QED
      BY <1>1, <1>4, <3>1, <3>2, <3>3
  <2>2. Stage < 12 \/ e \notin Overwritten
    BY <1>1, <1>4
  <2> QED
    BY <2>1, <2>2 DEF IndInv, EntryOK
<1>16. LossesReported'
  BY <1>1 DEF LossesReported
<1> QED
  BY <1>8, <1>9, <1>10, <1>11, <1>12, <1>13, <1>14, <1>15, <1>16 DEF IndInv

LEMMA ReportInv == IndInv /\ Report => IndInv'
<1> SUFFICES ASSUME IndInv, Report PROVE IndInv'
  OBVIOUS
<1> USE DEF ContactInit, ContactJac, ContactUpdate, Solve
<1>1. /\ UNCHANGED <<config, input, count, nefc, efc_nnz, rownnz, rowadr, id, efc_address>>
      /\ UNCHANGED <<base, row, J, ran>>
      /\ kernel = 14 /\ kernel' = 0
      /\ reports' = IF nefc > njmax THEN {"nefc"}
                    ELSE IF is_sparse /\ nefc > 0
                            /\ rowadr[LastRow] + rownnz[LastRow] > njmax_nnz
                    THEN {"njmax_nnz"} ELSE {}
  BY DEF Report, counters, columns, written
<1>2. /\ UNCHANGED <<is_sparse, njmax, njmax_nnz, active, contact>>
      /\ Touching' = Touching /\ InUse' = InUse /\ Owners' = Owners
      /\ \A u : KernelFor(u)' = KernelFor(u) /\ NRows(u)' = NRows(u)
  BY <1>1, SameCall
<1>3. \A u : RowsGiven(u)' = RowsGiven(u) /\ Stored(u)' = Stored(u)
             /\ (Given(u)' <=> Given(u)) /\ (KeepsRows(u)' <=> KeepsRows(u))
  BY <1>1, <1>2 DEF RowsGiven, Stored, Given, KeepsRows
<1>4. Stage = 14 /\ Stage' = 14
  BY <1>1 DEF Stage
<1>5. \A u : Ended(u)' <=> Ended(u)
  BY <1>1, <1>2, <1>4 DEF Ended
<1>6. Filled' = Filled /\ FilledRows' = FilledRows
  <2>1. Filled' = Filled
    BY <1>2, <1>3, <1>5 DEF Filled
  <2> QED
    BY <1>3, <2>1 DEF FilledRows
<1>7. TypeOK'
  BY <1>1, <1>2 DEF IndInv, TypeOK
<1>8. RanOK' /\ AllocOK' /\ CoverOK'
  BY <1>1, <1>2, <1>3, <1>4, <1>5 DEF IndInv, RanOK, AllocOK, CoverOK
<1>9. CountsOK' /\ CategoryOK'
  BY <1>1, <1>2, <1>3, <1>4 DEF IndInv, CountsOK, CategoryOK, FirstContactRow
<1>10. AddressOK' /\ IdOK' /\ RowOK'
  BY <1>1, <1>2, <1>3, <1>4, <1>5 DEF IndInv, AddressOK, IdOK, RowOK
<1>11. SparseOK'
  BY <1>1, <1>2, <1>6 DEF IndInv, SparseOK
<1>12. EntryOK'
  <2>1. Overwritten' = Overwritten /\ \A r : EntriesOf(r)' = EntriesOf(r)
    BY <1>1, <1>2, SameOverwritten
  <2>2. \A u, r : JacobianDone(u, r)
    BY <1>4 DEF JacobianDone
  <2> QED
    BY <1>1, <1>2, <1>3, <1>4, <1>6, <2>1, <2>2 DEF IndInv, EntryOK
<1>13. LossesReported'
  <2> SUFFICES ASSUME NEW t \in Owners, ~ (nefc > njmax), efc_nnz <= njmax_nnz,
                      ~ (NRows(t) > 1 /\ base[t] + NRows(t) = njmax),
                      NEW d \in 0..NRows(t) - 1
               PROVE  base[t] + d < njmax /\ row[base[t] + d] = <<t, d>>
    <3>1. ~ (efc_nnz > njmax_nnz) => efc_nnz <= njmax_nnz
      BY GivenFacts
    <3> QED
      BY <1>1, <1>2, <3>1 DEF LossesReported, Owners
  <2>1. /\ Given(t) /\ Ended(t) /\ t \in Threads /\ base[t] \in Nat /\ NRows(t) \in Nat \ {0}
        /\ base[t] + NRows(t) <= nefc /\ nefc \in Nat /\ njmax \in Nat /\ d \in Nat /\ d < NRows(t)
    BY <1>4, ContactFacts, GivenFacts
  <2>2. base[t] + NRows(t) <= njmax
    BY <2>1
  <2>3. KeepsRows(t)
    BY <2>1, <2>2 DEF KeepsRows
  <2> DEFINE r == base[t] + d
  <2>4. r \in Stored(t) /\ r - base[t] = d
    BY <2>1, <2>2 DEF Stored, RowsGiven
  <2>5. row[r] = <<t, r - base[t]>>
    <3>1. CASE t \in active
      BY <2>1, <2>3, <2>4, <3>1 DEF IndInv, RowOK
    <3>2. CASE t \in Touching
      BY <1>4, <2>4, <3>2 DEF IndInv, RowOK
    <3> QED
      BY <3>1, <3>2 DEF Owners
  <2> QED
    BY <2>1, <2>2, <2>4, <2>5
<1> QED
  BY <1>7, <1>8, <1>9, <1>10, <1>11, <1>12, <1>13 DEF IndInv

-----------------------------------------------------------------------------
(* The theorems.                                                           *)

LEMMA StutterInv == IndInv /\ UNCHANGED vars => IndInv'
<1> SUFFICES ASSUME IndInv, UNCHANGED vars PROVE IndInv'
  OBVIOUS
<1>1. /\ UNCHANGED <<is_sparse, njmax, njmax_nnz, active, contact, kernel, count, nefc, efc_nnz>>
      /\ UNCHANGED <<rownnz, rowadr, id, efc_address, base, ran, row, J, reports>>
  BY DEF vars, config, input, counters, columns, written
<1> USE <1>1 DEF IndInv, Stage, Owners, Touching, InUse, KernelFor, Ended, Given, NRows, Kind, RowsGiven, Stored
<1>2. TypeOK' /\ RanOK' /\ AllocOK' /\ CoverOK'
  BY DEF TypeOK, RanOK, Kernel, AllocOK, CoverOK
<1>3. CountsOK' /\ CategoryOK' /\ AddressOK' /\ IdOK'
  BY DEF CountsOK, CategoryOK, FirstContactRow, AddressOK, IdOK
<1>4. RowOK' /\ LossesReported'
  BY SMTT(30) DEF RowOK, KeepsRows, LossesReported
<1>5. SparseOK'
  BY DEF SparseOK, FilledRows, Filled, KeepsRows
<1>6. EntryOK'
  BY SameOverwritten DEF EntryOK, Filled, KeepsRows, JacobianDone
<1> QED
  BY <1>2, <1>3, <1>4, <1>5, <1>6

\* The ownership of rows, addresses and entries is an inductive invariant.
THEOREM RowsInductive == Spec => []IndInv
<1>1. IndInv /\ [Next]_vars => IndInv'
  BY CallInv, AllocateInv, GiveUpInv, FillDenseInv, FillSparseInv, JacobianSparseInv, UpdateInv,
     JacobianDenseInv, NextKernelInv, ReportInv, StutterInv DEF Next
<1> QED
  BY <1>1, InitInv, PTL DEF Spec

\* The variables keep their types; an address is a row below the limit or -1.
THEOREM RowsTyping == Spec => []TypeOK
<1>1. IndInv => TypeOK
  BY DEF IndInv
<1> QED
  BY <1>1, RowsInductive, PTL

\* Rows are dealt out without gap or overlap, by category (constraint.py:
\* wp.atomic_add on nefc_out and on ne_out, nf_out, nl_out).
THEOREM RowsDealtOut == Spec => []RowsByCategory
<1>1. IndInv => RowsByCategory
  <2> SUFFICES ASSUME IndInv, kernel >= ContactInit PROVE
        /\ \A t \in Threads : RowsGiven(t) \subseteq
             IF t \in Constraints THEN CategoryRows(CounterOf(KernelOf[t]))
             ELSE FirstContactRow..nefc - 1
        /\ \A t, u \in Threads : t # u => RowsGiven(t) \cap RowsGiven(u) = {}
        /\ \A r \in 0..nefc - 1 : \E t \in Threads : r \in RowsGiven(t)
    BY DEF RowsByCategory
  <2>1. count["ne"] \in Nat /\ count["nf"] \in Nat /\ count["nl"] \in Nat /\ nefc \in Nat
    BY DEF IndInv, TypeOK, Counters
  <2>2. ASSUME NEW t \in Threads, NEW r \in RowsGiven(t)
        PROVE  r \in IF t \in Constraints THEN CategoryRows(CounterOf(KernelOf[t]))
                     ELSE FirstContactRow..nefc - 1
    <3>1. /\ Given(t) /\ r \in Nat /\ base[t] <= r /\ r < base[t] + NRows(t) /\ base[t] \in Nat
          /\ NRows(t) \in Nat /\ base[t] + NRows(t) <= nefc
      BY <2>2, GivenFacts
    <3>2. CASE t \in Constraints
      <4>1. t \notin Slots /\ CounterOf(KernelOf[t]) \in {"ne", "nf", "nl"}
        BY <3>2, ConstraintFacts DEF CounterOf
      <4> QED
        BY <2>1, <3>1, <3>2, <4>1 DEF IndInv, CategoryOK, CategoryRows, FirstContactRow
    <3>3. CASE t \notin Constraints
      BY <2>1, <3>1, <3>3 DEF IndInv, CategoryOK, Threads, FirstContactRow
    <3> QED
      BY <3>2, <3>3
  <2> QED
    BY <2>2, DisjointRows DEF IndInv, CoverOK
<1> QED
  BY <1>1, RowsInductive, PTL

\* A contact's addresses are its rows, but for what a flex contact has kept.
THEOREM AddressesOwned == Spec => []AddressesExact
<1>1. IndInv => AddressesExact
  <2> SUFFICES ASSUME IndInv, kernel > ContactInit, NEW s \in InUse
               PROVE  /\ \A d \in 0..RowsOf[contact[s]] - 1 :
                           efc_address[s][d] = IF base[s] + d < njmax THEN base[s] + d ELSE -1
                      /\ Leftover(s) # {} => contact[s] \in Flex
    BY DEF AddressesExact
  <2>1. contact[s] \in Contacts /\ RowsOf[contact[s]] \in Nat
    <3>1. contact[s] \in Contacts
      BY DEF IndInv, TypeOK, InUse
    <3> QED
      BY <3>1, ConstraintsAssumption
  <2>2. Stage > ContactInit
    BY DEF Stage, ContactInit
  <2>3. ASSUME NEW d \in 0..RowsOf[contact[s]] - 1
        PROVE  efc_address[s][d] = IF base[s] + d < njmax THEN base[s] + d ELSE -1
    <3>1. d \in Dims /\ d < RowsOf[contact[s]] /\ RowsOf[contact[s]] > 0
      BY <2>1, DimsInRange
    <3>2. s \in Touching /\ Given(s)
      BY <2>2, <3>1, ContactFacts DEF Touching, Owners
    <3> QED
      BY <3>1, <3>2 DEF IndInv, AddressOK
  <2>4. ASSUME NEW d \in Leftover(s), contact[s] \notin Flex PROVE FALSE
    BY <2>1, <2>4, DimsInRange DEF IndInv, AddressOK, Leftover
  <2> QED
    BY <2>3, <2>4
<1> QED
  BY <1>1, RowsInductive, PTL

\* When make_constraint returns, each row that was kept is its owner's.
THEOREM RowsOwned == Spec => []RowsExact
<1>1. IndInv => RowsExact
  <2> SUFFICES ASSUME IndInv, kernel = Solve, NEW t \in Owners, KeepsRows(t),
                      efc_nnz <= njmax_nnz \/ t \in Slots, NEW r \in Stored(t)
               PROVE  row[r] = <<t, r - base[t]>>
    BY DEF RowsExact, Owners
  <2>1. Stage = Solve /\ Stage > ContactInit /\ Stage >= ContactUpdate
    BY DEF Stage, Solve, ContactInit, ContactUpdate
  <2>2. CASE t \in active
    <3>1. t \notin Slots /\ Ended(t)
      BY <2>1, <2>2, OwnerFacts, ContactFacts DEF IndInv
    <3> QED
      BY <2>2, <3>1 DEF IndInv, RowOK
  <2>3. CASE t \in Touching
    BY <2>1, <2>3 DEF IndInv, RowOK
  <2> QED
    BY <2>2, <2>3 DEF Owners
<1> QED
  BY <1>1, RowsInductive, PTL

\* So is each entry of these rows, and lies below the limit, if the nonzeros
\* fit, but for the entries that leftover addresses of flex contacts name.
THEOREM EntriesOwned == Spec => []EntriesExact
<1>1. IndInv => EntriesExact
  <2> SUFFICES ASSUME IndInv, kernel = Solve, efc_nnz <= njmax_nnz,
                      NEW t \in Owners, KeepsRows(t), NEW r \in Stored(t), NEW e \in EntriesOf(r)
               PROVE  /\ is_sparse => e < njmax_nnz
                      /\ e \notin Overwritten => J[e] = <<t, r - base[t]>>
    BY DEF EntriesExact, Owners
  <2>1. Stage > ContactInit /\ Stage > ContactJac
    BY DEF Stage, Solve, ContactInit, ContactJac
  <2>2. t \in Filled /\ t \in Threads /\ r \in FilledRows
    BY <2>1, ContactFacts DEF Filled, FilledRows
  <2>3. e \notin Overwritten => J[e] = <<t, r - base[t]>>
    BY <2>1, <2>2 DEF IndInv, EntryOK, JacobianDone
  <2>4. is_sparse => e < njmax_nnz
    <3> SUFFICES ASSUME is_sparse PROVE e < njmax_nnz
      OBVIOUS
    <3>1. r \in Rows
      BY <2>2, GivenFacts
    <3>2. rowadr[r] \in Nat /\ rownnz[r] \in Nat /\ rowadr[r] + rownnz[r] <= efc_nnz
      BY <2>2, <3>1 DEF IndInv, TypeOK, SparseOK
    <3>3. e \in rowadr[r]..rowadr[r] + rownnz[r] - 1
      BY DEF EntriesOf
    <3> QED
      BY <3>2, <3>3, GivenFacts
  <2> QED
    BY <2>3, <2>4
<1> QED
  BY <1>1, RowsInductive, PTL

\* No row is lost without a message, but for a block that ends at the limit
\* and for nonzeros that did not fit.
THEOREM LossesTold == Spec => []LossesReported
<1>1. IndInv => LossesReported
  BY DEF IndInv
<1> QED
  BY <1>1, RowsInductive, PTL
=============================================================================

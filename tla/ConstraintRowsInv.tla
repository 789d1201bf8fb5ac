--------------------------- MODULE ConstraintRowsInv ---------------------------
(***************************************************************************)
(* The inductive invariant of ConstraintRows: who owns which rows and      *)
(* nonzeros while the kernels run, and what has been written to them.      *)
(***************************************************************************)
EXTENDS ConstraintRows

\* A bound on the rows of contacts, as the arrays of addresses have one.
ASSUME DimsAssumption == \E n \in {RowsOf[c] : c \in Contacts} \cup {0} :
  \A k \in {RowsOf[c] : c \in Contacts} \cup {0} : k <= n

\* Where the call is; between calls everything has been done.
Stage == IF kernel = 0 THEN Solve ELSE kernel

\* The threads that take rows in this call, in which kernel they do, and
\* whether they are through with it.
Owners == active \cup Touching
KernelFor(t) == IF t \in Constraints THEN KernelOf[t] ELSE ContactInit
Ended(t) == KernelFor(t) < Stage \/ (KernelFor(t) = Stage /\ t \in ran)

RanOK == Stage <= ContactInit => ran \subseteq Kernel(Stage)

\* Rows are given to owners whose turn has come, to each its own.
AllocOK ==
  /\ \A t \in Threads : Given(t) =>
       t \in Owners /\ KernelFor(t) <= Stage /\ base[t] + NRows(t) <= nefc
  /\ \A t \in Owners : Ended(t) => Given(t)
  /\ \A t, u \in Threads : t # u /\ Given(t) /\ Given(u) =>
       base[t] + NRows(t) <= base[u] \/ base[u] + NRows(u) <= base[t]

\* And every row below the counter is given.
CoverOK == \A r \in 0..nefc - 1 : \E t \in Threads : r \in RowsGiven(t)

\* The counters of the kernels that have run add up to nefc.
CountsOK ==
  /\ Stage <= 5 => nefc = count["ne"] /\ count["nf"] = 0 /\ count["nl"] = 0
  /\ Stage \in 6..7 => nefc = count["ne"] + count["nf"] /\ count["nl"] = 0
  /\ Stage \in 8..10 => nefc = FirstContactRow
  /\ FirstContactRow <= nefc

CategoryOK ==
  \A t \in Threads : Given(t) =>
    IF t \in Slots THEN FirstContactRow <= base[t]
    ELSE CASE CounterOf(KernelOf[t]) = "ne" -> base[t] + NRows(t) <= count["ne"]
           [] CounterOf(KernelOf[t]) = "nf" ->
                count["ne"] <= base[t] /\ base[t] + NRows(t) <= count["ne"] + count["nf"]
           [] OTHER ->
                count["ne"] + count["nf"] <= base[t] /\ base[t] + NRows(t) <= FirstContactRow

\* A contact's addresses are its rows; only a flex contact has others.
AddressOK ==
  /\ \A s \in Touching : Given(s) => \A d \in Dims : d < RowsOf[contact[s]] =>
       efc_address[s][d] = IF base[s] + d < njmax THEN base[s] + d ELSE -1
  /\ \A s \in InUse : contact[s] \notin Flex => \A d \in Dims :
       efc_address[s][d] >= 0 => Given(s) /\ d < RowsOf[contact[s]]

\* A contact's rows name it; a row names a contact only if contacts have rows.
IdOK ==
  /\ \A r \in Rows : id[r] \in Slots => 0 \in Dims
  /\ \A s \in Touching : \A r \in Stored(s) : id[r] = s

\* The rows that were kept are written when their thread has ended.
RowOK ==
  /\ efc_nnz <= njmax_nnz =>
       \A t \in active : Ended(t) /\ KeepsRows(t) =>
         \A r \in Stored(t) : row[r] = <<t, r - base[t]>>
  /\ Stage >= ContactUpdate =>
       \A s \in Touching : \A r \in Stored(s) :
         Stage = Solve \/ <<s, r - base[s]>> \in ran => row[r] = <<s, r - base[s]>>

\* The threads whose rows have their nonzeros, and these rows.
Filled == {t \in Owners : Ended(t) /\ KeepsRows(t)}
FilledRows == UNION {Stored(t) : t \in Filled}

\* As long as the nonzeros fit, the entries of a row are its own.
SparseOK ==
  is_sparse /\ efc_nnz <= njmax_nnz =>
    /\ \A r \in FilledRows : rowadr[r] + rownnz[r] <= efc_nnz
    /\ \A r, q \in FilledRows : r # q =>
         rowadr[r] + rownnz[r] <= rowadr[q] \/ rowadr[q] + rownnz[q] <= rowadr[r]

\* An owner's entries have been written: a constraint's by its own thread, a
\* contact's by the kernel of the Jacobians.
JacobianDone(t, r) ==
  \/ t \in active
  \/ Stage > ContactJac
  \/ Stage = ContactJac /\ (IF is_sparse THEN <<t, r - base[t]>> ELSE r) \in ran

EntryOK ==
  efc_nnz <= njmax_nnz =>
    \A t \in Filled : \A r \in Stored(t) : JacobianDone(t, r) =>
      \A e \in EntriesOf(r) :
        Stage < ContactJac \/ e \notin Overwritten => J[e] = <<t, r - base[t]>>

IndInv ==
  /\ TypeOK /\ RanOK /\ AllocOK /\ CoverOK /\ CountsOK /\ CategoryOK
  /\ AddressOK /\ IdOK /\ RowOK /\ SparseOK /\ EntryOK /\ LossesReported
=============================================================================

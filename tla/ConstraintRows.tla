--------------------------- MODULE ConstraintRows ---------------------------
(***************************************************************************)
(* The constraint rows of one world (constraint.make_constraint).  Each    *)
(* active constraint takes rows from one atomic counter and, when the      *)
(* Jacobian is sparse, nonzeros from another; both counters run past their *)
(* limits, and who finds that the limit is passed gives up.  The end of    *)
(* the step reports an overflow.                                           *)
(*                                                                         *)
(* Kernels run in order, the threads of one in any order.  A thread's      *)
(* steps are its atomic operations, each with the writes that follow it.   *)
(* What a row holds is the thread that wrote it: numbers are data.         *)
(***************************************************************************)
EXTENDS Integers, FiniteSets, Sequences

CONSTANTS
  Constraints,  (* equality, friction and limit constraints                *)
  KernelOf,     (* the kernel that writes a constraint                     *)
  Contacts,     (* kinds of contacts                                       *)
  Flex,         (* the kinds that collision_flex writes                    *)
  RowsOf,       (* rows of a constraint or a contact, 0: no force          *)
  NnzOf,        (* nonzeros of each of its rows                            *)
  naconmax,
  Scenes,       (* active constraints and contacts of a call               *)
  NjMaxes, NnzMaxes,  (* values of d.njmax and d.njmax_nnz                 *)
  FirstData,    (* efc_address, rownnz and rowadr of new data: zeros when  *)
                (* made (make_data); when put (put_data) an address is -1, *)
                (* or a row of a contact that the MjData has               *)
  None

Kernels == <<"connect", "weld", "joint", "tendon", "flex",
             "friction_dof", "friction_tendon",
             "limit_ball", "limit_slide_hinge", "limit_tendon",
             "contact_init", "contact_jac", "contact_update">>
ContactInit == 11
ContactJac == 12
ContactUpdate == 13
Solve == 14          (* make_constraint has returned                       *)

Counters == {"ne", "nf", "nl"}
CounterOf(k) == IF k <= 5 THEN "ne" ELSE IF k <= 7 THEN "nf" ELSE "nl"
\* A connect takes 3 rows and a weld 6, a thread of another kernel takes one.
BlockRows(k) == IF k = 1 THEN 3 ELSE IF k = 2 THEN 6 ELSE 1

Slots == 0..naconmax - 1

ASSUME ConstraintsAssumption ==
  /\ KernelOf \in [Constraints -> 1..ContactInit - 1]
  /\ RowsOf \in [Constraints \cup Contacts -> Nat]
  /\ NnzOf \in [Constraints \cup Contacts -> Nat]
  /\ \A c \in Constraints : RowsOf[c] = BlockRows(KernelOf[c])
ASSUME ContactsAssumption ==
  \* _write_flex_contact keeps a contact only when it is active.
  /\ Flex \subseteq Contacts /\ \A c \in Flex : RowsOf[c] > 0
  /\ naconmax \in Nat
ASSUME ScenesAssumption ==
  \A x \in Scenes :
    /\ x.active \subseteq Constraints /\ x.contact \in [Slots -> Contacts \cup {None}]
    /\ \A s, r \in Slots : x.contact[s] = None /\ r > s => x.contact[r] = None
ASSUME LimitsAssumption ==
  /\ NjMaxes \subseteq Nat /\ \E n \in NjMaxes : \A k \in NjMaxes : k <= n
  /\ NnzMaxes \subseteq Nat /\ \E n \in NnzMaxes : \A k \in NnzMaxes : k <= n
ASSUME DistinctAssumption ==
  Constraints \cap Slots = {} /\ None \notin Constraints \cup Slots \cup Contacts \cup Nat

Largest(S) == CHOOSE n \in S : \A k \in S : k <= n
Rows == 0..Largest(NjMaxes) - 1
\* Entries of efc.J: nonzeros when it is sparse, rows when it is dense.
Entries == 0..Largest(NjMaxes \cup NnzMaxes) - 1
Dims == 0..Largest({RowsOf[c] : c \in Contacts} \cup {0}) - 1
ASSUME DataAssumption ==
  \A data \in FirstData : data.rownnz \in [Rows -> Nat] /\ data.rowadr \in [Rows -> Nat]
Threads == Constraints \cup Slots
Writers == Threads \X Nat

VARIABLES
  is_sparse, njmax, njmax_nnz,   \* fixed when the model and the data are made
  active,        (* constraints that are active in this call               *)
  contact,       (* slot -> its contact, None beyond nacon                 *)
  kernel,        (* index of the kernel that runs, Solve or 0              *)
  count,         (* d.ne, d.nf, d.nl                                       *)
  nefc, efc_nnz,
  rownnz, rowadr, id,   \* columns of d.efc
  efc_address,   (* of d.contact                                           *)
  base,          (* efcid, base_efcid: the thread's first row              *)
  ran,           (* threads of the kernel that have ended                  *)
  row,           (* history: who wrote the row in this call                *)
  J,             (* history: who wrote the entry in this call              *)
  reports        (* messages printed in this step                          *)

config == <<is_sparse, njmax, njmax_nnz>>
input == <<active, contact>>
counters == <<count, nefc, efc_nnz>>
columns == <<rownnz, rowadr, id, efc_address>>
written == <<row, J>>
vars == <<config, input, kernel, counters, columns, base, ran, written, reports>>

Kind(t) == IF t \in Constraints THEN t ELSE contact[t]
NRows(t) == RowsOf[Kind(t)]
Nnz(t) == NnzOf[Kind(t)]
InUse == {s \in Slots : contact[s] # None}
\* The contacts that make rows: of type CONSTRAINT and closer than the margin.
Touching == {s \in InUse : RowsOf[contact[s]] > 0}

\* The first row is given, the row lies below the limit.
Given(t) == base[t] # None
RowsGiven(t) == IF Given(t) THEN base[t]..base[t] + NRows(t) - 1 ELSE {}
Stored(t) == {r \in RowsGiven(t) : r < njmax}

Init ==
  /\ is_sparse \in BOOLEAN /\ njmax \in NjMaxes /\ njmax_nnz \in NnzMaxes
  /\ active = {} /\ contact = [s \in Slots |-> None] /\ kernel = 0
  /\ count = [c \in Counters |-> 0] /\ nefc = 0 /\ efc_nnz = 0
  /\ id = [r \in Rows |-> None]
  /\ \E data \in FirstData :
       /\ data.efc_address \in [Slots -> [Dims -> -1..njmax - 1]]
       /\ efc_address = data.efc_address
       /\ rownnz = data.rownnz /\ rowadr = data.rowadr
  /\ base = [t \in Threads |-> None] /\ ran = {}
  /\ row = [r \in Rows |-> None] /\ J = [e \in Entries |-> None]
  /\ reports = {}

-----------------------------------------------------------------------------
(* A call: collision has filled the first slots, the counters are zeroed.  *)

\* Mutant: write_contact does not clear the addresses of its slot either.
BugCleared(contacts) == {}

\* write_contact clears the addresses of its slot, _write_flex_contact does not.
Cleared(contacts) == {s \in Slots : contacts[s] \in Contacts \ Flex}

Call(scene) ==
  /\ kernel \in {0, Solve}
  /\ active' = scene.active /\ contact' = scene.contact /\ kernel' = 1
  /\ efc_address' = [s \in Slots |->
       IF s \in Cleared(scene.contact) THEN [d \in Dims |-> -1] ELSE efc_address[s]]
  /\ count' = [c \in Counters |-> 0] /\ nefc' = 0 /\ efc_nnz' = 0
  /\ base' = [t \in Threads |-> None] /\ ran' = {}
  /\ row' = [r \in Rows |-> None] /\ J' = [e \in Entries |-> None]
  /\ reports' = {}
  /\ UNCHANGED <<config, rownnz, rowadr, id>>

-----------------------------------------------------------------------------
(* The threads of the constraint kernels and of _efc_contact_init.         *)

Kernel(k) ==
  IF k < ContactInit THEN {c \in active : KernelOf[c] = k} ELSE Touching

\* Mutant: limits are counted with the friction rows.
BugCount(t) ==
  IF t \in Slots THEN count
  ELSE [count EXCEPT ![IF kernel <= 5 THEN "ne" ELSE "nf"] = @ + NRows(t)]

CountRows(t) ==
  IF t \in Slots THEN count ELSE [count EXCEPT ![CounterOf(kernel)] = @ + NRows(t)]

\* A contact's addresses in the dimensions it has; the others stay.
Addresses(t) ==
  [d \in Dims |-> IF d >= NRows(t) THEN efc_address[t][d]
                  ELSE IF nefc + d < njmax THEN nefc + d ELSE -1]

\* The thread takes its rows; a contact notes where they are.
Allocate(t) ==
  /\ kernel \in 1..ContactInit /\ t \in Kernel(kernel) /\ ~ Given(t)
  /\ base' = [base EXCEPT ![t] = nefc] /\ nefc' = nefc + NRows(t)
  /\ count' = CountRows(t)
  /\ IF t \in Constraints THEN UNCHANGED <<id, efc_address, ran>>
     ELSE /\ efc_address' = [efc_address EXCEPT ![t] = Addresses(t)]
          /\ id' = [r \in Rows |->
               IF r < njmax /\ r - nefc \in 0..NRows(t) - 1 THEN t ELSE id[r]]
          /\ ran' = IF is_sparse THEN ran ELSE ran \cup {t}
  /\ UNCHANGED <<config, input, kernel, efc_nnz, rownnz, rowadr, written, reports>>

\* Mutant: the kernels of one row test as those of several do.
BugKeepsRows(t) == t \in Slots \/ base[t] < njmax - NRows(t)

\* The test before a constraint is written.  The kernels of several rows ask
\* for one row more than they write; a contact stores the rows that fit.
KeepsRows(t) ==
  IF t \in Slots THEN TRUE
  ELSE IF NRows(t) = 1 THEN base[t] < njmax ELSE base[t] < njmax - NRows(t)

Owed(t) == kernel \in 1..ContactInit /\ t \in Kernel(kernel) /\ Given(t) /\ t \notin ran

GiveUp(t) ==
  /\ Owed(t) /\ ~ KeepsRows(t)
  /\ ran' = ran \cup {t}
  /\ UNCHANGED <<config, input, kernel, counters, columns, base, written, reports>>

\* Writes the thread's rows, and with a dense Jacobian their entries.
WriteRows(t) ==
  /\ row' = [r \in Rows |-> IF r \in RowsGiven(t) THEN <<t, r - base[t]>> ELSE row[r]]
  /\ id' = [r \in Rows |-> IF r \in RowsGiven(t) THEN t ELSE id[r]]

FillDense(t) ==
  /\ Owed(t) /\ KeepsRows(t) /\ ~ is_sparse
  /\ WriteRows(t)
  /\ J' = [e \in Entries |-> IF e \in RowsGiven(t) THEN <<t, e - base[t]>> ELSE J[e]]
  /\ ran' = ran \cup {t}
  /\ UNCHANGED <<config, input, kernel, counters, rownnz, rowadr, efc_address, base, reports>>

\* Kernels of one row store the size before they test the limit; the others,
\* and _equality_tendon once it has dropped the zeros, afterwards.
SizeFirst(t) == t \in Constraints /\ NRows(t) = 1 /\ KernelOf[t] # 4

Sizes(t) == IF kernel = 4 THEN 0..Nnz(t) ELSE {Nnz(t)}

\* Mutant: a constraint of several rows takes the nonzeros of one.
BugNeed(t) == Nnz(t)

Need(t) == NRows(t) * Nnz(t)

\* The thread takes its nonzeros and, if they fit, stores where they are; a
\* constraint writes its rows and their nonzeros, a contact leaves them to
\* later kernels.
FillSparse(t, size) ==
  /\ Owed(t) /\ KeepsRows(t) /\ is_sparse /\ size \in Sizes(t)
  /\ efc_nnz' = efc_nnz + Need(t)
  /\ LET fits == efc_nnz + Need(t) <= njmax_nnz
         start(r) == efc_nnz + (r - base[t]) * Nnz(t)
         row_of(e) == {r \in Stored(t) : e \in start(r)..start(r) + size - 1}
     IN /\ rownnz' = [r \in Rows |->
             IF r \in Stored(t) /\ (fits \/ SizeFirst(t)) THEN size ELSE rownnz[r]]
        /\ rowadr' = [r \in Rows |-> IF r \in Stored(t) /\ fits THEN start(r) ELSE rowadr[r]]
        /\ IF fits /\ t \in Constraints
           THEN /\ WriteRows(t)
                /\ J' = [e \in Entries |->
                     IF row_of(e) = {} THEN J[e]
                     ELSE <<t, (CHOOSE r \in row_of(e) : TRUE) - base[t]>>]
           ELSE UNCHANGED <<id, written>>
  /\ ran' = ran \cup {t}
  /\ UNCHANGED <<config, input, kernel, count, nefc, efc_address, base, reports>>

-----------------------------------------------------------------------------
(* The other contact kernels.                                              *)

FirstContactRow == count["ne"] + count["nf"] + count["nl"]

LastRow == (IF nefc < njmax THEN nefc ELSE njmax) - 1

\* A thread for each dimension any contact may have.
SparseJacobians == {p \in InUse \X Dims : efc_address[p[1]][p[2]] >= 0}
DenseJacobians == FirstContactRow..LastRow

\* The nonzeros of the row at the address, wherever they are.
JacobianSparse(s, d) ==
  /\ kernel = ContactJac /\ is_sparse /\ <<s, d>> \in SparseJacobians \ ran
  /\ LET r == efc_address[s][d]
     IN J' = [e \in Entries |->
                IF e \in rowadr[r]..rowadr[r] + rownnz[r] - 1 THEN <<s, d>> ELSE J[e]]
  /\ ran' = ran \cup {<<s, d>>}
  /\ UNCHANGED <<config, input, kernel, counters, columns, base, row, reports>>

\* The contact that efc.id names; its dimension is the distance to its first row.
JacobianDense(r) ==
  /\ kernel = ContactJac /\ ~ is_sparse /\ r \in DenseJacobians \ ran
  /\ J' = [J EXCEPT ![r] =
       IF id[r] \in Slots THEN <<id[r], r - efc_address[id[r]][0]>> ELSE None]
  /\ ran' = ran \cup {r}
  /\ UNCHANGED <<config, input, kernel, counters, columns, base, row, reports>>

\* Mutant: the contact's dimension is not tested here either.
BugUpdates == SparseJacobians

Updates == {p \in SparseJacobians : p[2] < RowsOf[contact[p[1]]]}

Update(s, d) ==
  /\ kernel = ContactUpdate /\ <<s, d>> \in Updates \ ran
  /\ row' = [row EXCEPT ![efc_address[s][d]] = <<s, d>>]
  /\ id' = [id EXCEPT ![efc_address[s][d]] = s]
  /\ ran' = ran \cup {<<s, d>>}
  /\ UNCHANGED <<config, input, kernel, counters, rownnz, rowadr, efc_address, base, J, reports>>

Launched ==
  IF kernel <= ContactInit THEN Kernel(kernel)
  ELSE IF kernel = ContactUpdate THEN Updates
  ELSE IF is_sparse THEN SparseJacobians ELSE DenseJacobians

\* All threads of the kernel have ended.
NextKernel ==
  /\ kernel \in 1..ContactUpdate /\ Launched \subseteq ran
  /\ kernel' = kernel + 1 /\ ran' = {}
  /\ UNCHANGED <<config, input, counters, columns, base, written, reports>>

\* The end of the step (_next_time).
Report ==
  /\ kernel = Solve /\ kernel' = 0
  /\ reports' = IF nefc > njmax THEN {"nefc"}
                ELSE IF is_sparse /\ nefc > 0
                        /\ rowadr[LastRow] + rownnz[LastRow] > njmax_nnz
                THEN {"njmax_nnz"} ELSE {}
  /\ UNCHANGED <<config, input, counters, columns, base, ran, written>>

Next ==
  \/ \E scene \in Scenes : Call(scene)
  \/ \E t \in Threads : Allocate(t) \/ GiveUp(t) \/ FillDense(t)
  \/ \E t \in Threads, size \in 0..Largest({NnzOf[k] : k \in DOMAIN NnzOf}) : FillSparse(t, size)
  \/ \E s \in Slots, d \in Dims : JacobianSparse(s, d) \/ Update(s, d)
  \/ \E r \in Rows : JacobianDense(r)
  \/ NextKernel
  \/ Report

Spec == Init /\ [][Next]_vars

-----------------------------------------------------------------------------
(* Properties.                                                             *)

\* Every variable has its type; an address is a row or -1.
TypeOK ==
  /\ is_sparse \in BOOLEAN /\ njmax \in NjMaxes /\ njmax_nnz \in NnzMaxes
  /\ active \subseteq Constraints /\ contact \in [Slots -> Contacts \cup {None}]
  /\ kernel \in 0..Solve
  /\ count \in [Counters -> Nat] /\ nefc \in Nat /\ efc_nnz \in Nat
  /\ rownnz \in [Rows -> Nat] /\ rowadr \in [Rows -> Nat]
  /\ id \in [Rows -> Threads \cup {None}]
  /\ efc_address \in [Slots -> [Dims -> -1..njmax - 1]]
  /\ base \in [Threads -> Nat \cup {None}]
  /\ row \in [Rows -> (Threads \X Int) \cup {None}]
  /\ J \in [Entries -> (Threads \X Int) \cup {None}]
  /\ reports \subseteq {"nefc", "njmax_nnz"}

\* The rows of a category, as the solver and the dense contact kernel find
\* them by the counters alone.
CategoryRows(c) ==
  IF c = "ne" THEN 0..count["ne"] - 1
  ELSE IF c = "nf" THEN count["ne"]..count["ne"] + count["nf"] - 1
  ELSE count["ne"] + count["nf"]..FirstContactRow - 1

\* Once the constraint kernels are done, the rows below nefc are dealt out
\* without gap or overlap, and each category has just those that its counter
\* says: equality, friction, limits, contacts.
RowsByCategory ==
  kernel >= ContactInit =>
    /\ \A t \in Threads : RowsGiven(t) \subseteq
         IF t \in Constraints THEN CategoryRows(CounterOf(KernelOf[t]))
         ELSE FirstContactRow..nefc - 1
    /\ \A t, u \in Threads : t # u => RowsGiven(t) \cap RowsGiven(u) = {}
    /\ \A r \in 0..nefc - 1 : \E t \in Threads : r \in RowsGiven(t)

\* Addresses that new data, or a slot's earlier contact, have left in a
\* dimension the flex contact does not have.
Leftover(s) == {d \in Dims : d >= RowsOf[contact[s]] /\ efc_address[s][d] >= 0}

\* A contact's address in a dimension it has is its own row, or -1 when the
\* row does not fit; only a flex contact has addresses besides.
AddressesExact ==
  kernel > ContactInit =>
    \A s \in InUse :
      /\ \A d \in 0..RowsOf[contact[s]] - 1 :
           efc_address[s][d] = IF base[s] + d < njmax THEN base[s] + d ELSE -1
      /\ Leftover(s) # {} => contact[s] \in Flex

EntriesOf(r) == IF is_sparse THEN rowadr[r]..rowadr[r] + rownnz[r] - 1 ELSE {r}

\* The entries that leftover addresses name.
Overwritten ==
  IF is_sparse
  THEN UNION {UNION {EntriesOf(efc_address[s][d]) : d \in Leftover(s)} : s \in InUse}
  ELSE {}

\* When make_constraint returns, a constraint that kept its rows has written
\* all of those that fit, and so has a contact, whoever else took rows before
\* or after: no row mixes two constraints or is left from an earlier call.
RowsExact ==
  kernel = Solve =>
    \A t \in active \cup Touching :
      KeepsRows(t) /\ (efc_nnz <= njmax_nnz \/ t \in Slots) =>
        \A r \in Stored(t) : row[r] = <<t, r - base[t]>>

\* So have the entries of its rows, which lie below the limit, if the
\* nonzeros of all constraints fit: all entries of a dense Jacobian, and of a
\* sparse one those that no leftover address of a flex contact names.
EntriesExact ==
  kernel = Solve /\ efc_nnz <= njmax_nnz =>
    \A t \in active \cup Touching :
      KeepsRows(t) =>
        \A r \in Stored(t) : \A e \in EntriesOf(r) :
          /\ is_sparse => e < njmax_nnz
          /\ e \notin Overwritten => J[e] = <<t, r - base[t]>>

\* A constraint without its rows is reported, unless its rows end just at
\* njmax or nonzeros did not fit.
LossesReported ==
  kernel = 0 =>
    \A t \in active \cup Touching :
      \/ \A d \in 0..NRows(t) - 1 : base[t] + d < njmax /\ row[base[t] + d] = <<t, d>>
      \/ "nefc" \in reports
      \/ NRows(t) > 1 /\ base[t] + NRows(t) = njmax
      \/ efc_nnz > njmax_nnz

\* Nothing says that nefc must not reach njmax (io.put_data asks for njmax >=
\* nefc, and the message at the end of the step names nefc as the njmax to
\* choose): then every row that the solver reads is written in this call.
RowsSuffice ==
  kernel = Solve /\ nefc <= njmax /\ efc_nnz <= njmax_nnz =>
    \A r \in 0..nefc - 1 : row[r] # None
=============================================================================

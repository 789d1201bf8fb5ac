--------------------------- MODULE GraphAllocProofs ---------------------------
(***************************************************************************)
(* Proofs about GraphAlloc for any number of graphs, allocations, devices  *)
(* and external captures.                                                  *)
(***************************************************************************)
EXTENDS GraphAllocInv, TLAPS

-----------------------------------------------------------------------------
(* The cell operators.                                                     *)

\* Giving back memory that somebody has and nobody has queued.
LEMMA FreeOrDeferCell ==
  \A a \in Cells : a.mem \in {"virtual", "mapped"} /\ ~a.queued =>
     \/ FreeOrDefer(a) = [a EXCEPT !.mem = "freed"] /\ Captures = {}
     \/ FreeOrDefer(a) = [a EXCEPT !.queued = TRUE] /\ Captures # {}
<1>1. SUFFICES ASSUME NEW a \in Cells, a.mem \in {"virtual", "mapped"}, ~a.queued
               PROVE  \/ FreeOrDefer(a) = [a EXCEPT !.mem = "freed"] /\ Captures = {}
                      \/ FreeOrDefer(a) = [a EXCEPT !.queued = TRUE] /\ Captures # {}
  OBVIOUS
<1>2. CASE Captures = {}
  <2>1. FreeOrDefer(a) = DriverFree(a)
    BY <1>2 DEF FreeOrDefer
  <2>2. QED
    BY <1>1, <1>2, <2>1, Zenon DEF DriverFree
<1>3. CASE Captures # {}
  <2>1. FreeOrDefer(a) = Queue(a)
    BY <1>3 DEF FreeOrDefer
  <2>2. QED
    BY <1>1, <1>3, <2>1, Zenon DEF Queue
<1>4. QED
  BY <1>2, <1>3

\* What becomes of the cell of an array that goes out of scope.
LEMMA ReleaseCell ==
  \A a \in Cells : CellOK(a) /\ a.held =>
    LET b == [FreeAsync(a) EXCEPT !.held = FALSE] IN
      /\ b \in Cells /\ CellOK(b) /\ b.mem # "none"
      /\ HasInfo(b) => b.capture_id = a.capture_id /\ ~b.graph_destroyed
                       /\ ~a.graph_destroyed /\ a.capture_id \cap Captures = {}
      /\ HasInfo(a) /\ ~HasInfo(b) => a.graph_destroyed \/ a.capture_id \cap Captures # {}
      /\ b.mem = "freed" => a.mem = "freed" \/ Captures = {}
<1> SUFFICES ASSUME NEW a \in Cells, CellOK(a), a.held,
                    NEW b, b = [FreeAsync(a) EXCEPT !.held = FALSE]
             PROVE
      /\ b \in Cells /\ CellOK(b) /\ b.mem # "none"
      /\ HasInfo(b) => b.capture_id = a.capture_id /\ ~b.graph_destroyed
                       /\ ~a.graph_destroyed /\ a.capture_id \cap Captures = {}
      /\ HasInfo(a) /\ ~HasInfo(b) => a.graph_destroyed \/ a.capture_id \cap Captures # {}
      /\ b.mem = "freed" => a.mem = "freed" \/ Captures = {}
  OBVIOUS
<1>1. a.mem \in {"virtual", "mapped"} /\ ~a.queued
  BY DEF CellOK, Cells
<1>2. \/ FreeOrDefer(a) = [a EXCEPT !.mem = "freed"] /\ Captures = {}
      \/ FreeOrDefer(a) = [a EXCEPT !.queued = TRUE] /\ Captures # {}
  BY <1>1, FreeOrDeferCell
<1>3. CASE ~HasInfo(a)
  <2>1. FreeAsync(a) = FreeOrDefer(a)
    BY <1>3 DEF FreeAsync, HasInfo, CellOK
  <2>2. CASE FreeOrDefer(a) = [a EXCEPT !.mem = "freed"] /\ Captures = {}
    <3>1. b = [[a EXCEPT !.mem = "freed"] EXCEPT !.held = FALSE]
      BY <2>1, <2>2
    <3>2. QED
      BY <1>1, <1>3, <2>2, <3>1 DEF Cells, CellOK, HasInfo
  <2>3. CASE FreeOrDefer(a) = [a EXCEPT !.queued = TRUE] /\ Captures # {}
    <3>1. b = [[a EXCEPT !.queued = TRUE] EXCEPT !.held = FALSE]
      BY <2>1, <2>3
    <3>2. QED
      BY <1>1, <1>3, <2>3, <3>1 DEF Cells, CellOK, HasInfo
  <2>4. QED
    BY <1>2, <2>2, <2>3
<1>4. CASE HasInfo(a) /\ a.capture_id \cap Captures # {}
  <2>1. FreeAsync(a) = Erase([a EXCEPT !.mem = "node"])
    BY <1>4 DEF FreeAsync, HasInfo
  <2>2. QED
    BY <1>1, <1>4, <2>1 DEF Cells, CellOK, HasInfo, Erase
<1>5. CASE HasInfo(a) /\ a.capture_id \cap Captures = {} /\ a.graph_destroyed
  <2>1. FreeAsync(a) = Erase(FreeOrDefer(a))
    BY <1>5 DEF FreeAsync, HasInfo
  <2>2. CASE FreeOrDefer(a) = [a EXCEPT !.mem = "freed"] /\ Captures = {}
    <3>1. b = [Erase([a EXCEPT !.mem = "freed"]) EXCEPT !.held = FALSE]
      BY <2>1, <2>2
    <3>2. QED
      BY <1>1, <1>5, <2>2, <3>1 DEF Cells, CellOK, HasInfo, Erase
  <2>3. CASE FreeOrDefer(a) = [a EXCEPT !.queued = TRUE] /\ Captures # {}
    <3>1. b = [Erase([a EXCEPT !.queued = TRUE]) EXCEPT !.held = FALSE]
      BY <2>1, <2>3
    <3>2. QED
      BY <1>1, <1>5, <2>3, <3>1 DEF Cells, CellOK, HasInfo, Erase
  <2>4. QED
    BY <1>2, <2>2, <2>3
<1>6. CASE HasInfo(a) /\ a.capture_id \cap Captures = {} /\ ~a.graph_destroyed
  <2>1. FreeAsync(a) = [a EXCEPT !.ref_exists = FALSE]
    BY <1>6 DEF FreeAsync, HasInfo
  <2>2. QED
    BY <1>1, <1>6, <2>1 DEF Cells, CellOK, HasInfo
<1>7. QED
  BY <1>3, <1>4, <1>5, <1>6

\* What becomes of the cell of an allocation whose graph is reported destroyed.
LEMMA GoneCell ==
  \A a \in Cells : CellOK(a) /\ (HasInfo(a) => a.capture_id \cap Captures = {}) =>
    LET b == GraphGone(a) IN
      /\ b \in Cells /\ CellOK(b) /\ b.mem = a.mem
      /\ HasInfo(b) => b.capture_id = a.capture_id /\ b.graph_destroyed
<1> SUFFICES ASSUME NEW a \in Cells, CellOK(a),
                    HasInfo(a) => a.capture_id \cap Captures = {},
                    NEW b, b = GraphGone(a)
             PROVE
      /\ b \in Cells /\ CellOK(b) /\ b.mem = a.mem
      /\ HasInfo(b) => b.capture_id = a.capture_id /\ b.graph_destroyed
  OBVIOUS
<1>1. CASE ~HasInfo(a)
  BY <1>1 DEF GraphGone, CellOK
<1>2. CASE HasInfo(a) /\ a.ref_exists
  BY <1>2 DEF GraphGone, Cells, CellOK, HasInfo
<1>3. CASE HasInfo(a) /\ ~a.ref_exists
  <2>1. FreeAsync(a) = [a EXCEPT !.ref_exists = FALSE]
    BY <1>3 DEF FreeAsync, HasInfo, CellOK
  <2>2. b = Erase([a EXCEPT !.ref_exists = FALSE])
    BY <1>3, <2>1 DEF GraphGone
  <2>3. QED
    BY <1>3, <2>2 DEF Cells, CellOK, HasInfo, Erase
<1>4. QED
  BY <1>1, <1>2, <1>3

\* What becomes of the cell of a queued allocation.
LEMMA FlushCell ==
  \A a \in Cells : CellOK(a) /\ a.queued =>
    LET b == Flush(a) IN
      b \in Cells /\ CellOK(b) /\ ~HasInfo(a) /\ ~HasInfo(b) /\ b.mem = "freed"
<1> SUFFICES ASSUME NEW a \in Cells, CellOK(a), a.queued, NEW b, b = Flush(a)
             PROVE  b \in Cells /\ CellOK(b) /\ ~HasInfo(a) /\ ~HasInfo(b) /\ b.mem = "freed"
  OBVIOUS
<1>1. a.mem \in {"virtual", "mapped"} /\ ~a.held /\ ~HasInfo(a)
  BY DEF CellOK, Cells
<1>2. DriverFree(a) = [a EXCEPT !.mem = "freed"]
  BY <1>1 DEF DriverFree
<1>3. b = [[a EXCEPT !.mem = "freed"] EXCEPT !.queued = FALSE]
  BY <1>2 DEF Flush
<1>4. QED
  BY <1>1, <1>3 DEF Cells, CellOK, HasInfo

-----------------------------------------------------------------------------
(* The inductive invariant.                                                *)

LEMMA InitIndInv == Init => IndInv
<1> SUFFICES ASSUME Init PROVE IndInv
  OBVIOUS
<1>1. \A p \in Ptrs : cells[p] \in Cells /\ CellOK(cells[p]) /\ cells[p].capture_id = {}
  BY DEF Init, Cell, Cells, CellOK, HasInfo
<1>2. TypeOK
  BY <1>1 DEF Init, TypeOK, Statuses
<1>3. QED
  BY <1>1, <1>2 DEF IndInv, AllocsOK, UnfreedOK, Init

\* Captures begin, and allocations are made.
LEMMA CaptureSteps ==
  ASSUME IndInv, NEW g \in Graphs
  PROVE  (BeginCapture(g) \/ TmpAlloc(g) \/ OnGraphDestroy(g) \/ DestroyGraph(g)) => IndInv'
<1>1. ASSUME BeginCapture(g) PROVE IndInv'
  BY <1>1 DEF BeginCapture, IndInv, TypeOK, Statuses, AllocsOK, UnfreedOK, EntryOK
<1>2. ASSUME TmpAlloc(g) PROVE IndInv'
  BY <1>2 DEF TmpAlloc, IndInv, TypeOK, Statuses, AllocsOK, UnfreedOK, EntryOK
<1>3. ASSUME OnGraphDestroy(g) PROVE IndInv'
  BY <1>3 DEF OnGraphDestroy, IndInv, TypeOK, Statuses, AllocsOK, UnfreedOK, EntryOK
<1>4. ASSUME DestroyGraph(g) PROVE IndInv'
  <2>1. Notifies(g) = (unfreed[g] # {} \/ tmp[g] = "held")
    BY <1>4 DEF DestroyGraph, Notifies
  <2>2. /\ status' = [status EXCEPT ![g] = status'[g]]
        /\ status'[g] \in {"destroyed", "deferred", "gone"}
        /\ status'[g] = "gone" => unfreed[g] = {}
    BY <1>4, <2>1 DEF DestroyGraph, Discarded, IndInv, TypeOK
  <2>3. QED
    BY <1>4, <2>2 DEF DestroyGraph, IndInv, TypeOK, Statuses, AllocsOK, UnfreedOK, EntryOK
<1>5. QED
  BY <1>1, <1>2, <1>3, <1>4

LEMMA AllocSteps ==
  ASSUME IndInv, NEW p \in Ptrs
  PROVE  (Alloc(p) \/ \E g \in Graphs : AllocCaptured(p, g)) => IndInv'
<1> USE DEF IndInv
<1>1. ASSUME Alloc(p) PROVE IndInv'
  <2>1. /\ cells' = [cells EXCEPT ![p] = cells'[p]]
        /\ cells'[p] = [[cells[p] EXCEPT !.mem = "mapped"] EXCEPT !.held = TRUE]
    BY <1>1 DEF Alloc, TypeOK
  <2>2. cells[p].mem = "none" /\ cells[p] \in Cells /\ CellOK(cells[p])
    BY <1>1 DEF Alloc, TypeOK, AllocsOK
  <2>3. ~HasInfo(cells[p]) /\ ~cells[p].queued
    BY <2>2 DEF CellOK
  <2>4. /\ cells'[p] \in Cells /\ CellOK(cells'[p]) /\ cells'[p].capture_id = {}
        /\ cells'[p].mem # "none"
    BY <2>1, <2>2, <2>3 DEF Cells, CellOK, HasInfo
  <2>5. TypeOK'
    BY <1>1, <2>1, <2>4 DEF Alloc, TypeOK
  <2>6. AllocsOK'
    <3>1. ASSUME NEW q \in Ptrs \ {p} PROVE cells'[q] = cells[q]
      BY <2>1, <3>1 DEF TypeOK
    <3>2. UNCHANGED <<status, unfreed>>
      BY <1>1 DEF Alloc
    <3>3. ASSUME NEW q \in Ptrs \ {p}
          PROVE  CellOK(cells'[q]) /\ \A g \in cells'[q].capture_id : EntryOK(q, g)'
      BY <3>1, <3>2 DEF AllocsOK, EntryOK
    <3>4. QED
      BY <2>4, <3>3 DEF AllocsOK, EntryOK
  <2>7. UnfreedOK'
    BY <1>1, <2>1, <2>2, <2>4 DEF Alloc, UnfreedOK, TypeOK
  <2>8. QED
    BY <2>5, <2>6, <2>7
<1>2. ASSUME NEW g \in Graphs, AllocCaptured(p, g) PROVE IndInv'
  <2>1. /\ cells' = [cells EXCEPT ![p] = cells'[p]]
        /\ cells'[p] = Cell("virtual", {g}, TRUE)
        /\ cells[p].mem = "none" /\ status[g] = "capturing"
    BY <1>2 DEF AllocCaptured, TypeOK, Captures
  <2>2. cells'[p] \in Cells /\ CellOK(cells'[p])
    BY <2>1 DEF Cells, Cell, CellOK, HasInfo
  <2>3. /\ cells'[p].capture_id = {g} /\ cells'[p].mem # "none"
        /\ cells'[p].ref_exists /\ ~cells'[p].graph_destroyed
    BY <2>1 DEF Cell
  <2>4. TypeOK'
    BY <1>2, <2>1, <2>2 DEF AllocCaptured, TypeOK
  <2>5. AllocsOK'
    <3>1. ASSUME NEW q \in Ptrs \ {p} PROVE cells'[q] = cells[q]
      BY <2>1, <3>1 DEF TypeOK
    <3>2. UNCHANGED <<status, unfreed>>
      BY <1>2 DEF AllocCaptured
    <3>3. ASSUME NEW q \in Ptrs \ {p}
          PROVE  CellOK(cells'[q]) /\ \A h \in cells'[q].capture_id : EntryOK(q, h)'
      BY <3>1, <3>2 DEF AllocsOK, EntryOK
    <3>4. EntryOK(p, g)'
      BY <2>1, <2>3, <3>2 DEF EntryOK
    <3>5. QED
      BY <2>2, <2>3, <3>3, <3>4 DEF AllocsOK, EntryOK
  <2>6. UnfreedOK'
    BY <1>2, <2>1, <2>3, ZenonT(30) DEF AllocCaptured, UnfreedOK, TypeOK
  <2>7. QED
    BY <2>4, <2>5, <2>6
<1>3. QED
  BY <1>1, <1>2

LEMMA ReleaseStep ==
  ASSUME IndInv, NEW p \in Ptrs, Release(p)
  PROVE  IndInv'
<1> USE DEF IndInv
<1> DEFINE a == cells[p]
           b == [FreeAsync(a) EXCEPT !.held = FALSE]
<1>1. /\ cells' = [cells EXCEPT ![p] = b] /\ cells'[p] = b
      /\ a \in Cells /\ CellOK(a) /\ a.held
  BY DEF Release, TypeOK, AllocsOK
<1>2. /\ b \in Cells /\ CellOK(b) /\ b.mem # "none"
      /\ HasInfo(b) => b.capture_id = a.capture_id /\ ~b.graph_destroyed
                       /\ ~a.graph_destroyed /\ a.capture_id \cap Captures = {}
      /\ HasInfo(a) /\ ~HasInfo(b) => a.graph_destroyed \/ a.capture_id \cap Captures # {}
  BY <1>1, ReleaseCell
<1>3. UNCHANGED <<status, unfreed, tmp, stage, running>>
  BY DEF Release
<1> HIDE DEF a, b
<1>4. TypeOK'
  BY <1>1, <1>2, <1>3 DEF TypeOK
<1>5. AllocsOK'
  <2>1. ASSUME NEW g \in b.capture_id PROVE EntryOK(p, g)'
    <3>1. g \in Graphs /\ g \in a.capture_id /\ HasInfo(b)
      BY <1>1, <1>2 DEF Cells, HasInfo
    <3>2. EntryOK(p, g) /\ g \notin Captures
      BY <1>2, <3>1 DEF AllocsOK, a
    <3>3. QED
      BY <1>1, <1>2, <1>3, <3>1, <3>2 DEF EntryOK, Captures, a
  <2>2. QED
    BY <1>1, <1>2, <1>3, <2>1 DEF AllocsOK, EntryOK, TypeOK
<1>6. UnfreedOK'
  <2>1. \A g \in Graphs : p \in unfreed[g] =>
          /\ HasInfo(b) => b.capture_id = {g}
          /\ status[g] \in {"ready", "deferred"} => HasInfo(b)
    BY <1>1, <1>2 DEF UnfreedOK, AllocsOK, EntryOK, HasInfo, Captures, a
  <2>2. QED
    BY <1>1, <1>2, <1>3, <2>1 DEF UnfreedOK, TypeOK
<1>7. QED
  BY <1>4, <1>5, <1>6

\* A capture ends. E is what its unfreed allocations become.
LEMMA EndSteps ==
  ASSUME IndInv, NEW g \in Graphs
  PROVE  (EndCapture(g) \/ EndFailsEarly(g) \/ EndFailsRetained(g) \/ EndFailsLate(g))
           => IndInv'
<1> USE DEF IndInv
<1>1. ASSUME g \in Captures
      PROVE  /\ status[g] = "capturing" /\ unfreed[g] = {}
             /\ \A p \in Ptrs : p \in AllocsOf(g) <=> cells[p].capture_id = {g}
             /\ \A p \in AllocsOf(g) : /\ cells[p].ref_exists /\ ~cells[p].graph_destroyed
                                       /\ cells[p].mem # "none" /\ HasInfo(cells[p])
             /\ AllocsOf(g) \subseteq Ptrs
  <2>1. status[g] = "capturing" /\ unfreed[g] = {}
    BY <1>1 DEF Captures, UnfreedOK
  <2>2. \A p \in Ptrs : p \in AllocsOf(g) <=> cells[p].capture_id = {g}
    BY DEF AllocsOf, AllocsOK, EntryOK
  <2>3. \A p \in AllocsOf(g) : /\ cells[p].ref_exists /\ ~cells[p].graph_destroyed
                               /\ HasInfo(cells[p])
    BY <2>1 DEF AllocsOf, AllocsOK, EntryOK, HasInfo
  <2>4. \A p \in AllocsOf(g) : cells[p].mem # "none"
    BY <2>3 DEF AllocsOf, AllocsOK, CellOK
  <2>5. QED
    BY <2>1, <2>2, <2>3, <2>4 DEF AllocsOf
<1>2. ASSUME EndCapture(g) PROVE IndInv'
  <2>1. /\ g \in Captures /\ UNCHANGED <<cells, tmp>>
        /\ unfreed' = [unfreed EXCEPT ![g] = AllocsOf(g)]
        /\ status' = [status EXCEPT ![g] = "ready"]
    BY <1>2 DEF EndCapture
  <2>2. stage' \in {"idle", "free", "callbacks"} /\ running' \subseteq Contexts
    BY <1>2 DEF EndCapture, RunDeferred, TypeOK
  <2>3. TypeOK'
    BY <1>1, <2>1, <2>2 DEF TypeOK, Statuses
  <2>4. AllocsOK'
    BY <1>1, <2>1 DEF AllocsOK, EntryOK, TypeOK
  <2>5. UnfreedOK'
    BY <1>1, <2>1 DEF UnfreedOK, TypeOK
  <2>6. QED
    BY <2>3, <2>4, <2>5
<1>3. ASSUME g \in Captures, Unreference(g)
      PROVE  /\ cells' \in [Ptrs -> Cells] /\ \A p \in Ptrs : CellOK(cells'[p])
             /\ \A p \in Ptrs \ AllocsOf(g) : cells'[p] = cells[p]
             /\ \A p \in AllocsOf(g) : /\ cells'[p].capture_id = {g}
                                       /\ cells'[p].graph_destroyed
                                       /\ cells'[p].ref_exists
                                       /\ cells'[p].mem # "none"
                                       /\ HasInfo(cells'[p])
  <2>1. ASSUME NEW p \in AllocsOf(g)
        PROVE  /\ cells'[p] = [cells[p] EXCEPT !.graph_destroyed = TRUE]
               /\ cells[p] \in Cells /\ CellOK(cells[p]) /\ p \in Ptrs
    BY <1>1, <1>3 DEF Unreference, TypeOK, AllocsOK
  <2>2. ASSUME NEW p \in AllocsOf(g)
        PROVE  /\ cells'[p] \in Cells /\ CellOK(cells'[p])
               /\ cells'[p].capture_id = {g} /\ cells'[p].graph_destroyed
               /\ cells'[p].ref_exists /\ cells'[p].mem # "none" /\ HasInfo(cells'[p])
    <3>1. cells[p].ref_exists /\ cells[p].mem # "none" /\ cells[p].capture_id = {g}
      BY <1>1, <1>3
    <3>2. /\ cells'[p] \in Cells /\ cells'[p].graph_destroyed
          /\ cells'[p].capture_id = {g} /\ cells'[p].mem = cells[p].mem
          /\ cells'[p].ref_exists = cells[p].ref_exists
          /\ cells'[p].queued = cells[p].queued /\ cells'[p].held = cells[p].held
      BY <2>1, <3>1, ZenonT(30) DEF Cells
    <3>3. CellOK(cells'[p])
      BY <2>1, <3>1, <3>2 DEF CellOK, HasInfo
    <3>4. QED
      BY <3>1, <3>2, <3>3 DEF HasInfo
  <2>3. ASSUME NEW p \in Ptrs \ AllocsOf(g) PROVE cells'[p] = cells[p]
    BY <1>3 DEF Unreference
  <2>4. cells' = [p \in Ptrs |-> cells'[p]]
    BY <1>3 DEF Unreference
  <2>5. QED
    BY <2>2, <2>3, <2>4 DEF TypeOK, AllocsOK
<1>4. ASSUME EndFailsEarly(g) PROVE IndInv'
  <2>1. /\ g \in Captures /\ Unreference(g) /\ UNCHANGED <<unfreed, stage, running>>
        /\ status' = [status EXCEPT ![g] = "gone"]
        /\ tmp' \in [Graphs -> {"none", "held", "freed", "lost"}]
    BY <1>4 DEF EndFailsEarly, TypeOK
  <2>2. TypeOK'
    BY <1>3, <2>1 DEF TypeOK, Statuses
  <2>3. AllocsOK'
    BY <1>1, <1>3, <2>1 DEF AllocsOK, EntryOK, TypeOK
  <2>4. UnfreedOK'
    <3>0. g \in Captures
      BY <2>1
    <3>1. ASSUME NEW h \in Graphs \ {g}, NEW p \in unfreed[h]
          PROVE  p \in Ptrs \ AllocsOf(g)
      BY <1>1, <3>0 DEF UnfreedOK, TypeOK
    <3>2. \A h \in Graphs \ {g} : status'[h] = status[h] /\ unfreed'[h] = unfreed[h]
      BY <2>1 DEF TypeOK
    <3>3. \A h \in Graphs \ {g} : \A p \in unfreed'[h] : cells'[p] = cells[p]
      BY <1>3, <2>1, <3>1, <3>2
    <3>4. /\ status'[g] \in {"destroyed", "gone"}
          /\ unfreed'[g] \subseteq AllocsOf(g)
      BY <1>1, <2>1 DEF TypeOK
    <3>5. QED
      BY <1>1, <1>3, <2>1, <3>2, <3>3, <3>4 DEF UnfreedOK
  <2>5. QED
    BY <2>2, <2>3, <2>4
<1>5. ASSUME EndFailsRetained(g) PROVE IndInv'
  <2>1. /\ g \in Captures /\ Unreference(g) /\ UNCHANGED <<tmp, stage, running>>
        /\ status' = [status EXCEPT ![g] = "destroyed"]
        /\ unfreed' = [unfreed EXCEPT ![g] = AllocsOf(g)]
    BY <1>5 DEF EndFailsRetained
  <2>2. TypeOK'
    BY <1>1, <1>3, <2>1 DEF TypeOK, Statuses
  <2>3. AllocsOK'
    BY <1>1, <1>3, <2>1 DEF AllocsOK, EntryOK, TypeOK
  <2>4. UnfreedOK'
    <3>0. g \in Captures
      BY <2>1
    <3>1. ASSUME NEW h \in Graphs \ {g}, NEW p \in unfreed[h]
          PROVE  p \in Ptrs \ AllocsOf(g)
      BY <1>1, <3>0 DEF UnfreedOK, TypeOK
    <3>2. \A h \in Graphs \ {g} : status'[h] = status[h] /\ unfreed'[h] = unfreed[h]
      BY <2>1 DEF TypeOK
    <3>3. \A h \in Graphs \ {g} : \A p \in unfreed'[h] : cells'[p] = cells[p]
      BY <1>3, <2>1, <3>1, <3>2
    <3>4. /\ status'[g] \in {"destroyed", "gone"}
          /\ unfreed'[g] \subseteq AllocsOf(g)
      BY <1>1, <2>1 DEF TypeOK
    <3>5. QED
      BY <1>1, <1>3, <2>1, <3>2, <3>3, <3>4 DEF UnfreedOK
  <2>5. QED
    BY <2>2, <2>3, <2>4
<1>6. ASSUME EndFailsLate(g) PROVE IndInv'
  <2>1. /\ g \in Captures /\ UNCHANGED <<tmp, cells, stage, running>>
        /\ unfreed' = [unfreed EXCEPT ![g] = AllocsOf(g)]
        /\ status' = [status EXCEPT ![g] = Discarded(g)]
    BY <1>6 DEF EndFailsLate
  <2>2. /\ Discarded(g) \in {"destroyed", "gone"}
        /\ Discarded(g) = "gone" => AllocsOf(g) = {}
    BY <2>1 DEF Discarded, Notifies, TypeOK
  <2>3. TypeOK'
    BY <1>1, <2>1, <2>2 DEF TypeOK, Statuses
  <2>4. AllocsOK'
    BY <1>1, <2>1, <2>2 DEF AllocsOK, EntryOK, TypeOK
  <2>5. UnfreedOK'
    BY <1>1, <2>1, <2>2 DEF UnfreedOK, TypeOK
  <2>6. QED
    BY <2>3, <2>4, <2>5
<1>7. QED
  BY <1>2, <1>4, <1>5, <1>6

LEMMA LaunchStep ==
  ASSUME IndInv, NEW g \in Graphs, Launch(g)
  PROVE  IndInv'
<1> USE DEF IndInv
<1>1. UNCHANGED <<status, unfreed, tmp, stage, running>>
  BY DEF Launch
<1>2. ASSUME NEW p \in Ptrs
      PROVE  /\ cells'[p] \in Cells /\ CellOK(cells'[p])
             /\ cells'[p].capture_id = cells[p].capture_id
             /\ cells'[p].ref_exists = cells[p].ref_exists
             /\ cells'[p].graph_destroyed = cells[p].graph_destroyed
             /\ cells[p].mem # "none" => cells'[p].mem # "none"
  <2>1. cells[p] \in Cells /\ CellOK(cells[p])
    BY DEF TypeOK, AllocsOK
  <2>2. CASE cells'[p] = cells[p]
    BY <2>1, <2>2
  <2>3. CASE cells'[p] = [cells[p] EXCEPT !.mem = "mapped"] /\ cells[p].mem = "virtual"
    BY <2>1, <2>3 DEF Cells, CellOK, HasInfo
  <2>4. QED
    BY <2>2, <2>3 DEF Launch
<1>3. cells' = [p \in Ptrs |-> cells'[p]]
  BY DEF Launch
<1>4. TypeOK'
  BY <1>1, <1>2, <1>3 DEF TypeOK
<1>5. AllocsOK'
  BY <1>1, <1>2 DEF AllocsOK, EntryOK
<1>6. UnfreedOK'
  BY <1>1, <1>2 DEF UnfreedOK, HasInfo, TypeOK
<1>7. QED
  BY <1>4, <1>5, <1>6

LEMMA DeferredSteps ==
  ASSUME IndInv
  PROVE  (FreeDeferred \/ ProcessCallbacks \/ \E c \in Contexts : Synchronize(c)) => IndInv'
<1> USE DEF IndInv
<1>1. ASSUME NEW c \in Contexts, Synchronize(c) PROVE IndInv'
  BY <1>1 DEF Synchronize, RunDeferred, TypeOK, AllocsOK, EntryOK, UnfreedOK
<1>2. ASSUME FreeDeferred, Captures # {} PROVE IndInv'
  BY <1>2 DEF FreeDeferred, TypeOK, AllocsOK, EntryOK, UnfreedOK
<1>3. ASSUME FreeDeferred, Captures = {} PROVE IndInv'
  <2>1. /\ UNCHANGED <<unfreed, tmp, running>> /\ stage' = "callbacks"
        /\ cells' = [p \in Ptrs |-> cells'[p]]
        /\ status' = [g \in Graphs |-> status'[g]]
    BY <1>3 DEF FreeDeferred
  <2>2. ASSUME NEW p \in Ptrs
        PROVE  /\ cells'[p] \in Cells /\ CellOK(cells'[p])
               /\ HasInfo(cells[p]) => cells'[p] = cells[p]
               /\ ~HasInfo(cells[p]) => ~HasInfo(cells'[p])
               /\ cells[p].mem # "none" => cells'[p].mem # "none"
    <3>1. cells[p] \in Cells /\ CellOK(cells[p])
      BY DEF TypeOK, AllocsOK
    <3>2. CASE cells'[p] = cells[p]
      BY <3>1, <3>2
    <3>3. CASE cells'[p] = Flush(cells[p]) /\ cells[p].queued
      <4>1. /\ cells'[p] \in Cells /\ CellOK(cells'[p]) /\ ~HasInfo(cells[p])
            /\ ~HasInfo(cells'[p]) /\ cells'[p].mem = "freed"
        BY <3>1, <3>3, FlushCell
      <4>2. QED
        BY <4>1
    <3>4. QED
      BY <1>3, <3>2, <3>3 DEF FreeDeferred
  <2>3. ASSUME NEW g \in Graphs
        PROVE  \/ status'[g] = status[g]
               \/ /\ status[g] = "deferred" /\ status'[g] \in {"destroyed", "gone"}
                  /\ status'[g] = "gone" => unfreed[g] = {}
    <3>1. Discarded(g) \in {"destroyed", "gone"}
      BY DEF Discarded
    <3>2. Discarded(g) = "gone" => unfreed[g] = {}
      BY <2>1 DEF Discarded, Notifies
    <3>3. QED
      BY <1>3, <3>1, <3>2 DEF FreeDeferred
  <2>4. TypeOK'
    BY <2>1, <2>2, <2>3 DEF TypeOK, Statuses
  <2>5. AllocsOK'
    BY <2>1, <2>2, <2>3 DEF AllocsOK, EntryOK, HasInfo, TypeOK, Cells
  <2>6. UnfreedOK'
    BY <2>1, <2>2, <2>3 DEF UnfreedOK, TypeOK
  <2>7. QED
    BY <2>4, <2>5, <2>6
<1>4. ASSUME ProcessCallbacks PROVE IndInv'
  <2>1. /\ UNCHANGED unfreed /\ stage' = "idle" /\ running' = {}
        /\ cells' = [p \in Ptrs |-> cells'[p]]
        /\ status' = [g \in Graphs |-> status'[g]]
        /\ tmp' \in [Graphs -> {"none", "held", "freed", "lost"}]
    BY <1>4 DEF ProcessCallbacks, TypeOK
  <2>2. \A g \in Graphs : IF g \in Reported
                           THEN status[g] = "reported" /\ status'[g] = "gone"
                           ELSE status'[g] = status[g]
    BY <1>4 DEF ProcessCallbacks, Reported
  <2>3. ASSUME NEW g \in Reported, NEW p \in unfreed[g]
        PROVE  /\ p \in Ptrs /\ cells'[p] \in Cells /\ CellOK(cells'[p])
               /\ HasInfo(cells'[p]) => /\ cells'[p].capture_id = {g}
                                        /\ cells'[p].graph_destroyed
               /\ cells'[p].mem # "none"
    <3>1. /\ g \in Graphs /\ g \notin Captures /\ p \in Ptrs
          /\ cells[p] \in Cells /\ CellOK(cells[p]) /\ cells[p].mem # "none"
          /\ HasInfo(cells[p]) => cells[p].capture_id = {g}
      BY DEF Reported, Captures, TypeOK, AllocsOK, UnfreedOK
    <3>2. cells'[p] = GraphGone(cells[p])
      BY <1>4, <3>1 DEF ProcessCallbacks
    <3>3. HasInfo(cells[p]) => cells[p].capture_id \cap Captures = {}
      BY <3>1
    <3>4. /\ cells'[p] \in Cells /\ CellOK(cells'[p]) /\ cells'[p].mem = cells[p].mem
          /\ HasInfo(cells'[p]) => /\ cells'[p].capture_id = cells[p].capture_id
                                   /\ cells'[p].graph_destroyed
      BY <3>1, <3>2, <3>3, GoneCell
    <3>5. HasInfo(cells'[p]) => HasInfo(cells[p])
      BY <3>4 DEF HasInfo
    <3>6. QED
      BY <3>1, <3>4, <3>5
  <2>4. ASSUME NEW p \in Ptrs, \A g \in Reported : p \notin unfreed[g]
        PROVE  cells'[p] = cells[p]
    BY <1>4, <2>4 DEF ProcessCallbacks
  <2>5. ASSUME NEW p \in Ptrs
        PROVE  /\ cells'[p] \in Cells /\ CellOK(cells'[p])
               /\ \A g \in cells'[p].capture_id : EntryOK(p, g)'
    <3>1. CASE \E g \in Reported : p \in unfreed[g]
      <4>1. PICK g \in Reported : p \in unfreed[g]
        BY <3>1
      <4>2. g \in Graphs /\ status'[g] = "gone"
        BY <2>2 DEF Reported
      <4>3. ASSUME NEW h \in cells'[p].capture_id PROVE EntryOK(p, h)'
        <5>1. HasInfo(cells'[p])
          BY <4>3 DEF HasInfo
        <5>2. h = g /\ cells'[p].capture_id = {g} /\ cells'[p].graph_destroyed
          BY <2>3, <4>1, <5>1
        <5>3. QED
          BY <4>2, <5>2 DEF EntryOK
      <4>4. QED
        BY <2>3, <4>1, <4>3
    <3>2. CASE \A g \in Reported : p \notin unfreed[g]
      <4>1. cells'[p] = cells[p]
        BY <2>4, <3>2
      <4>2. cells[p] \in Cells /\ CellOK(cells[p])
        BY DEF TypeOK, AllocsOK
      <4>3. ASSUME NEW h \in cells[p].capture_id PROVE EntryOK(p, h)'
        <5>1. h \in Graphs /\ EntryOK(p, h)
          BY <4>2, <4>3 DEF AllocsOK, Cells
        <5>2. h \notin Reported
          BY <3>2, <5>1 DEF EntryOK, Reported
        <5>3. status'[h] = status[h]
          BY <2>2, <5>1, <5>2
        <5>4. QED
          BY <2>1, <4>1, <5>1, <5>3 DEF EntryOK
      <4>4. QED
        BY <4>1, <4>2, <4>3
    <3>3. QED
      BY <3>1, <3>2
  <2>6. TypeOK'
    BY <2>1, <2>2, <2>5 DEF TypeOK, Statuses
  <2>7. AllocsOK'
    BY <2>5 DEF AllocsOK, EntryOK
  <2>8. UnfreedOK'
    <3>1. ASSUME NEW g \in Graphs, status'[g] \in {"unused", "capturing"}
          PROVE  unfreed'[g] = {}
      BY <2>1, <2>2, <3>1 DEF UnfreedOK
    <3>2. ASSUME NEW g \in Graphs, NEW p \in unfreed[g]
          PROVE  /\ cells'[p].mem # "none"
                 /\ HasInfo(cells'[p]) => cells'[p].capture_id = {g}
                 /\ status'[g] \in {"ready", "deferred"} => HasInfo(cells'[p])
      <4>1. p \in Ptrs
        BY DEF TypeOK
      <4>2. CASE g \in Reported
        BY <2>2, <2>3, <4>2
      <4>3. CASE \A h \in Reported : p \notin unfreed[h]
        BY <2>2, <2>4, <4>1, <4>3 DEF UnfreedOK
      <4>4. CASE g \notin Reported /\ \E h \in Reported : p \in unfreed[h]
        <5>1. PICK h \in Reported : p \in unfreed[h]
          BY <4>4
        <5>2. /\ HasInfo(cells[p]) => cells[p].capture_id = {g} /\ cells[p].capture_id = {h}
              /\ h # g /\ status'[g] = status[g]
          BY <2>2, <4>4, <5>1 DEF UnfreedOK, Reported
        <5>3. ~HasInfo(cells[p]) /\ status[g] \notin {"ready", "deferred"}
          BY <5>2 DEF UnfreedOK
        <5>4. cells'[p] = GraphGone(cells[p])
          BY <1>4, <4>1, <5>1 DEF ProcessCallbacks
        <5>5. cells[p] \in Cells /\ CellOK(cells[p])
          BY <4>1 DEF TypeOK, AllocsOK
        <5>6. cells'[p] = cells[p]
          BY <5>3, <5>4, <5>5 DEF GraphGone, CellOK
        <5>7. QED
          BY <5>2, <5>3, <5>6 DEF UnfreedOK
      <4>5. QED
        BY <4>2, <4>3, <4>4
    <3>3. QED
      BY <2>1, <3>1, <3>2 DEF UnfreedOK
  <2>9. QED
    BY <2>6, <2>7, <2>8
<1>5. QED
  BY <1>1, <1>2, <1>3, <1>4

LEMMA NextIndInv == IndInv /\ [Next]_vars => IndInv'
<1> SUFFICES ASSUME IndInv, [Next]_vars PROVE IndInv'
  OBVIOUS
<1>1. CASE UNCHANGED vars
  BY <1>1 DEF vars, IndInv, TypeOK, AllocsOK, EntryOK, UnfreedOK
<1>2. ASSUME NEW g \in Graphs,
             BeginCapture(g) \/ TmpAlloc(g) \/ OnGraphDestroy(g) \/ DestroyGraph(g)
      PROVE  IndInv'
  BY <1>2, CaptureSteps
<1>3. ASSUME NEW g \in Graphs,
             EndCapture(g) \/ EndFailsEarly(g) \/ EndFailsRetained(g) \/ EndFailsLate(g)
      PROVE  IndInv'
  BY <1>3, EndSteps
<1>4. ASSUME NEW g \in Graphs, Launch(g) PROVE IndInv'
  BY <1>4, LaunchStep
<1>5. ASSUME NEW p \in Ptrs, Alloc(p) \/ \E g \in Graphs : AllocCaptured(p, g)
      PROVE  IndInv'
  BY <1>5, AllocSteps
<1>6. ASSUME NEW p \in Ptrs, Release(p) PROVE IndInv'
  BY <1>6, ReleaseStep
<1>7. ASSUME FreeDeferred \/ ProcessCallbacks \/ \E c \in Contexts : Synchronize(c)
      PROVE  IndInv'
  BY <1>7, DeferredSteps
<1>8. QED
  BY <1>1, <1>2, <1>3, <1>4, <1>5, <1>6, <1>7 DEF Next

\* The ownership invariant holds in every reachable state, for any number of
\* concurrent captures, devices and allocations and any placing of failures.
THEOREM OwnershipInductive == Spec => []IndInv
BY InitIndInv, NextIndInv, PTL DEF Spec

\* Types of the ownership bookkeeping.
THEOREM OwnershipTyping == Spec => []TypeOK
<1>1. IndInv => TypeOK
  BY DEF IndInv
<1>2. QED
  BY <1>1, OwnershipInductive, PTL

\* wp_free_device_async, deferral and the driver's reports together never free the
\* memory of a live array and never free anything twice.
THEOREM HeldMemoryIsSafe == Spec => []HeldIsBacked
<1>1. IndInv => HeldIsBacked
  BY DEF IndInv, AllocsOK, CellOK, HeldIsBacked, Backed
<1>2. QED
  BY <1>1, OwnershipInductive, PTL

\* A graph that may still be launched keeps all the memory it does not free itself.
THEOREM GraphMemoryIsSafe == Spec => []GraphIsBacked
<1>1. IndInv => GraphIsBacked
  <2> SUFFICES ASSUME IndInv, NEW g \in Graphs, status[g] \in {"ready", "deferred"},
                      NEW p \in unfreed[g]
               PROVE  Backed(p)
    BY DEF GraphIsBacked
  <2>1. p \in Ptrs /\ HasInfo(cells[p])
    BY DEF IndInv, TypeOK, UnfreedOK
  <2>2. QED
    BY <2>1 DEF IndInv, AllocsOK, CellOK, Backed
<1>2. QED
  BY <1>1, OwnershipInductive, PTL

\* A pointer in the deferred list has no owner left.
THEOREM DeferredListIsSafe == Spec => []QueuedIsUnowned
<1>1. IndInv => QueuedIsUnowned
  BY DEF IndInv, AllocsOK, CellOK, QueuedIsUnowned, Backed
<1>2. QED
  BY <1>1, OwnershipInductive, PTL

\* Memory that only its graph owns waits for a report that has not been processed.
THEOREM ReportIsToCome == Spec => []ReportToCome
<1>1. IndInv => ReportToCome
  <2> SUFFICES ASSUME IndInv, NEW p \in Ptrs, HasInfo(cells[p]), ~cells[p].ref_exists
               PROVE  \E g \in cells[p].capture_id :
                        /\ p \in unfreed[g]
                        /\ status[g] \in {"ready", "deferred", "destroyed", "reported"}
    BY DEF ReportToCome
  <2>1. PICK g \in cells[p].capture_id : TRUE
    BY DEF HasInfo
  <2>2. EntryOK(p, g) /\ CellOK(cells[p]) /\ g \in Graphs
    BY DEF IndInv, AllocsOK, TypeOK, Cells
  <2>3. status[g] \in Statuses
    BY <2>2 DEF IndInv, TypeOK
  <2>4. status[g] \in {"ready", "deferred", "destroyed", "reported"}
    BY <2>2, <2>3 DEF EntryOK, CellOK, Statuses
  <2>5. p \in unfreed[g]
    BY <2>2, <2>4 DEF EntryOK
  <2>6. QED
    BY <2>4, <2>5
<1>2. QED
  BY <1>1, OwnershipInductive, PTL

\* What a step may do while a capture is open.
QuietStep ==
  Captures # {} =>
    /\ \A p \in Ptrs : cells'[p].mem = "freed" => cells[p].mem = "freed"
    /\ \A g \in Graphs \ External :
         status[g] \in {"ready", "deferred"} => status'[g] \in {"ready", "deferred"}

LEMMA EveryStepQuiet == IndInv /\ [Next]_vars => QuietStep
<1> SUFFICES ASSUME IndInv, [Next]_vars, Captures # {} PROVE QuietStep
  BY DEF QuietStep
<1> USE DEF QuietStep
<1>1. CASE UNCHANGED vars
  BY <1>1 DEF vars
<1>2. ASSUME NEW g \in Graphs,
             BeginCapture(g) \/ TmpAlloc(g) \/ OnGraphDestroy(g) \/ DestroyGraph(g)
      PROVE  QuietStep
  BY <1>2 DEF BeginCapture, TmpAlloc, OnGraphDestroy, DestroyGraph, IndInv, TypeOK
<1>3. ASSUME NEW g \in Graphs,
             EndCapture(g) \/ EndFailsEarly(g) \/ EndFailsRetained(g) \/ EndFailsLate(g)
      PROVE  QuietStep
  <2>1. /\ status[g] = "capturing"
        /\ status' = [status EXCEPT ![g] = status'[g]]
    BY <1>3 DEF EndCapture, EndFailsEarly, EndFailsRetained, EndFailsLate, Captures,
                IndInv, TypeOK
  <2>2. \A h \in Graphs \ {g} : status'[h] = status[h]
    BY <2>1 DEF IndInv, TypeOK
  <2>3. \A p \in Ptrs : cells'[p].mem = cells[p].mem
    <3>1. ASSUME NEW p \in Ptrs, cells'[p] = [cells[p] EXCEPT !.graph_destroyed = TRUE]
          PROVE  cells'[p].mem = cells[p].mem
      BY <3>1 DEF IndInv, TypeOK, Cells
    <3>2. CASE UNCHANGED cells
      BY <3>2
    <3>3. CASE Unreference(g)
      BY <3>1, <3>3 DEF Unreference
    <3>4. QED
      BY <1>3, <3>2, <3>3 DEF EndCapture, EndFailsEarly, EndFailsRetained, EndFailsLate
  <2>4. QED
    BY <2>1, <2>2, <2>3
<1>4. ASSUME NEW g \in Graphs, Launch(g) PROVE QuietStep
  <2>1. ASSUME NEW p \in Ptrs PROVE cells'[p] = cells[p] \/ cells'[p].mem = "mapped"
    BY <1>4 DEF Launch, IndInv, TypeOK, Cells
  <2>2. QED
    BY <1>4, <2>1 DEF Launch
<1>5. ASSUME NEW p \in Ptrs, Alloc(p) \/ \E g \in Graphs : AllocCaptured(p, g)
      PROVE  QuietStep
  <2>1. UNCHANGED status /\ cells' = [cells EXCEPT ![p] = cells'[p]]
    BY <1>5 DEF Alloc, AllocCaptured, IndInv, TypeOK
  <2>2. cells'[p].mem \in {"mapped", "virtual"}
    BY <1>5 DEF Alloc, AllocCaptured, Cell, IndInv, TypeOK, Cells
  <2>3. QED
    BY <2>1, <2>2 DEF IndInv, TypeOK
<1>6. ASSUME NEW p \in Ptrs, Release(p) PROVE QuietStep
  <2> DEFINE b == [FreeAsync(cells[p]) EXCEPT !.held = FALSE]
  <2>1. UNCHANGED status /\ cells' = [cells EXCEPT ![p] = b]
    BY <1>6 DEF Release
  <2>2. cells[p] \in Cells /\ CellOK(cells[p]) /\ cells[p].held
    BY <1>6 DEF Release, IndInv, TypeOK, AllocsOK
  <2>3. b.mem = "freed" => cells[p].mem = "freed"
    BY <2>2, ReleaseCell
  <2> HIDE DEF b
  <2>4. QED
    BY <2>1, <2>3 DEF IndInv, TypeOK
<1>7. ASSUME FreeDeferred \/ \E c \in Contexts : Synchronize(c) PROVE QuietStep
  BY <1>7 DEF FreeDeferred, Synchronize
<1>8. ASSUME ProcessCallbacks PROVE QuietStep
  <2>1. ASSUME NEW g \in Graphs, status[g] \in {"ready", "deferred"}
        PROVE  status'[g] = status[g]
    BY <1>8, <2>1 DEF ProcessCallbacks, Reported
  <2>2. ASSUME NEW p \in Ptrs PROVE cells'[p].mem = cells[p].mem
    <3>1. CASE cells'[p] = cells[p]
      BY <3>1
    <3>2. CASE cells'[p] = GraphGone(cells[p]) /\ \E g \in Reported : p \in unfreed[g]
      <4>1. PICK g \in Reported : p \in unfreed[g]
        BY <3>2
      <4>2. g \in Graphs /\ g \notin Captures
        BY DEF Reported, Captures
      <4>3. cells[p] \in Cells /\ CellOK(cells[p])
        BY DEF IndInv, TypeOK, AllocsOK
      <4>4. HasInfo(cells[p]) => cells[p].capture_id \cap Captures = {}
        BY <4>1, <4>2 DEF IndInv, UnfreedOK
      <4>5. QED
        BY <3>2, <4>3, <4>4, GoneCell
    <3>3. QED
      BY <1>8, <3>1, <3>2 DEF ProcessCallbacks
  <2>3. QED
    BY <2>1, <2>2
<1>9. QED
  BY <1>1, <1>2, <1>3, <1>4, <1>5, <1>6, <1>7, <1>8 DEF Next

\* The deferral is complete: no release path frees memory or destroys a graph
\* while any capture is open on any device.
THEOREM DeferralComplete == Spec => NothingFreedWhileCapturing
<1>1. IndInv /\ [Next]_vars => [QuietStep]_vars
  BY EveryStepQuiet
<1>2. Spec => [][QuietStep]_vars
  BY <1>1, OwnershipInductive, PTL DEF Spec
<1>3. QED
  BY <1>2 DEF NothingFreedWhileCapturing, QuietStep
=============================================================================

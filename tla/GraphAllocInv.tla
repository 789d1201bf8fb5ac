---------------------------- MODULE GraphAllocInv ----------------------------
(***************************************************************************)
(* The inductive invariant of GraphAlloc: who owns an allocation at every  *)
(* moment of the life of its graph.                                        *)
(***************************************************************************)
EXTENDS GraphAlloc

\* An allocation has at most one owner of each kind, and memory while it has one.
CellOK(a) ==
  /\ a.mem # "double"
  /\ a.held \/ a.queued \/ HasInfo(a) => a.mem \in {"virtual", "mapped"}
  /\ a.queued => ~a.held /\ ~HasInfo(a)
  /\ a.ref_exists <=> HasInfo(a) /\ a.held
  /\ a.graph_destroyed => a.ref_exists

\* The entry of an allocation made in capture g.
EntryOK(p, g) ==
  LET a == cells[p] IN
  /\ a.capture_id = {g}
  /\ status[g] = "capturing" => a.ref_exists /\ ~a.graph_destroyed
  /\ status[g] \in {"ready", "deferred"} => ~a.graph_destroyed
  /\ status[g] \in {"ready", "deferred", "destroyed", "reported"} => p \in unfreed[g]
  /\ status[g] = "gone" => a.graph_destroyed
  /\ status[g] # "unused"

AllocsOK ==
  \A p \in Ptrs :
    /\ CellOK(cells[p])
    /\ \A g \in cells[p].capture_id : EntryOK(p, g)

\* A live graph's allocations keep their entries, and none is known to two graphs.
UnfreedOK ==
  \A g \in Graphs :
    /\ status[g] \in {"unused", "capturing"} => unfreed[g] = {}
    /\ \A p \in unfreed[g] :
         /\ cells[p].mem # "none"
         /\ HasInfo(cells[p]) => cells[p].capture_id = {g}
         /\ status[g] \in {"ready", "deferred"} => HasInfo(cells[p])

\* The inductive invariant.
IndInv == TypeOK /\ AllocsOK /\ UnfreedOK
=============================================================================

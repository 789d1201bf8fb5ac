------------------------------ MODULE GraphAlloc ------------------------------
(***************************************************************************)
(* Ownership of device memory around graph captures (warp.cu).  Memory     *)
(* allocated while a stream is capturing belongs both to the graph and to  *)
(* the user's array; memory released while any capture is open, and graphs *)
(* destroyed then, have to wait.  The driver reports on a thread of its    *)
(* own, at some later time, that a graph is gone; the report is processed  *)
(* at the next synchronisation.                                            *)
(*                                                                         *)
(* A capture and the graph made of it share one identifier.  The driver is *)
(* assumed not to hand out an address twice, so an allocation is a Ptr.    *)
(* Host calls are serialised.  The order of frees on the device is left    *)
(* out.                                                                    *)
(***************************************************************************)
EXTENDS FiniteSets

CONSTANTS
  Graphs,     (* captures and their graphs                                 *)
  Ptrs,       (* allocations                                               *)
  Contexts,   (* one per device                                            *)
  GraphCtx,   (* context of a graph                                        *)
  PtrCtx,     (* context of an allocation                                  *)
  External    (* captures begun and ended outside Warp                     *)

ASSUME ContextAssumption ==
  GraphCtx \in [Graphs -> Contexts] /\ PtrCtx \in [Ptrs -> Contexts]
ASSUME ExternalAssumption == External \subseteq Graphs

VARIABLES
  status,    (* life of a graph, see Statuses                              *)
  unfreed,   (* GraphDestroyCallbackInfo.unfreed_allocs                    *)
  tmp,       (* its tmp_allocs: "none", "held", "freed" or "lost"          *)
  cells,     (* what is known of an allocation, see Cells                  *)
  stage,     (* of run_deferred_actions: "idle", "free" or "callbacks"     *)
  running    (* contexts it runs for                                       *)

vars == <<status, unfreed, tmp, cells, stage, running>>

\* A "deferred" graph is in g_deferred_graph_list; a "destroyed" one has been
\* given back to the driver, a "reported" one is in g_deferred_graph_destroy_list.
Statuses == {"unused", "capturing", "ready", "deferred", "destroyed", "reported", "gone"}

\* g_captures
Captures == {g \in Graphs : status[g] = "capturing"}

(***************************************************************************)
(* What is known of an allocation.  mem: "virtual" memory is mapped by the *)
(* first launch of its graph, "node" memory is released by the graph       *)
(* itself.  capture_id, ref_exists and graph_destroyed are its entry in    *)
(* g_graph_allocs; it has none if capture_id is empty.  queued: it is in   *)
(* g_deferred_free_list.  held: the user's array is alive.                 *)
(***************************************************************************)
Cells == [mem : {"none", "virtual", "mapped", "node", "freed"},
          capture_id : SUBSET Graphs, ref_exists : BOOLEAN, graph_destroyed : BOOLEAN,
          queued : BOOLEAN, held : BOOLEAN]

Cell(mem, id, ref) ==
  [mem |-> mem, capture_id |-> id, ref_exists |-> ref, graph_destroyed |-> FALSE,
   queued |-> FALSE, held |-> ref]

HasInfo(a) == a.capture_id # {}

\* g_graph_allocs.erase
Erase(a) ==
  [a EXCEPT !.capture_id = {}, !.ref_exists = FALSE, !.graph_destroyed = FALSE]

Init ==
  /\ status = [g \in Graphs |-> "unused"]
  /\ unfreed = [g \in Graphs |-> {}]
  /\ tmp = [g \in Graphs |-> "none"]
  /\ cells = [p \in Ptrs |-> Cell("none", {}, FALSE)]
  /\ stage = "idle" /\ running = {}

Idle == stage = "idle"

\* run_deferred_actions is entered, for the contexts C.
RunDeferred(C) == stage' = "free" /\ running' = C
-----------------------------------------------------------------------------
(* Freeing one allocation: operators on its cell.                          *)

\* cudaFreeAsync or cudaFree. Memory that was never mapped is refused, which the
\* code ignores.
DriverFree(a) ==
  [a EXCEPT !.mem = IF @ \in {"virtual", "mapped"} THEN "freed" ELSE "double"]

\* deferred_free
Queue(a) ==
  IF a.queued THEN [a EXCEPT !.mem = "double"] ELSE [a EXCEPT !.queued = TRUE]

FreeOrDefer(a) == IF Captures = {} THEN DriverFree(a) ELSE Queue(a)

\* Mutant: a graph that still exists is not distinguished.
BugFreeAsync(a) ==
  IF HasInfo(a) THEN Erase(FreeOrDefer(a)) ELSE FreeOrDefer(a)

\* wp_free_device_async
FreeAsync(a) ==
  CASE ~HasInfo(a) -> FreeOrDefer(a)
    [] a.capture_id \cap Captures # {} -> Erase([a EXCEPT !.mem = "node"])
    [] a.capture_id \cap Captures = {} /\ a.graph_destroyed
         -> Erase(FreeOrDefer(a))
    [] OTHER -> [a EXCEPT !.ref_exists = FALSE]

\* Mutant: the graph's memory is freed although the user's array is alive.
BugGraphGone(a) ==
  IF HasInfo(a) THEN Erase(DriverFree(a)) ELSE a

\* process_deferred_graph_destroy_callbacks, for one unfreed allocation.
GraphGone(a) ==
  CASE ~HasInfo(a) -> a
    [] a.ref_exists -> [a EXCEPT !.graph_destroyed = TRUE]
    [] OTHER -> Erase(FreeAsync(a))

-----------------------------------------------------------------------------
(* Captures.                                                               *)

BeginCapture(g) ==
  /\ Idle /\ status[g] = "unused"
  /\ status' = [status EXCEPT ![g] = "capturing"]
  /\ UNCHANGED <<unfreed, tmp, cells, stage, running>>

\* An allocation on a stream that is not capturing.
Alloc(p) ==
  /\ Idle /\ cells[p].mem = "none"
  /\ cells' = [cells EXCEPT ![p].mem = "mapped", ![p].held = TRUE]
  /\ UNCHANGED <<status, unfreed, tmp, stage, running>>

\* An allocation on the stream of capture g.
AllocCaptured(p, g) ==
  /\ Idle /\ cells[p].mem = "none" /\ g \in Captures /\ PtrCtx[p] = GraphCtx[g]
  /\ cells' = [cells EXCEPT ![p] = Cell("virtual", {g}, TRUE)]
  /\ UNCHANGED <<status, unfreed, tmp, stage, running>>

\* capturable_tmp_alloc: the staged value is owned by the graph.
TmpAlloc(g) ==
  /\ Idle /\ g \in Captures
  /\ tmp' = [tmp EXCEPT ![g] = "held"]
  /\ UNCHANGED <<status, unfreed, cells, stage, running>>

\* The user's array goes out of scope.
Release(p) ==
  /\ Idle /\ cells[p].held
  /\ cells' = [cells EXCEPT ![p] = [FreeAsync(cells[p]) EXCEPT !.held = FALSE]]
  /\ UNCHANGED <<status, unfreed, tmp, stage, running>>

AllocsOf(g) == {p \in Ptrs : g \in cells[p].capture_id}

\* The driver keeps a user object only if there is something to release.
Notifies(g) == unfreed'[g] # {} \/ tmp[g] = "held"

Discarded(g) == IF Notifies(g) THEN "destroyed" ELSE "gone"

\* Mutant: memory the graph does not free is forgotten.
BugEndCapture(g) ==
  /\ Idle /\ g \in Captures
  /\ UNCHANGED unfreed
  /\ status' = [status EXCEPT ![g] = "ready"]
  /\ IF Captures = {g} /\ g \notin External
     THEN RunDeferred(Contexts)
     ELSE UNCHANGED <<stage, running>>
  /\ UNCHANGED <<tmp, cells>>

\* wp_cuda_graph_end_capture. Of an external capture Warp sees only the end; the
\* end of the last capture runs everybody's deferred actions.
EndCapture(g) ==
  /\ Idle /\ g \in Captures
  /\ unfreed' = [unfreed EXCEPT ![g] = AllocsOf(g)]
  /\ status' = [status EXCEPT ![g] = "ready"]
  /\ IF Captures = {g} /\ g \notin External
     THEN RunDeferred(Contexts)
     ELSE UNCHANGED <<stage, running>>
  /\ UNCHANGED <<tmp, cells>>

\* clean_up
Unreference(g) ==
  cells' = [p \in Ptrs |-> IF p \in AllocsOf(g)
                           THEN [cells[p] EXCEPT !.graph_destroyed = TRUE]
                           ELSE cells[p]]

\* No graph comes out of the capture: found before the user object is made, ...
EndFailsEarly(g) ==
  /\ Idle /\ g \in Captures
  /\ Unreference(g)
  /\ tmp' = [tmp EXCEPT ![g] = IF @ = "held" THEN "lost" ELSE @]
  /\ status' = [status EXCEPT ![g] = "gone"]
  /\ UNCHANGED <<unfreed, stage, running>>

\* ... after the graph has taken it, ...
EndFailsRetained(g) ==
  /\ Idle /\ g \in Captures
  /\ unfreed' = [unfreed EXCEPT ![g] = AllocsOf(g)]
  /\ Notifies(g)
  /\ Unreference(g)
  /\ status' = [status EXCEPT ![g] = "destroyed"]
  /\ UNCHANGED <<tmp, stage, running>>

\* ... or by the final cudaStreamEndCapture, which is not followed by clean_up.
EndFailsLate(g) ==
  /\ Idle /\ g \in Captures \ External
  /\ unfreed' = [unfreed EXCEPT ![g] = AllocsOf(g)]
  /\ status' = [status EXCEPT ![g] = Discarded(g)]
  /\ UNCHANGED <<tmp, cells, stage, running>>

-----------------------------------------------------------------------------
(* Graphs.                                                                 *)

\* Every launch maps the memory that the graph allocates and does not free.
Launch(g) ==
  /\ Idle /\ status[g] = "ready"
  /\ cells' = [p \in Ptrs |-> IF p \in unfreed[g] /\ cells[p].mem = "virtual"
                              THEN [cells[p] EXCEPT !.mem = "mapped"]
                              ELSE cells[p]]
  /\ UNCHANGED <<status, unfreed, tmp, stage, running>>

\* Mutant: the driver is asked to destroy a graph while a capture is open.
BugDestroyGraph(g) ==
  /\ Idle /\ status[g] = "ready"
  /\ UNCHANGED <<unfreed, tmp, cells, stage, running>>
  /\ status' = [status EXCEPT ![g] = Discarded(g)]

\* The last reference to the Graph object goes away. Whoever made an external
\* graph destroys it himself.
DestroyGraph(g) ==
  /\ Idle /\ status[g] = "ready"
  /\ UNCHANGED <<unfreed, tmp, cells, stage, running>>
  /\ status' = [status EXCEPT ![g] =
                  IF Captures = {} \/ g \in External THEN Discarded(g) ELSE "deferred"]

\* on_graph_destroy, on the driver's thread: also between the two halves below.
OnGraphDestroy(g) ==
  /\ status[g] = "destroyed"
  /\ status' = [status EXCEPT ![g] = "reported"]
  /\ UNCHANGED <<unfreed, tmp, cells, stage, running>>

-----------------------------------------------------------------------------
(* run_deferred_actions.                                                   *)

\* wp_cuda_context_synchronize; Python refuses on a device that is capturing.
Synchronize(c) ==
  /\ Idle /\ \A g \in Captures : GraphCtx[g] # c
  /\ RunDeferred({c})
  /\ UNCHANGED <<status, unfreed, tmp, cells>>

Flush(a) == [DriverFree(a) EXCEPT !.queued = FALSE]

\* free_deferred_allocs and destroy_deferred_graphs, followed by
\* process_deferred_graph_destroy_callbacks, which takes the lock: a report
\* still finds its way in before it, so the halves are two steps.
FreeDeferred ==
  /\ stage = "free" /\ stage' = "callbacks"
  /\ UNCHANGED <<unfreed, tmp, running>>
  /\ IF Captures = {}
     THEN /\ cells' = [p \in Ptrs |-> IF cells[p].queued /\ PtrCtx[p] \in running
                                      THEN Flush(cells[p])
                                      ELSE cells[p]]
          /\ status' = [g \in Graphs |-> IF status[g] = "deferred" /\ GraphCtx[g] \in running
                                         THEN Discarded(g)
                                         ELSE status[g]]
     ELSE UNCHANGED <<cells, status>>

Reported == {g \in Graphs : status[g] = "reported" /\ GraphCtx[g] \in running}

ProcessCallbacks ==
  /\ stage = "callbacks" /\ stage' = "idle"
  /\ cells' = [p \in Ptrs |-> IF \E g \in Reported : p \in unfreed[g]
                              THEN GraphGone(cells[p])
                              ELSE cells[p]]
  /\ tmp' = [g \in Graphs |-> IF g \in Reported /\ tmp[g] = "held" THEN "freed" ELSE tmp[g]]
  /\ status' = [g \in Graphs |-> IF g \in Reported THEN "gone" ELSE status[g]]
  /\ running' = {}
  /\ UNCHANGED unfreed

-----------------------------------------------------------------------------
Next ==
  \/ \E g \in Graphs :
       \/ BeginCapture(g)
       \/ TmpAlloc(g)
       \/ EndCapture(g)
       \/ EndFailsEarly(g)
       \/ EndFailsRetained(g)
       \/ EndFailsLate(g)
       \/ Launch(g)
       \/ DestroyGraph(g)
       \/ OnGraphDestroy(g)
       \/ \E p \in Ptrs : AllocCaptured(p, g)
  \/ \E p \in Ptrs : Alloc(p) \/ Release(p)
  \/ \E c \in Contexts : Synchronize(c)
  \/ FreeDeferred
  \/ ProcessCallbacks

Spec == Init /\ [][Next]_vars
-----------------------------------------------------------------------------
(* Properties.                                                             *)

\* Types; no cell holds "double", the mark of a second free.
TypeOK ==
  /\ status \in [Graphs -> Statuses]
  /\ unfreed \in [Graphs -> SUBSET Ptrs]
  /\ tmp \in [Graphs -> {"none", "held", "freed", "lost"}]
  /\ cells \in [Ptrs -> Cells]
  /\ stage \in {"idle", "free", "callbacks"} /\ running \subseteq Contexts

Backed(p) == cells[p].mem \in {"virtual", "mapped"}

\* "The user reference must remain valid even if the graph is destroyed": whatever
\* captures open, fail and end, and however late the driver reports, the memory of
\* an array that is alive is never given back, and no memory is given back twice.
HeldIsBacked ==
  \A p \in Ptrs : cells[p].mem # "double" /\ (cells[p].held => Backed(p))

\* The graph maps its memory on each launch "even if the user reference is
\* released": a graph that may still be launched finds all of it.
GraphIsBacked ==
  \A g \in Graphs : status[g] \in {"ready", "deferred"}
    => \A p \in unfreed[g] : Backed(p)

\* A pointer in the deferred list belongs to nobody, so whoever drains the list
\* later can free it blindly.
QueuedIsUnowned ==
  \A p \in Ptrs : cells[p].queued => Backed(p) /\ ~cells[p].held /\ ~HasInfo(cells[p])

\* Memory left to its graph by the user is known to that graph, and the driver's
\* report that will release it is still to come.
ReportToCome ==
  \A p \in Ptrs : HasInfo(cells[p]) /\ ~cells[p].ref_exists
    => \E g \in cells[p].capture_id :
         p \in unfreed[g] /\ status[g] \in {"ready", "deferred", "destroyed", "reported"}

\* While a capture is open the driver is asked to free nothing and to destroy no
\* graph, on any device, by any caller: both would invalidate the capture.
NothingFreedWhileCapturing ==
  [][Captures # {} =>
       /\ \A p \in Ptrs : cells'[p].mem = "freed" => cells[p].mem = "freed"
       /\ \A g \in Graphs \ External :
            status[g] \in {"ready", "deferred"} => status'[g] \in {"ready", "deferred"}]_vars
=============================================================================

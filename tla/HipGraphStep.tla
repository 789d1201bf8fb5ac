---------------------------- MODULE HipGraphStep ----------------------------
(***************************************************************************)
(* mjwarp.step on a HIP device with WP_HIP_GRAPH_ENABLE=1 (forward.py).    *)
(* A call warms up, or records one graph per iteration budget ("tier"), or *)
(* replays one of them.  The caller may change the workload, the solver    *)
(* options and the arrays of d between calls, or call step inside a        *)
(* capture of his own; recording may fail at any point.                    *)
(*                                                                         *)
(* What a timestep computes is abstracted to d.solver_niter: the most      *)
(* iterations a world performed, which is what it needs unless the limit   *)
(* cuts it off (SolverLoop, ResultExact).  The scratch arrays are left     *)
(* out: every kernel sequence that reads one zeroes it first.              *)
(***************************************************************************)
EXTENDS Integers, FiniteSetsExt

CONSTANTS
  Tiers,      (* _HIP_GRAPH_ITER_SEQUENCE                                  *)
  Needs,      (* iterations the workload may need to converge              *)
  UserIters,  (* values the caller gives m.opt.iterations                  *)
  EnvIters,   (* values of MJW_HIP_GRAPH_ITERS, 0 when it is not set       *)
  Monitor,    (* MJW_HIP_GRAPH_MONITOR                                     *)
  Bufs,       (* arrays of d whose addresses the graphs hold               *)
  Watched,    (* the one of them whose address step remembers              *)
  MaxMoves    (* bound: reallocations of one array by the caller           *)

ASSUME TiersAssumption == Tiers \subseteq Nat \ {0} /\ 1 \in Tiers
\* The order of the naturals on a finite set.
ASSUME TiersOrdered ==
  \A S \in SUBSET Tiers : S # {} => /\ \E k \in S : \A j \in S : k <= j
                                   /\ \E k \in S : \A j \in S : k >= j
ASSUME WorkloadAssumption == Needs \subseteq Nat \ {0} /\ UserIters \subseteq Nat
                             /\ EnvIters \subseteq Nat
ASSUME MonitorAssumption == Monitor \in Nat \ {0}
ASSUME BufsAssumption == Watched \in Bufs /\ MaxMoves \in Nat

VARIABLES
  \* The caller's side.
  use_graph,    (* WP_HIP_GRAPH_ENABLE=1, no callback and not RK4          *)
  polls,        (* an eager solve waits for the device (no emulation)      *)
  env_iters,    (* MJW_HIP_GRAPH_ITERS                                     *)
  userIters,    (* what the caller last assigned to m.opt.iterations       *)
  need,         (* iterations the current state needs                      *)
  ptr,          (* address of each array                                   *)
  callerMempool,(* mempool setting before the first call                   *)
  \* The attributes of m, d and the device.
  iterations,   (* m.opt.iterations                                        *)
  warmup_count, (* d._hip_step_warmup_count                                *)
  graphs,       (* d._hip_graphs is not None                               *)
  capturing,    (* d._hip_graph_capturing                                  *)
  auto_iters,   (* d._hip_graph_auto_iters                                 *)
  step_count,   (* d._hip_graph_step_count, modulo Monitor                 *)
  fingerprint,  (* d._hip_graph_scratch_ptr                                *)
  graphPtr,     (* addresses recorded in the graphs                        *)
  mempool,      (* the device's stream-ordered allocator is enabled        *)
  stream,       (* who is recording on it: "none", "caller" or "step"      *)
  solver_niter, (* maximum over the worlds of d.solver_niter               *)
  \* The call in progress.
  pc,           (* "idle", "capture" (between two graphs) or "record"      *)
  captured,     (* tiers in the local dict of graphs                       *)
  orig_iters,   (* _orig_iters                                             *)
  prev_mempool, (* _prev_mempool                                           *)
  \* History, read by the properties only.
  outcome,      (* how the last call ended: "none", "returned", "raised"   *)
  advanced,     (* timesteps executed by the call                          *)
  calib,        (* the convergence measured when the graphs were built     *)
  niterNeed     (* need of the timestep that wrote solver_niter            *)

callerVars == <<use_graph, polls, env_iters, userIters, need, ptr, callerMempool>>
solveVars == <<solver_niter, niterNeed>>
budgetVars == <<auto_iters, step_count, calib>>
recordVars == <<graphs, graphPtr, fingerprint>>
localVars == <<captured, orig_iters, prev_mempool>>
vars == <<callerVars, solveVars, budgetVars, recordVars, localVars, iterations,
          warmup_count, capturing, mempool, stream, pc, outcome, advanced>>

Init ==
  /\ use_graph \in BOOLEAN /\ polls \in BOOLEAN
  /\ env_iters \in EnvIters
  /\ userIters \in UserIters /\ iterations = userIters /\ orig_iters = userIters
  /\ need \in Needs
  /\ ptr = [b \in Bufs |-> 0] /\ graphPtr = ptr /\ fingerprint = 0
  /\ mempool \in BOOLEAN /\ callerMempool = mempool /\ prev_mempool = mempool
  /\ warmup_count = 0 /\ graphs = FALSE /\ captured = {}
  /\ capturing = FALSE /\ stream = "none"
  /\ auto_iters = 1 /\ step_count = 0 /\ calib = 0
  /\ solver_niter = 0 /\ niterNeed = 0
  /\ pc = "idle" /\ outcome = "none" /\ advanced = 0

-----------------------------------------------------------------------------
(* One timestep.                                                           *)

Lesser(a, b) == IF a <= b THEN a ELSE b

\* n timesteps in a row, the last one limited to lim iterations, after those
\* the call has executed already. On a recording stream they are recorded only.
Timesteps(n, lim, already) ==
  IF stream' = "none"
  THEN /\ advanced' = already + n
       /\ solver_niter' = Lesser(need, lim)
       /\ niterNeed' = need
  ELSE advanced' = already /\ UNCHANGED solveVars

\* The solver's poll synchronises the stream, which a recording one refuses.
Raises == stream' # "none" /\ polls /\ ~capturing'

\* _step_body outside a build, and the end of the call.
StepBody(already) ==
  /\ outcome' = IF Raises THEN "raised" ELSE "returned"
  /\ Timesteps(1, iterations', already)
  /\ pc' = "idle"

-----------------------------------------------------------------------------
(* The phases of step.                                                     *)

EagerStep ==
  /\ pc = "idle" /\ ~use_graph
  /\ UNCHANGED <<stream, iterations, capturing>>
  /\ StepBody(0)
  /\ UNCHANGED <<callerVars, budgetVars, recordVars, localVars, warmup_count,
                 mempool>>

NeedsWarmUp == warmup_count < 2

\* Phase 1.
WarmUp ==
  /\ pc = "idle" /\ use_graph /\ NeedsWarmUp
  /\ UNCHANGED <<stream, iterations, capturing>>
  /\ StepBody(0)
  /\ warmup_count' = IF Raises THEN warmup_count ELSE warmup_count + 1
  /\ UNCHANGED <<callerVars, budgetVars, recordVars, localVars, mempool>>

\* Mutant: the budget is the convergence rounded down with the headroom removed.
BugCalibrated(conv) == Max({1, (3 * conv) \div 4})

\* int(conv * 1.25 + 0.5), at least 1.
Calibrated(conv) == Max({1, (5 * conv + 2) \div 4})

NeedsBuild == pc = "idle" /\ use_graph /\ ~NeedsWarmUp /\ ~graphs

\* Phase 2 up to the capture loop: two warmup steps measure the convergence.
StartBuild ==
  /\ NeedsBuild /\ stream = "none"
  /\ UNCHANGED <<stream, iterations, capturing>>
  /\ Timesteps(2, iterations, 0)
  /\ calib' = solver_niter'
  /\ auto_iters' = Calibrated(solver_niter')
  /\ step_count' = 0
  /\ prev_mempool' = mempool /\ mempool' = TRUE
  /\ orig_iters' = iterations
  /\ captured' = {}
  /\ pc' = "capture"
  /\ UNCHANGED <<callerVars, recordVars, warmup_count, outcome>>

\* Phase 2 inside somebody's capture: synchronize_device raises.
BuildRefused ==
  /\ NeedsBuild /\ stream # "none"
  /\ outcome' = "raised" /\ advanced' = 0
  /\ UNCHANGED <<callerVars, solveVars, budgetVars, recordVars, localVars,
                 iterations, warmup_count, capturing, mempool, stream, pc>>

Remaining == Tiers \ captured

CaptureBegin ==
  /\ pc = "capture" /\ Remaining # {}
  /\ iterations' = Min(Remaining)
  /\ capturing' = TRUE
  /\ stream' = "step"
  /\ pc' = "record"
  /\ UNCHANGED <<callerVars, solveVars, budgetVars, recordVars, localVars,
                 warmup_count, mempool, outcome, advanced>>

CaptureEnd ==
  /\ pc = "record"
  /\ captured' = captured \cup {iterations}
  /\ capturing' = FALSE
  /\ stream' = "none"
  /\ pc' = "capture"
  /\ UNCHANGED <<callerVars, solveVars, budgetVars, recordVars, iterations,
                 warmup_count, mempool, orig_iters, prev_mempool, outcome, advanced>>

\* Mutant: m.opt.iterations keeps the tier that could not be recorded.
BugFallback(s) ==
  /\ stream' = s
  /\ capturing' = FALSE
  /\ warmup_count' = -1
  /\ UNCHANGED iterations
  /\ StepBody(advanced)
  /\ UNCHANGED <<callerVars, budgetVars, recordVars, localVars, mempool>>

\* Mutant: the step after a failed recording is taken for a recorded one.
BugFallbackFlag(s) ==
  /\ stream' = s
  /\ UNCHANGED capturing
  /\ warmup_count' = -1
  /\ iterations' = orig_iters
  /\ StepBody(advanced)
  /\ UNCHANGED <<callerVars, budgetVars, recordVars, localVars, mempool>>

\* No graph: one ordinary step, and -1 as a sentinel. The recording that an
\* exception interrupted is not ended.
Fallback(s) ==
  /\ stream' = s
  /\ capturing' = FALSE
  /\ warmup_count' = -1
  /\ iterations' = orig_iters
  /\ StepBody(advanced)
  /\ UNCHANGED <<callerVars, budgetVars, recordVars, localVars, mempool>>

\* capture_begin raises (or returns False), the step raises, capture_end raises.
BeginFails == pc = "capture" /\ Remaining # {} /\ Fallback("none")
RecordFails == pc = "record" /\ Fallback("step")
EndFails == pc = "record" /\ Fallback("none")

\* The rest of Phase 2: settings restored, ten replays of the smallest graph.
FinishBuild ==
  /\ pc = "capture" /\ Remaining = {}
  /\ iterations' = orig_iters
  /\ mempool' = prev_mempool
  /\ graphs' = TRUE /\ graphPtr' = ptr
  /\ UNCHANGED <<stream, capturing>>
  /\ Timesteps(10, 1, advanced)
  /\ fingerprint' = ptr[Watched]
  /\ outcome' = "returned"
  /\ pc' = "idle"
  /\ UNCHANGED <<callerVars, budgetVars, localVars, warmup_count>>

Ready == pc = "idle" /\ use_graph /\ ~NeedsWarmUp /\ graphs

\* Mutant: the address is compared with itself.
BugDrifted == fingerprint # fingerprint

Drifted == fingerprint # ptr[Watched]

\* The remembered array has moved: forget the graphs, start over.
Drift ==
  /\ Ready /\ Drifted
  /\ graphs' = FALSE
  /\ warmup_count' = 0
  /\ UNCHANGED <<stream, iterations, capturing>>
  /\ StepBody(0)
  /\ UNCHANGED <<callerVars, budgetVars, graphPtr, fingerprint, localVars,
                 mempool>>

Target == IF env_iters # 0 THEN env_iters ELSE auto_iters

\* The smallest tier that covers the budget, else the largest.
Selected ==
  IF \E k \in Tiers : k >= Target THEN Min({k \in Tiers : k >= Target}) ELSE Max(Tiers)

\* d.solver_niter cannot be read inside a capture.
Used == IF stream = "none" THEN solver_niter ELSE 0

\* Mutant: a solve that uses up its tier counts as converged.
BugEscalateStrict ==
  IF Used > Selected /\ Selected < Max(Tiers)
  THEN auto_iters' = Min({k \in Tiers : k > Selected})
  ELSE UNCHANGED auto_iters

Escalate ==
  IF Used >= Selected /\ Selected < Max(Tiers)
  THEN auto_iters' = Min({k \in Tiers : k > Selected})
  ELSE UNCHANGED auto_iters

\* Every Monitor steps the budget is compared with what the last step used.
MonitorBudget ==
  IF env_iters # 0
  THEN UNCHANGED <<auto_iters, step_count>>
  ELSE /\ step_count' = (step_count + 1) % Monitor
       /\ IF step_count' = 0 THEN Escalate ELSE UNCHANGED auto_iters

\* Phase 4: one replay. Inside a capture it becomes a node of that capture.
Launch ==
  /\ Ready /\ ~Drifted
  /\ MonitorBudget
  /\ UNCHANGED stream
  /\ Timesteps(1, Selected, 0)
  /\ outcome' = "returned"
  /\ UNCHANGED <<callerVars, calib, recordVars, localVars, iterations, warmup_count,
                 capturing, mempool, pc>>

-----------------------------------------------------------------------------
(* The caller between two calls.                                           *)

Settings ==
  \/ /\ \E n \in UserIters : userIters' = n /\ iterations' = n
     /\ UNCHANGED <<use_graph, need, ptr, stream>>
  \/ /\ \E n \in Needs : need' = n
     /\ UNCHANGED <<use_graph, ptr, stream, userIters, iterations>>
  \/ /\ use_graph' = ~use_graph
     /\ UNCHANGED <<need, ptr, stream, userIters, iterations>>
  \/ /\ \E b \in Bufs : ptr[b] < MaxMoves /\ ptr' = [ptr EXCEPT ![b] = @ + 1]
     /\ UNCHANGED <<use_graph, need, stream, userIters, iterations>>
  \/ /\ \/ stream = "none" /\ stream' = "caller"
        \/ stream = "caller" /\ stream' = "none"
     /\ UNCHANGED <<use_graph, need, ptr, userIters, iterations>>

Caller ==
  /\ pc = "idle"
  /\ Settings
  /\ UNCHANGED <<polls, env_iters, callerMempool, solveVars, budgetVars, recordVars,
                 localVars, warmup_count, capturing, mempool, pc, outcome,
                 advanced>>

-----------------------------------------------------------------------------
Build ==
  \/ CaptureBegin
  \/ CaptureEnd
  \/ BeginFails
  \/ RecordFails
  \/ EndFails
  \/ FinishBuild

Step ==
  \/ EagerStep
  \/ WarmUp
  \/ StartBuild
  \/ BuildRefused
  \/ Drift
  \/ Launch

Next == Step \/ Build \/ Caller

\* A call that has begun goes on; nobody is obliged to make the next one.
Spec == Init /\ [][Next]_vars /\ WF_vars(Build)

-----------------------------------------------------------------------------
(* Properties.                                                             *)

TypeOK ==
  /\ use_graph \in BOOLEAN /\ polls \in BOOLEAN /\ env_iters \in EnvIters
  /\ userIters \in UserIters /\ need \in Needs /\ ptr \in [Bufs -> 0..MaxMoves]
  /\ callerMempool \in BOOLEAN /\ mempool \in BOOLEAN /\ prev_mempool \in BOOLEAN
  /\ iterations \in UserIters \cup Tiers /\ orig_iters \in UserIters
  /\ warmup_count \in -1..2
  /\ graphs \in BOOLEAN /\ graphPtr \in [Bufs -> 0..MaxMoves] /\ fingerprint \in 0..MaxMoves
  /\ capturing \in BOOLEAN /\ stream \in {"none", "caller", "step"}
  /\ auto_iters \in Nat \ {0} /\ step_count \in 0..Monitor - 1 /\ calib \in Nat
  /\ solver_niter \in Nat /\ niterNeed \in Nat
  /\ pc \in {"idle", "capture", "record"} /\ captured \subseteq Tiers
  /\ outcome \in {"none", "returned", "raised"} /\ advanced \in Nat

\* However a call ends - warmup, failed or successful recording, replay - the
\* caller finds the iteration limit he set, although every recording overwrites it.
IterationsRestored == pc = "idle" => iterations = userIters

\* The solver is told to skip its polls exactly while step records: a poll inside
\* the recording would be illegal, a skipped one outside it would lose early exit.
FlagMatchesRecording == capturing <=> pc = "record"

\* A replay never uses a graph that was recorded before the remembered array moved.
WatchedIsLive == [][Launch => ptr[Watched] = graphPtr[Watched]]_vars

\* A replay allows at least the iterations the warmup needed, or the largest tier.
TierCoversWarmup ==
  [][Launch /\ env_iters = 0 => Selected >= calib \/ Selected = Max(Tiers)]_vars

\* If the workload stays as it is and steps keep being replayed, replays stop
\* being cut off, unless the largest tier is not enough.
BudgetCatchesUp ==
  (<>[][~Caller]_vars /\ []<><<Launch>>_vars /\ <>[](stream = "none"))
    => <>[](env_iters # 0 \/ Selected > need \/ Selected = Max(Tiers))

-----------------------------------------------------------------------------
(* What the comments say and the code does not do.                         *)

\* A comment warns that a wrong fallback would "run _step_body on an
\* already-capturing stream (illegal sync)".
NoAbandonedCapture == pc = "idle" => stream # "step"
=============================================================================

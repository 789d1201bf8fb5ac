----------------------------- MODULE SolverLoop -----------------------------
(***************************************************************************)
(* The batched constraint solver's outer loop (solver.py): the host        *)
(* enqueues kernels on an in-order device stream and decides, by one of    *)
(* five strategies, how many iterations to enqueue; the device runs one    *)
(* thread per world in every kernel and counts the worlds that are still   *)
(* solving.  A strategy may read that counter back, iterate blindly, or    *)
(* replay a recorded graph; every one must give every world the same       *)
(* number of iterations as a solve of that world alone.                    *)
(*                                                                         *)
(* The kernels of one _solver_iteration up to solve_done are one operation *)
(* "iteration": each of them is gated on ctx.done, and what they compute   *)
(* is abstracted to the number of updates applied to the world.            *)
(***************************************************************************)
EXTENDS Integers, Sequences, FiniteSets

CONSTANTS
  Worlds,     (* the worlds of the batch, one device thread each           *)
  Caps,       (* the values of m.opt.iterations                            *)
  MaxNeed,    (* bound: no world needs more iterations than this           *)
  NCheck,     (* iterations between two polls (MJW_SOLVER_NCHECK)          *)
  MaxSolves   (* bound: solves launched, eagerly or by replay              *)

ASSUME WorldsAssumption == IsFiniteSet(Worlds) /\ Worlds # {}
ASSUME CapsAssumption == Caps \subseteq Nat
ASSUME BoundsAssumption == MaxNeed \in Nat /\ NCheck \in Nat \ {0} /\ MaxSolves \in Nat

VARIABLES
  config,         (* device and option flags, fixed for the run            *)
  hpc,            (* host: "idle", "loop" or "sync" (waiting for a copy)   *)
  hcap,           (* host: iteration limit of the solve it is enqueueing   *)
  issued,         (* host: iterations enqueued in that solve               *)
  nsolving_host,  (* pinned host copy of nsolving                          *)
  graph,          (* recorded operations, empty before a capture           *)
  solves,         (* solves launched                                       *)
  stream,         (* operations enqueued and not completed, oldest first   *)
  ran,            (* threads of the oldest operation that have run         *)
  nsolving,       (* device counter of unconverged worlds                  *)
  done,           (* ctx.done                                              *)
  niter,          (* d.solver_niter                                        *)
  updates,        (* iterations whose kernels changed the world            *)
  need,           (* iterations after which the tolerance test passes      *)
  cap             (* iteration limit the world's current solve runs under  *)

hostVars == <<hpc, hcap, issued, nsolving_host, graph, solves>>
worldVars == <<done, niter, updates, need, cap>>
vars == <<config, hostVars, stream, ran, nsolving, worldVars>>

-----------------------------------------------------------------------------
(* Operations of the stream. "it" is the number of the iteration.          *)

Kinds == {"init_context", "reset_nsolving", "iteration", "solve_done", "copy", "while"}
PerWorld == {"init_context", "iteration", "solve_done"}

Op(kind, it, c) == [kind |-> kind, it |-> it, cap |-> c]

Prologue(c) == <<Op("init_context", 0, c), Op("reset_nsolving", 0, c)>>
SolverIteration(it, c) == <<Op("iteration", it, c), Op("solve_done", it, c)>>

\* The loop body recorded c times into one graph.
Unrolled(c) ==
  [i \in 1..2 * c |->
     Op(IF i % 2 = 1 THEN "iteration" ELSE "solve_done", (i + 1) \div 2, c)]

-----------------------------------------------------------------------------
(* Strategies.                                                             *)

Configs == [conditional : BOOLEAN, hip : BOOLEAN, emulated : BOOLEAN]

EagerStrategy ==
  IF config.conditional THEN "host_while" ELSE IF config.hip THEN "polled" ELSE "fixed"

\* A conditional graph on HIP exists only as an unroll.
CanCapture == config.conditional /\ config.hip => config.emulated

Recorded(c) ==
  Prologue(c) \o
    (IF config.conditional /\ ~config.hip
     THEN IF c = 0 THEN <<>> ELSE <<Op("while", 1, c)>>
     ELSE Unrolled(c))

-----------------------------------------------------------------------------
(* Before the first solve the context arrays are uninitialised.            *)
Init ==
  /\ config \in {c \in Configs : c.emulated => c.hip}
  /\ hpc = "idle" /\ hcap = 0 /\ issued = 0 /\ nsolving_host = 0
  /\ graph = <<>> /\ solves = 0
  /\ stream = <<>> /\ ran = {}
  /\ nsolving = 0
  /\ done \in [Worlds -> BOOLEAN]
  /\ niter = [w \in Worlds |-> 0]
  /\ updates = [w \in Worlds |-> 0]
  /\ need = [w \in Worlds |-> 0]
  /\ cap = [w \in Worlds |-> 0]

-----------------------------------------------------------------------------
(* Host.                                                                   *)

\* _solve up to the loop.
BeginSolve(c) ==
  /\ hpc = "idle" /\ solves < MaxSolves
  /\ stream' = stream \o Prologue(c)
  /\ hpc' = IF c = 0 THEN "idle" ELSE "loop"
  /\ hcap' = c /\ issued' = 0
  /\ solves' = solves + 1
  /\ UNCHANGED <<config, nsolving_host, graph, ran, nsolving, worldVars>>

\* for loop with no readback.
FixedIterate ==
  /\ hpc = "loop" /\ EagerStrategy = "fixed"
  /\ stream' = stream \o SolverIteration(issued + 1, hcap)
  /\ issued' = issued + 1
  /\ hpc' = IF issued + 1 = hcap THEN "idle" ELSE "loop"
  /\ UNCHANGED <<config, hcap, nsolving_host, graph, solves, ran, nsolving, worldVars>>

\* Mutant: the copy is enqueued before the iteration it should report on.
BugCopyFirst ==
  /\ hpc = "loop" /\ EagerStrategy = "polled"
  /\ issued' = issued + 1
  /\ IF (issued + 1) % NCheck = 0
     THEN /\ stream' = stream \o <<Op("copy", issued + 1, hcap)>>
                              \o SolverIteration(issued + 1, hcap)
          /\ hpc' = "sync"
     ELSE /\ stream' = stream \o SolverIteration(issued + 1, hcap)
          /\ hpc' = IF issued + 1 = hcap THEN "idle" ELSE "loop"
  /\ UNCHANGED <<config, hcap, nsolving_host, graph, solves, ran, nsolving, worldVars>>

\* HIP loop: every NCheck iterations a copy of the counter follows, and the
\* host waits for it.
PolledIterate ==
  /\ hpc = "loop" /\ EagerStrategy = "polled"
  /\ issued' = issued + 1
  /\ IF (issued + 1) % NCheck = 0
     THEN /\ stream' = stream \o SolverIteration(issued + 1, hcap)
                              \o <<Op("copy", issued + 1, hcap)>>
          /\ hpc' = "sync"
     ELSE /\ stream' = stream \o SolverIteration(issued + 1, hcap)
          /\ hpc' = IF issued + 1 = hcap THEN "idle" ELSE "loop"
  /\ UNCHANGED <<config, hcap, nsolving_host, graph, solves, ran, nsolving, worldVars>>

\* Mutant: leaves the loop although one world is still solving.
BugLeaveOneBehind ==
  /\ hpc = "sync" /\ EagerStrategy = "polled" /\ stream = <<>>
  /\ hpc' = IF nsolving_host <= 1 \/ issued = hcap THEN "idle" ELSE "loop"
  /\ UNCHANGED <<config, hcap, issued, nsolving_host, graph, solves, stream, ran,
                 nsolving, worldVars>>

PolledReadBack ==
  /\ hpc = "sync" /\ EagerStrategy = "polled" /\ stream = <<>>
  /\ hpc' = IF nsolving_host = 0 \/ issued = hcap THEN "idle" ELSE "loop"
  /\ UNCHANGED <<config, hcap, issued, nsolving_host, graph, solves, stream, ran,
                 nsolving, worldVars>>

\* capture_while without an active capture: read the condition, then maybe run
\* the body. max_iterations is not consulted.
WhileCopy ==
  /\ hpc = "loop" /\ EagerStrategy = "host_while"
  /\ stream' = Append(stream, Op("copy", issued, hcap))
  /\ hpc' = "sync"
  /\ UNCHANGED <<config, hcap, issued, nsolving_host, graph, solves, ran, nsolving,
                 worldVars>>

\* Mutant: polls the condition again without running the body.
BugPollOnly ==
  /\ hpc = "sync" /\ EagerStrategy = "host_while" /\ stream = <<>>
  /\ IF nsolving_host # 0
     THEN stream' = <<Op("copy", issued, hcap)>> /\ UNCHANGED hpc
     ELSE hpc' = "idle" /\ UNCHANGED stream
  /\ UNCHANGED <<config, hcap, issued, nsolving_host, graph, solves, ran, nsolving,
                 worldVars>>

WhileReadBack ==
  /\ hpc = "sync" /\ EagerStrategy = "host_while" /\ stream = <<>>
  /\ IF nsolving_host # 0
     THEN /\ stream' = SolverIteration(issued + 1, hcap)
          /\ issued' = issued + 1
          /\ hpc' = "loop"
     ELSE /\ hpc' = "idle"
          /\ UNCHANGED <<stream, issued>>
  /\ UNCHANGED <<config, hcap, nsolving_host, graph, solves, ran, nsolving, worldVars>>

\* _solve while the stream is recording: nothing executes.
Capture(c) ==
  /\ hpc = "idle" /\ CanCapture
  /\ graph' = Recorded(c)
  /\ UNCHANGED <<config, hpc, hcap, issued, nsolving_host, solves, stream, ran,
                 nsolving, worldVars>>

\* capture_launch. The host does not wait for the graph.
Replay ==
  /\ hpc = "idle" /\ graph # <<>> /\ solves < MaxSolves
  /\ stream' = stream \o graph
  /\ solves' = solves + 1
  /\ UNCHANGED <<config, hpc, hcap, issued, nsolving_host, graph, ran, nsolving,
                 worldVars>>

-----------------------------------------------------------------------------
(* Device: the threads of the oldest operation, in any order.              *)

Running(kind) == stream # <<>> /\ Head(stream).kind = kind

InitThread(w) ==
  /\ Running("init_context") /\ w \in Worlds \ ran
  /\ ran' = ran \cup {w}
  /\ niter' = [niter EXCEPT ![w] = 0]
  /\ done' = [done EXCEPT ![w] = FALSE]
  /\ updates' = [updates EXCEPT ![w] = 0]
  /\ \E n \in 1..MaxNeed : need' = [need EXCEPT ![w] = n]
  /\ cap' = [cap EXCEPT ![w] = Head(stream).cap]
  /\ UNCHANGED <<config, hostVars, stream, nsolving>>

\* Mutant: a kernel of the iteration is not gated on ctx.done.
BugIterationUngated(w) ==
  /\ Running("iteration") /\ w \in Worlds \ ran
  /\ ran' = ran \cup {w}
  /\ updates' = [updates EXCEPT ![w] = @ + 1]
  /\ UNCHANGED <<config, hostVars, stream, nsolving, done, niter, need, cap>>

\* Every kernel of the iteration returns at once in a world that is done.
IterationThread(w) ==
  /\ Running("iteration") /\ w \in Worlds \ ran
  /\ ran' = ran \cup {w}
  /\ updates' = [updates EXCEPT ![w] = IF done[w] THEN @ ELSE @ + 1]
  /\ UNCHANGED <<config, hostVars, stream, nsolving, done, niter, need, cap>>

\* improvement < tolerance or gradient < tolerance
Converged(w) == updates[w] >= need[w]

\* Mutant: the limit is compared with the count before the increment.
BugLimitOffByOne(w) ==
  /\ Running("solve_done") /\ w \in Worlds \ ran
  /\ ran' = ran \cup {w}
  /\ IF done[w]
     THEN UNCHANGED <<niter, done, nsolving>>
     ELSE /\ niter' = [niter EXCEPT ![w] = @ + 1]
          /\ IF Converged(w) \/ niter[w] = Head(stream).cap
             THEN done' = [done EXCEPT ![w] = TRUE] /\ nsolving' = nsolving - 1
             ELSE UNCHANGED <<done, nsolving>>
  /\ UNCHANGED <<config, hostVars, stream, updates, need, cap>>

SolveDoneThread(w) ==
  /\ Running("solve_done") /\ w \in Worlds \ ran
  /\ ran' = ran \cup {w}
  /\ IF done[w]
     THEN UNCHANGED <<niter, done, nsolving>>
     ELSE /\ niter' = [niter EXCEPT ![w] = @ + 1]
          /\ IF Converged(w) \/ niter[w] + 1 = Head(stream).cap
             THEN /\ done' = [done EXCEPT ![w] = TRUE]
                  /\ nsolving' = nsolving - 1
             ELSE UNCHANGED <<done, nsolving>>
  /\ UNCHANGED <<config, hostVars, stream, updates, need, cap>>

\* The next operation of the stream starts when all threads have finished.
Retire ==
  /\ stream # <<>> /\ Head(stream).kind \in PerWorld /\ ran = Worlds
  /\ stream' = Tail(stream)
  /\ ran' = {}
  /\ UNCHANGED <<config, hostVars, nsolving, worldVars>>

\* Mutant: the counter of the previous solve is kept.
BugNoReset ==
  /\ Running("reset_nsolving")
  /\ stream' = Tail(stream)
  /\ UNCHANGED <<config, hostVars, ran, nsolving, worldVars>>

ResetNsolving ==
  /\ Running("reset_nsolving")
  /\ nsolving' = Cardinality(Worlds)
  /\ stream' = Tail(stream)
  /\ UNCHANGED <<config, hostVars, ran, worldVars>>

CopyNsolving ==
  /\ Running("copy")
  /\ nsolving_host' = nsolving
  /\ stream' = Tail(stream)
  /\ UNCHANGED <<config, hpc, hcap, issued, graph, solves, ran, nsolving, worldVars>>

\* A native while node: test, body, test again.
WhileNode ==
  /\ Running("while")
  /\ LET h == Head(stream) IN
       stream' = IF nsolving = 0
                 THEN Tail(stream)
                 ELSE SolverIteration(h.it, h.cap) \o <<Op("while", h.it + 1, h.cap)>>
                      \o Tail(stream)
  /\ UNCHANGED <<config, hostVars, ran, nsolving, worldVars>>

-----------------------------------------------------------------------------
Host ==
  \/ FixedIterate
  \/ PolledIterate
  \/ PolledReadBack
  \/ WhileCopy
  \/ WhileReadBack

User ==
  \/ \E c \in Caps : BeginSolve(c) \/ Capture(c)
  \/ Replay

Device ==
  \/ \E w \in Worlds : InitThread(w) \/ IterationThread(w) \/ SolveDoneThread(w)
  \/ Retire
  \/ ResetNsolving
  \/ CopyNsolving
  \/ WhileNode

\* All solves the bound allows have been launched and have completed.
Finished ==
  /\ solves = MaxSolves /\ hpc = "idle" /\ stream = <<>>
  /\ UNCHANGED vars

Next == User \/ Host \/ Device \/ Finished

\* The host thread keeps running and the device keeps executing its stream;
\* nobody is obliged to call solve.
Spec == Init /\ [][Next]_vars /\ WF_vars(Host) /\ WF_vars(Device)
-----------------------------------------------------------------------------
(* Properties.                                                             *)

Ops == [kind : Kinds, it : Nat, cap : Nat]

\* Types; in particular the device counter stays between 0 and the number of
\* worlds although every thread of solve_done may decrement it.
TypeOK ==
  /\ config \in Configs
  /\ hpc \in {"idle", "loop", "sync"}
  /\ hcap \in Nat /\ issued \in Nat
  /\ nsolving_host \in 0..Cardinality(Worlds)
  /\ solves \in Nat
  /\ graph \in Seq(Ops)
  /\ stream \in Seq(Ops)
  /\ ran \subseteq Worlds
  /\ nsolving \in 0..Cardinality(Worlds)
  /\ done \in [Worlds -> BOOLEAN]
  /\ niter \in [Worlds -> Nat]
  /\ updates \in [Worlds -> Nat]
  /\ need \in [Worlds -> Nat]
  /\ cap \in [Worlds -> Nat]

Unconverged == {w \in Worlds : ~done[w]}

\* Whenever the device is past the reset of a solve, nsolving counts exactly the
\* worlds that are not done: what the host polls and the while node tests is
\* never stale, negative or left over from the previous solve.
ActiveCount ==
  (\/ stream # <<>> /\ Head(stream).kind \notin {"init_context", "reset_nsolving"}
   \/ stream = <<>> /\ hpc # "idle")
     => nsolving = Cardinality(Unconverged)

Quiescent == hpc = "idle" /\ stream = <<>>

Lesser(a, b) == IF a <= b THEN a ELSE b

\* Once the host has returned and the stream has drained, every solved world has
\* performed exactly the iterations it would perform alone, solver_niter says so,
\* and no kernel touched it afterwards: batching, polling, unrolling and replay
\* are invisible in the result.
ResultExact ==
  Quiescent =>
    \A w \in Worlds : need[w] # 0 =>
      /\ niter[w] = Lesser(need[w], cap[w])
      /\ updates[w] = niter[w]
      /\ cap[w] # 0 => done[w]

\* The HIP poll wastes less than NCheck iterations: the host goes on enqueueing
\* only if some world was still solving at the last poll.
EarlyExitWindow ==
  LET lastPoll == issued - (issued % NCheck) IN
  EagerStrategy = "polled" /\ hpc = "loop" /\ lastPoll > 0
    => \E w \in Worlds : ~done[w] \/ niter[w] > lastPoll

\* The host's while loop has no iteration limit of its own; solve_done alone
\* keeps it within m.opt.iterations.
WhileWithinCap == EagerStrategy = "host_while" => issued <= hcap

\* Every solve that is launched returns and drains.
EverySolveCompletes == ~Quiescent ~> Quiescent

\* What a world looks like to somebody who sees neither kernels nor streams.
WorldStatus ==
  [w \in Worlds |-> IF need[w] = 0 THEN "idle"
                    ELSE IF done[w] \/ cap[w] = 0 THEN "finished"
                    ELSE "running"]

\* The pipeline implements independent per-world solves: no world is restarted
\* while it still iterates, and every started world finishes.
Abstract == INSTANCE WorldSolve WITH status <- WorldStatus
ImplementsWorldSolve == Abstract!Spec
=============================================================================

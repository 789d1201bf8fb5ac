---------------------------- MODULE SolverLoopInv ----------------------------
(***************************************************************************)
(* The inductive invariant of SolverLoop.  The stream holds whole and      *)
(* partial solves one after the other; each operation determines the one   *)
(* that may follow it, the oldest one determines how far every world has   *)
(* come, and the newest one what the host has enqueued.                    *)
(***************************************************************************)
EXTENDS SolverLoop

(***************************************************************************)
(* A world that no solve is working on: never started, or with the result  *)
(* of its last solve.                                                      *)
(***************************************************************************)
Exact(w) ==
  /\ niter[w] = Lesser(need[w], cap[w])
  /\ updates[w] = niter[w]
  /\ cap[w] # 0 => done[w]

Settled(w) == need[w] # 0 => Exact(w)

\* A world at the start of a solve limited to c iterations.
Fresh(w, c) ==
  /\ ~done[w] /\ need[w] >= 1 /\ cap[w] = c
  /\ niter[w] = 0 /\ updates[w] = 0

\* A world in a solve limited to c iterations: it has its final result, or it
\* has counted n iterations and been updated u times and needs more.
InSolve(w, c, n, u) ==
  /\ need[w] >= 1 /\ cap[w] = c /\ c >= 1
  /\ IF done[w]
     THEN Exact(w)
     ELSE niter[w] = n /\ updates[w] = u /\ n < need[w] /\ n < c

-----------------------------------------------------------------------------
(* The shape of the stream.                                                *)

OpOK(o) ==
  /\ o \in Ops
  /\ o.kind \in {"init_context", "reset_nsolving"} => o.it = 0
  /\ o.kind \in {"iteration", "solve_done"} => 1 <= o.it /\ o.it <= o.cap
  /\ o.kind = "copy" => o.cap >= 1
  /\ o.kind = "while" => o.it >= 1 /\ o.cap >= 1

\* After o every world has its result.
LastOfSolve(o) ==
  \/ o.kind = "reset_nsolving" /\ o.cap = 0
  \/ o.kind = "solve_done" /\ o.it = o.cap
  \/ o.kind = "while"

Follows(a, b) ==
  \/ a.kind = "init_context" /\ b = Op("reset_nsolving", 0, a.cap)
  \/ a.kind = "iteration" /\ b = Op("solve_done", a.it, a.cap)
  \/ /\ a.kind \in {"reset_nsolving", "solve_done"}
     /\ b \in {Op("iteration", a.it + 1, a.cap), Op("copy", a.it, a.cap),
               Op("while", a.it + 1, a.cap)}
  \/ LastOfSolve(a) /\ b.kind = "init_context"

Chain(s) ==
  /\ \A i \in 1..Len(s) : OpOK(s[i])
  /\ \A i \in 1..Len(s) - 1 : Follows(s[i], s[i + 1])

\* A graph is a complete solve.
GraphOK ==
  /\ Chain(graph)
  /\ graph # <<>> => Head(graph).kind = "init_context" /\ LastOfSolve(graph[Len(graph)])

\* What the host enqueued last.
HostOK ==
  /\ hpc # "idle" => hcap >= 1 /\ issued <= hcap
  /\ hpc = "loop" /\ EagerStrategy # "host_while" => issued < hcap
  /\ EagerStrategy = "host_while" => issued <= hcap
  /\ EagerStrategy = "fixed" => hpc # "sync"
  /\ stream # <<>> =>
       LET newest == stream[Len(stream)] IN
         /\ hpc = "idle" => LastOfSolve(newest)
         /\ hpc = "loop" =>
              newest = Op(IF issued = 0 THEN "reset_nsolving" ELSE "solve_done", issued, hcap)
         /\ hpc = "sync" => newest = Op("copy", issued, hcap)

-----------------------------------------------------------------------------
(* The progress of the worlds.                                             *)

\* The progress that the oldest operation o finds, and leaves in the worlds
\* whose threads have run.
ProgressAt(o) ==
  \A w \in Worlds :
    /\ o.kind = "init_context" => IF w \in ran THEN Fresh(w, o.cap) ELSE Settled(w)
    /\ o.kind = "reset_nsolving" => Fresh(w, o.cap)
    /\ o.kind = "iteration" =>
         InSolve(w, o.cap, o.it - 1, IF w \in ran THEN o.it ELSE o.it - 1)
    /\ o.kind = "solve_done" =>
         InSolve(w, o.cap, IF w \in ran THEN o.it ELSE o.it - 1, o.it)
    /\ o.kind = "copy" => InSolve(w, o.cap, o.it, o.it)
    /\ o.kind = "while" => InSolve(w, o.cap, o.it - 1, o.it - 1)

WorldsOK ==
  /\ stream # <<>> => ProgressAt(stream[1])
  /\ stream = <<>> /\ hpc = "idle" => \A w \in Worlds : Settled(w)
  /\ stream = <<>> /\ hpc # "idle" => \A w \in Worlds : InSolve(w, hcap, issued, issued)
  /\ \A w \in Worlds : need[w] = 0 => niter[w] = 0

ThreadsOK == ran # {} => stream # <<>> /\ stream[1].kind \in PerWorld

CopyOK == stream = <<>> /\ hpc = "sync" => nsolving_host = nsolving

\* The inductive invariant: the counter is exact, the oldest operation fixes the
\* progress of every world, the newest one what the host has enqueued.
IndInv ==
  /\ TypeOK
  /\ Chain(stream)
  /\ GraphOK
  /\ HostOK
  /\ ThreadsOK
  /\ CopyOK
  /\ ActiveCount
  /\ WorldsOK

-----------------------------------------------------------------------------
(* The polls of the HIP loop.                                              *)

LastPoll == issued - (issued % NCheck)

\* Kernels enqueued after the poll at iteration p.
LateOps(p) == {o \in Ops : o.kind \in {"iteration", "solve_done"} /\ o.it > p}

\* Some world was still solving at the last poll, and what was enqueued before
\* it has left the stream.
WindowOK ==
  EagerStrategy = "polled" =>
    /\ hpc = "sync" => issued % NCheck = 0
    /\ hpc = "loop" /\ LastPoll > 0 =>
         /\ stream \in Seq(LateOps(LastPoll))
         /\ \E w \in Worlds : ~done[w] \/ niter[w] > LastPoll
=============================================================================

----------------------------- MODULE WorldSolve -----------------------------
(***************************************************************************)
(* What a batched constraint solve promises to each world, with no mention *)
(* of kernels, streams, counters or graphs: every world iterates on its    *)
(* own until its tolerance test passes or its iteration limit is reached,  *)
(* and it is never started again before that.                              *)
(***************************************************************************)
EXTENDS Integers

CONSTANTS
  Worlds,   (* the worlds of the batch                                     *)
  Caps,     (* the values m.opt.iterations may take                        *)
  MaxNeed   (* no world needs more than MaxNeed iterations to converge     *)

VARIABLES
  status,   (* "idle" before the first solve, then "running" or "finished" *)
  need,     (* iterations after which the tolerance test of w passes       *)
  cap,      (* the iteration limit of the solve w is in                    *)
  niter     (* iterations performed                                        *)

vars == <<status, need, cap, niter>>

Init ==
  /\ status = [w \in Worlds |-> "idle"]
  /\ need = [w \in Worlds |-> 0]
  /\ cap = [w \in Worlds |-> 0]
  /\ niter = [w \in Worlds |-> 0]

\* A solve with no iterations allowed is finished when it starts.
Start(w) ==
  /\ status[w] # "running"
  /\ \E n \in 1..MaxNeed, c \in Caps :
       /\ need' = [need EXCEPT ![w] = n]
       /\ cap' = [cap EXCEPT ![w] = c]
       /\ status' = [status EXCEPT ![w] = IF c = 0 THEN "finished" ELSE "running"]
  /\ niter' = [niter EXCEPT ![w] = 0]

Iterate(w) ==
  /\ status[w] = "running"
  /\ niter' = [niter EXCEPT ![w] = @ + 1]
  /\ status' = [status EXCEPT ![w] =
                  IF niter[w] + 1 \in {need[w], cap[w]} THEN "finished" ELSE "running"]
  /\ UNCHANGED <<need, cap>>

Next == \E w \in Worlds : Start(w) \/ Iterate(w)

Spec == Init /\ [][Next]_vars /\ \A w \in Worlds : WF_vars(Iterate(w))
=============================================================================

---------------------------- MODULE MCStepStreams ----------------------------
(***************************************************************************)
(* An instance of StepStreams for TLC: every device, solver and            *)
(* environment, calls of each kind in any order, solves of two iterations. *)
(***************************************************************************)
EXTENDS StepStreamsInv
=============================================================================

--------------------------- MODULE HipGraphStepInv ---------------------------
(***************************************************************************)
(* The inductive invariant of HipGraphStep: what the interrupted call has  *)
(* saved, what is recorded with which flag, and which array addresses and  *)
(* which measured convergence the graphs stand for.                        *)
(***************************************************************************)
EXTENDS HipGraphStep

\* Between two calls the limit is the caller's; within one it is saved.
ItersOK ==
  /\ pc = "idle" => iterations = userIters
  /\ pc # "idle" => orig_iters = userIters
  /\ pc = "record" => iterations \in Tiers

\* The native capture and the flag go together.
RecordingOK ==
  /\ FlagMatchesRecording
  /\ pc = "record" => stream = "step"
  /\ pc = "capture" => stream = "none"

FingerprintOK == graphs => fingerprint = graphPtr[Watched]

BudgetOK == calib <= auto_iters

\* The inductive invariant of the protocol of step.
IndInv == TypeOK /\ ItersOK /\ RecordingOK /\ FingerprintOK /\ BudgetOK
=============================================================================

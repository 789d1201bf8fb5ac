--------------------------- MODULE MCHipGraphStep ---------------------------
(***************************************************************************)
(* Instances of HipGraphStep for TLC.                                      *)
(***************************************************************************)
EXTENDS HipGraphStepInv
=============================================================================

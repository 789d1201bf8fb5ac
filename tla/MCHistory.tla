------------------------------ MODULE MCHistory ------------------------------
(* Rings of one to four samples; delays of less than a step up to a ring's   *)
(* length, between two samples or not; intervals that are no whole number of *)
(* steps; loaded samples of the past, of the future and at half steps.       *)
EXTENDS HistoryInv

Actuators ==
  {[sensor |-> FALSE, n |-> 1, delay |-> 0, interp |-> 0, period |-> 0, evals |-> 1, lists |-> 1],
   [sensor |-> FALSE, n |-> 1, delay |-> 2, interp |-> 0, period |-> 0, evals |-> 4, lists |-> 1],
   [sensor |-> FALSE, n |-> 3, delay |-> 6, interp |-> 0, period |-> 0, evals |-> 1, lists |-> 1],
   [sensor |-> FALSE, n |-> 3, delay |-> 3, interp |-> 1, period |-> 0, evals |-> 1, lists |-> 1],
   [sensor |-> FALSE, n |-> 4, delay |-> 5, interp |-> 2, period |-> 0, evals |-> 4, lists |-> 1]}

Sensors ==
  {[sensor |-> TRUE, n |-> 2, delay |-> 0, interp |-> 0, period |-> 0, evals |-> 1, lists |-> 1],
   [sensor |-> TRUE, n |-> 2, delay |-> 1, interp |-> 1, period |-> 0, evals |-> 1, lists |-> 1],
   [sensor |-> TRUE, n |-> 3, delay |-> 4, interp |-> 0, period |-> 0, evals |-> 4, lists |-> 1],
   [sensor |-> TRUE, n |-> 4, delay |-> 5, interp |-> 1, period |-> 0, evals |-> 1, lists |-> 1],
   [sensor |-> TRUE, n |-> 1, delay |-> 0, interp |-> 0, period |-> 3, evals |-> 4, lists |-> 1],
   [sensor |-> TRUE, n |-> 1, delay |-> 0, interp |-> 0, period |-> 5, evals |-> 1, lists |-> 1],
   [sensor |-> TRUE, n |-> 3, delay |-> 3, interp |-> 1, period |-> 5, evals |-> 1, lists |-> 1]}

\* Limit force sensors: without interval, due once, due twice at a time.
LimitForces ==
  {[sensor |-> TRUE, n |-> 3, delay |-> 3, interp |-> 1, period |-> 0, evals |-> 1, lists |-> 2],
   [sensor |-> TRUE, n |-> 2, delay |-> 4, interp |-> 0, period |-> 3, evals |-> 1, lists |-> 2],
   [sensor |-> TRUE, n |-> 1, delay |-> 0, interp |-> 0, period |-> 3, evals |-> 4, lists |-> 2],
   [sensor |-> TRUE, n |-> 3, delay |-> 1, interp |-> 1, period |-> 1, evals |-> 1, lists |-> 2]}

MCChannels == Actuators \cup Sensors \cup LimitForces
MCLoadedTimes ==
  {{-3}, {4}, {5}, {-2, 0}, {-3, 1}, {-6, -4, -2}, {-4, -3, 1}, {0, 1, 4}, {-6, -4, -3, -2}, {-3, 0, 1, 4}}
MCNever == -10
MCPhases == {-2, 0}
=============================================================================

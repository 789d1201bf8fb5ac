----------------------------- MODULE SampleQueue -----------------------------
(***************************************************************************)
(* What a history buffer promises: it keeps n samples in the order of      *)
(* their times.  A new sample replaces the one of its time, or else the    *)
(* oldest one makes room for it.                                           *)
(***************************************************************************)
EXTENDS Integers, Sequences

CONSTANTS Sample   (* records with the fields t and v *)

VARIABLES n, window, loaded

InOrder(w) == \A j, k \in 1..n : j < k => w[j].t <= w[k].t

\* s takes its place among the samples of w, none of which has its time.
Placed(w, s, u) ==
  \E k \in 0..Len(w) :
    /\ \A j \in 1..Len(w) : w[j].t < s.t <=> j <= k
    /\ u = SubSeq(w, 1, k) \o <<s>> \o SubSeq(w, k + 1, Len(w))

Replace(s) ==
  \E k \in 1..n :
    /\ window[k].t = s.t /\ \A j \in 1..k - 1 : window[j].t # s.t
    /\ window' = [window EXCEPT ![k] = s]

Enter(s) ==
  /\ \A k \in 1..n : window[k].t # s.t
  /\ Placed(Tail(window), s, window')

\* The program may fill the whole queue, once.
Load ==
  /\ ~ loaded /\ loaded' = TRUE
  /\ window' \in [1..n -> Sample] /\ InOrder(window')

Init == n \in Nat \ {0} /\ loaded = FALSE /\ window \in [1..n -> Sample] /\ InOrder(window)

\* The new sample is one of the queue afterwards.
Record ==
  /\ \E k \in 1..n : window'[k] \in Sample /\ (Replace(window'[k]) \/ Enter(window'[k]))
  /\ UNCHANGED loaded

Next == (Load \/ Record) /\ UNCHANGED n

Spec == Init /\ [][Next]_<<n, window, loaded>>
=============================================================================

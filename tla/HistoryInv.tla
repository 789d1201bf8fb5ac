----------------------------- MODULE HistoryInv -----------------------------
(***************************************************************************)
(* The inductive invariant of History: the order of the ring; how the ring *)
(* and the log of all samples of this run agree; what has been read since  *)
(* the time last moved on; and the pace of an interval sensor.             *)
(***************************************************************************)
EXTENDS History

\* The ring in the order of its elements.
TimesInOrder == \A j, k \in Slots : j < k => Time(j) <= Time(k)

RingInv == TypeOK /\ TimesInOrder /\ IsFiniteSet(log)

-----------------------------------------------------------------------------
(* The ring and the log.                                                   *)

Element(k) == [t |-> Time(k), v |-> Value(k)]
InRing(s) == \E k \in Slots : Element(k) = s

\* An element that has survived a reset is either older or not of this run.
Ours(k) == Value(k)[1] = run \/ Time(k) < 0

Fed(s) == s.v[3] > 0

\* Only what make_data and init_history put there has the time of its neighbour.
NoTwins ==
  \A j, k \in Slots : j < k /\ Time(j) = Time(k) =>
    \/ Value(k)[1] = 0 /\ Time(k) = 0
    \/ Time(k) = Never /\ Value(j) = Value(k)

RunsPast == \A k \in Slots : Value(k)[1] <= run

LogOnce == \A s, x \in log : s.t = x.t => s = x
Stored == \A k \in Slots : Ours(k) => Element(k) \in log

FedInTime == \A s \in log : Fed(s) => 0 <= s.t /\ s.t <= time /\ (evals = 0 => s.t < time)

\* The first sample fed may be older than all that were loaded.
Begun == Time(0) <= time \/ (\A s \in log : InRing(s)) \/ (\A s \in log : s.t < 0)

\* What the ring has lost is older than what it holds, unless an older sample
\* displaced it.
Displaced(s) ==
  ~ Fed(s) /\ \E y \in log : Fed(y) /\ \A x \in log : ~ Fed(x) => y.t < x.t
LostAreOld == \A s \in log : InRing(s) \/ s.t <= Time(0) \/ Displaced(s)

LogInv == NoTwins /\ RunsPast /\ LogOnce /\ Stored /\ FedInTime /\ Begun /\ LostAreOld

-----------------------------------------------------------------------------
(* What was read, and when the next sample is due.                         *)

\* A delayed value that reading again would yield.
Repeatable(t) ==
  channel.delay > 0 /\ channel.interp # Cubic /\ InRun /\ Covers(t) /\ \E s \in log : t <= s.t /\ s.t < time

ReadingKept ==
  \A t \in {time - channel.delay} : evals > 0 /\ Repeatable(t) => reading = Read(t)

\* user is the phase and the periods of the samples fed since.
Pace ==
  RecentPhases /\ channel.sensor /\ channel.period >= Step /\ run = 1 =>
    /\ user = phase + channel.period * Cardinality({s \in log : Fed(s)})
    /\ user <= time /\ time < user + channel.period + Step
    /\ evals > 0 => ~ Due(user)
=============================================================================

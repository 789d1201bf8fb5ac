------------------------------- MODULE History -------------------------------
(***************************************************************************)
(* The history buffer of an actuator or of a sensor in one world           *)
(* (history.py): a ring of n samples, read at a delay and filled by every  *)
(* step, and what the rest of the program does to the time and to the ring *)
(* (forward.py, sensor.py, io.py).                                         *)
(*                                                                         *)
(* Times are counted in half time steps, so that a delay may fall between  *)
(* two samples.  Times that differ differ by more than the tolerance of    *)
(* 1e-6.  A value is where it comes from: the run (a run ends with a       *)
(* reset), the time and the evaluation of forward() at that time; 0 stands *)
(* for what was loaded and Echo for what was delivered at that time and    *)
(* then stored.  What is read is the sequence of the values that the       *)
(* result depends on.                                                      *)
(***************************************************************************)
EXTENDS Integers, Sequences, FiniteSets

CONSTANTS
  Channels,    (* what the buffer may belong to: records, see Channel      *)
  LoadedTimes, (* sets of times that init_ctrl_history may be given       *)
  Phases,      (* user slots for init_sensor_history, relative to the time *)
  Never,       (* -MJ_MAXVAL                                               *)
  MaxTime, MaxExtra, MaxRuns  (* bounds: half steps, extra forward() calls, runs *)

Step == 2

Times == 0..MaxTime
ZeroOrderHold == 0
Linear == 1
Cubic == 2

\* evals: how often a step calls forward(), 1 or 4 (rungekutta4).
\* lists: how many of the lists that a stage hands to apply_sensor_delay hold
\* the sensor.  A limit force sensor is in sensor_acc_adr, whose tests are
\* joined by an or that is always true, and in sensor_limitfrc_adr.
Channel == [sensor : BOOLEAN, n : Nat \ {0}, delay : Nat, interp : ZeroOrderHold..Cubic,
            period : Nat, evals : {1, 4}, lists : {1, 2}]

ASSUME ChannelsAssumption == Channels \subseteq Channel
ASSUME TimesAssumption ==
  /\ MaxTime \in Nat /\ MaxExtra \in Nat /\ MaxRuns \in Nat \ {0}
  /\ Phases \subseteq Int /\ Never \in Int /\ Never < 0
  /\ \A s \in LoadedTimes : s \subseteq Int /\ \A t \in s : t > Never

VARIABLES
  channel,
  time, run,
  evals,      (* calls of forward() at this time                           *)
  user,       (* the first element of the buffer: time_prev of an interval *)
  cursor, times, values,
  reading,    (* what the last forward() used: ctrl or sensordata          *)
  log,        (* every sample of this run, of those with one time the last *)
  origin,     (* who filled the buffer: make_data or init_history           *)
  phase       (* the user slot at that time                                *)

buffer == <<cursor, times, values>>
vars == <<channel, time, run, evals, user, buffer, reading, log, origin, phase>>

n == channel.n
Slots == 0..n - 1

-----------------------------------------------------------------------------
(* The ring.                                                               *)

\* _history_physical_index.
Physical(k) == (cursor + 1 + k) % n
Logical(p) == (p - cursor - 1) % n

Time(k) == times[Physical(k)]
Value(k) == values[Physical(k)]

\* b holds the bounds, lo and hi.
\* Mutant: the lower half keeps its middle on the wrong side.
BugBisect(t) ==
  LET Search[b \in Slots \X Slots] ==
        LET mid == (b[1] + b[2]) \div 2
        IN IF b[2] - b[1] <= 1 THEN b[2]
           ELSE IF Time(mid) <= t THEN Search[<<mid, b[2]>>] ELSE Search[<<b[1], mid>>]
  IN Search[<<0, n - 1>>]

Bisect(t) ==
  LET Search[b \in Slots \X Slots] ==
        LET mid == (b[1] + b[2]) \div 2
        IN IF b[2] - b[1] <= 1 THEN b[2]
           ELSE IF Time(mid) < t THEN Search[<<mid, b[2]>>] ELSE Search[<<b[1], mid>>]
  IN Search[<<0, n - 1>>]

\* _history_find_index.
FindIndex(t) == IF t <= Time(0) THEN 0 ELSE IF t > Time(n - 1) THEN n ELSE Bisect(t)

\* The values of a spline between the elements i - 1 and i: a slope at an end
\* of the ring is 0.
Spline(i) ==
  (IF i > 1 THEN <<Value(i - 2)>> ELSE <<>>) \o <<Value(i - 1), Value(i)>>
  \o (IF i < n - 1 THEN <<Value(i + 1)>> ELSE <<>>)

Between(i) ==
  CASE channel.interp = ZeroOrderHold -> <<Value(i - 1)>>
    [] channel.interp = Linear -> <<Value(i - 1), Value(i)>>
    [] channel.interp = Cubic -> Spline(i)

\* _history_read_scalar and _history_read_vector.
Read(t) ==
  LET i == FindIndex(t)
  IN IF t <= Time(0) THEN <<Value(0)>>
     ELSE IF t >= Time(n - 1) THEN <<Value(n - 1)>>
     ELSE IF Time(i) = t THEN <<Value(i)>>
     ELSE Between(i)

\* Mutant: the shift for a sample out of order starts behind the oldest one.
BugMoved(f, i) == [p \in Slots |->
  IF Logical(p) \in 1..i - 2 THEN f[Physical(Logical(p) + 1)] ELSE f[p]]

\* The elements 1..i - 1 move one place towards the oldest, which is lost.
Moved(f, i) == [p \in Slots |->
  IF Logical(p) \in 0..i - 2 THEN f[Physical(Logical(p) + 1)] ELSE f[p]]

\* Mutant: the modulus is forgotten.
BugFollowing == cursor + 1

\* Mutant: the newest element is overwritten.
BugStays == cursor

Following == (cursor + 1) % n

\* Mutant: an exact match returns before the value is written.
BugPut(p, t, v) ==
  times' = [times EXCEPT ![p] = t] /\ values' = [values EXCEPT ![p] = IF times[p] = t THEN @ ELSE v]

Put(p, t, v) ==
  times' = [times EXCEPT ![p] = t] /\ values' = [values EXCEPT ![p] = v]

Found(i, t) == i < n /\ Time(i) = t

\* _history_insert_scalar and _history_insert_vector.
Insert(t, v) ==
  LET i == FindIndex(t)
      found == Found(i, t)
  IN \/ found /\ Put(Physical(i), t, v) /\ UNCHANGED cursor
     \/ ~ found /\ i = 0 /\ Put(Physical(0), t, v) /\ UNCHANGED cursor
     \/ ~ found /\ i = n /\ cursor' = Following /\ Put(Following, t, v)
     \/ /\ ~ found /\ i \in 1..n - 1 /\ UNCHANGED cursor
        /\ times' = [Moved(times, i) EXCEPT ![Physical(i - 1)] = t]
        /\ values' = [Moved(values, i) EXCEPT ![Physical(i - 1)] = v]

-----------------------------------------------------------------------------
(* The program.                                                            *)

Fresh == <<run, time, evals + 1>>
Echo == 5 + MaxExtra
Logged(t, v) == {s \in log : s.t # t} \cup {[t |-> t, v |-> v]}

\* make_data: every array is zero.
Init ==
  /\ channel \in Channels /\ time = 0 /\ run = 1 /\ evals = 0
  /\ user = 0 /\ cursor = 0
  /\ times = [p \in Slots |-> 0] /\ values = [p \in Slots |-> <<0, 0, 0>>]
  /\ reading = <<>> /\ log = {[t |-> 0, v |-> <<0, 0, 0>>]} /\ origin = "make_data" /\ phase = 0

\* init_ctrl_history and init_sensor_history, with or without times.  An
\* actuator's user slot is left as it is.
InitHistory ==
  /\ evals = 0 /\ origin = "make_data" /\ origin' = "init_history"
  /\ cursor' = n - 1
  /\ \/ times' = [p \in Slots |-> Never]
     \/ \E s \in LoadedTimes :
          /\ Cardinality(s) = n
          /\ times' \in [Slots -> s] /\ \A p, q \in Slots : p < q => times'[p] < times'[q]
  /\ values' = [p \in Slots |-> <<run, times'[p], 0>>]
  /\ user' \in IF channel.sensor THEN {time + p : p \in Phases} ELSE {user}
  /\ phase' = user'
  /\ log' = {[t |-> times'[p], v |-> values'[p]] : p \in Slots}
  /\ UNCHANGED <<channel, time, run, evals, reading>>

\* read_ctrl_delayed, called by fwd_actuation.
ReadCtrl ==
  /\ ~ channel.sensor
  /\ reading' = IF channel.delay = 0 THEN <<Fresh>> ELSE Read(time - channel.delay)
  /\ UNCHANGED <<user, buffer, log>>

\* Whether a sample is due when the user slot is u, and what is in the slot then.
Due(u) == channel.period > 0 => u + channel.period <= time

\* Mutant: the next sample is due a period after this one.
BugFollowingUser(u) == IF channel.period > 0 THEN time ELSE u

FollowingUser(u) == IF channel.period > 0 THEN u + channel.period ELSE u

\* What _apply_sensor_delay_kernel leaves in sensordata.
Delivered ==
  IF channel.delay > 0 THEN Read(time - channel.delay)
  ELSE IF ~ Due(user) THEN Read(time)
  ELSE <<Fresh>>

\* A second call takes what the first one delivered for the fresh value, and
\* stores that, if a sample is due again.
Again == channel.lists = 2 /\ Due(FollowingUser(user))
Stores == IF Again /\ Delivered # <<Fresh>> THEN <<run, time, Echo>> ELSE Fresh

\* The second call reads while the first one's fresh value is still stored.
Before(reads) ==
  [k \in DOMAIN reads |-> IF reads[k] = <<run, time, Echo>> THEN Fresh ELSE reads[k]]

\* apply_sensor_delay, once or twice: what is delivered is read before the
\* value enters, but by a second call after the first one's did.
ApplySensorDelay ==
  /\ channel.sensor
  /\ \/ ~ Due(user) /\ UNCHANGED <<user, buffer, log>>
     \/ /\ Due(user)
        /\ user' = IF Again THEN FollowingUser(FollowingUser(user)) ELSE FollowingUser(user)
        /\ Insert(time, Stores) /\ log' = Logged(time, Stores)
  /\ reading' = IF channel.lists = 2 /\ channel.delay > 0 /\ Due(user)
                THEN Before(Read(time - channel.delay)') ELSE Delivered

\* forward(), by step(), by a stage of rungekutta4 or by the user.
Forward ==
  /\ evals < channel.evals + MaxExtra /\ evals' = evals + 1
  /\ UNCHANGED <<channel, time, run, origin, phase>>
  /\ ReadCtrl \/ ApplySensorDelay

\* _advance: the ctrl of this step enters before the time moves on.
Advance ==
  /\ evals >= channel.evals /\ time + Step <= MaxTime
  /\ evals' = 0 /\ time' = time + Step
  /\ \/ ~ channel.sensor /\ Insert(time, <<run, time, 1>>) /\ log' = Logged(time, <<run, time, 1>>)
     \/ channel.sensor /\ UNCHANGED <<buffer, log>>
  /\ UNCHANGED <<channel, run, user, reading, origin, phase>>

\* reset_data does not touch the buffer.
Reset ==
  /\ run < MaxRuns /\ run' = run + 1 /\ time' = 0 /\ evals' = 0
  /\ log' = {s \in log : s.t < 0}
  /\ UNCHANGED <<channel, user, buffer, reading, origin, phase>>

Next == InitHistory \/ Forward \/ Advance \/ Reset

Spec == Init /\ [][Next]_vars

-----------------------------------------------------------------------------
(* Properties.                                                             *)

AnyTime == Times \cup {Never} \cup UNION LoadedTimes
AnyValue == (0..MaxRuns) \X AnyTime \X (0..Echo)

\* The values of the variables: a buffer keeps its n elements.
TypeOK ==
  /\ channel \in Channels /\ time \in Times /\ run \in 1..MaxRuns /\ evals \in 0..channel.evals + MaxExtra
  /\ user \in Int /\ phase \in Int /\ cursor \in Slots
  /\ times \in [Slots -> AnyTime] /\ values \in [Slots -> AnyValue]
  /\ reading \in Seq(AnyValue) /\ Len(reading) <= 4
  /\ log \subseteq [t : AnyTime, v : AnyValue]
  /\ origin \in {"make_data", "init_history"}

\* The bisection stops at the first element that is not older than the time,
\* for every time that a read or an insertion could ask for.
BisectionExact ==
  \A t \in Never..MaxTime : t > Time(0) /\ t <= Time(n - 1) =>
    Bisect(t) \in 1..n - 1 /\ Time(Bisect(t) - 1) < t /\ t <= Time(Bisect(t))

\* The ring is the queue of its n newest samples.
Window == [k \in 1..n |-> [t |-> Time(k - 1), v |-> Value(k - 1)]]
Loaded == origin = "init_history"

Queue == INSTANCE SampleQueue WITH
  n <- n,
  window <- Window,
  loaded <- Loaded,
  Sample <- [t : AnyTime, v : AnyValue]

\* A buffer does what SampleQueue says (history.py: "Convert logical index
\* (0=oldest, n-1=newest) to physical index" and the rules for an insertion).
IsQueue == Queue!Spec

\* The samples of the set that an ideal, unbounded history would use for t.
IdealRead(S, t) ==
  LET older == {s \in S : s.t <= t}
      younger == {s \in S : s.t >= t}
      before == CHOOSE s \in older : \A x \in older : x.t <= s.t
      after == CHOOSE s \in younger : \A x \in younger : s.t <= x.t
  IN IF older = {} THEN <<after.v>>
     ELSE IF younger = {} \/ channel.interp = ZeroOrderHold THEN <<before.v>>
     ELSE IF before = after THEN <<before.v>>
     ELSE <<before.v, after.v>>

\* No loaded sample has been displaced by an older one ("older than oldest:
\* replace oldest"): if any are left, one was there before those of this run.
Rooted ==
  LET loaded == {s \in log : s.v[3] = 0}
  IN loaded # {} => \E x \in loaded : \A s \in log \ loaded : x.t <= s.t

\* Every sample is of this run and none of the future.  A buffer that
\* make_data zeroed holds elements that are no samples until all are replaced.
InRun ==
  /\ \A k \in Slots : Time(k) <= time /\ (Value(k)[1] = run \/ Time(k) < 0)
  /\ Rooted

\* The sample before t is one of the n newest.
Covers(t) == \E s \in log : s.t <= t /\ Cardinality({x \in log : x.t > s.t}) < n

\* What is read contains the values of the ideal history, and nothing else
\* unless a spline needs it.
ExactDelay ==
  LET t == time - channel.delay
      ideal == IdealRead(log, t)
  IN evals' = evals + 1 /\ channel.delay > 0 /\ channel.lists = 1 /\ InRun /\ Covers(t) =>
       \E k \in 1..Len(reading') - Len(ideal) + 1 :
         /\ SubSeq(reading', k, k + Len(ideal) - 1) = ideal
         /\ channel.interp # Cubic => Len(reading') = Len(ideal)

\* A delayed control or sensor is what a history of the whole run would give
\* for time - delay, as long as nsample samples reach back that far.  It
\* does not hold for a buffer zeroed by make_data before it is full (the first
\* sample enters as the oldest one, is delivered at once and is the next to be
\* lost), nor after reset_data while samples of the run before are stored, nor
\* for a limit force sensor.
DelayedExact == [][ExactDelay]_vars

\* What is read a second time is what was read the first time.
SameAgain ==
  LET t == time - channel.delay
  IN evals' = evals + 1 /\ evals > 0 /\ channel.delay > 0 /\ channel.interp # Cubic
       /\ InRun /\ Covers(t) /\ (\E s \in log : t <= s.t /\ s.t < time)
     => reading' = reading

\* A second forward() at the same time, by rungekutta4 or by the user, gets
\* the same delayed value as the first, although the first one may have
\* inserted a sample: unless that one displaced the sample that is read (a
\* delay of n steps) or is interpolated with (a delay of less than a step).
ReevaluationStable == [][SameAgain]_vars

\* Between its times an interval sensor shows the value that it had at the
\* last of them.
IntervalHeld ==
  channel.sensor /\ channel.period > 0 /\ channel.delay = 0 /\ evals > 0 /\ InRun =>
    reading = IdealRead(log, time)

\* init_sensor_history is given the last time of a computation ("phase = last
\* computation time for interval sensors"): no more than a period ago.
RecentPhases ==
  \A p \in Phases, c \in Channels : c.sensor /\ c.period >= Step => p <= 0 /\ -p <= c.period

\* An interval sensor is sampled once for each period that has passed since
\* the phase it was given: rounding to whole steps does not add up ("advance
\* time_prev by exact period").
NoDrift ==
  RecentPhases /\ channel.sensor /\ channel.period >= Step /\ run = 1 /\ evals > 0 =>
    Cardinality({s \in log : s.v[3] > 0}) = (time - phase) \div channel.period

\* What an interval sensor shows, and how often it is sampled.
IntervalExact == IntervalHeld /\ NoDrift
=============================================================================

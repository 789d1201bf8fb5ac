---------------------------- MODULE StepStreamsInv ----------------------------
(***************************************************************************)
(* The inductive invariants of StepStreams.  A stream beside the main one  *)
(* holds work only while the call that gave it has a synchronisation with  *)
(* it ahead.  What an operation will find when it runs is what it should   *)
(* find: what is there now and what the operations that are queued before  *)
(* it will write.                                                          *)
(***************************************************************************)
EXTENDS StepStreams

Ops == {"kinematics", "com_pos", "collision", "camlight", "flex", "tendon", "crb",
        "tendon_armature", "factor_m", "make_constraint", "transmission", "dynamics",
        "init_solve", "linesearch", "prev_grad", "update_constraint", "update_gradient",
        "update_search", "integrate", "copy"}

SideStreams == {"collision", "secondary", "cg"}

Items == [op : Ops, after : Nat, expect : UNION {[Reads(op) -> Int] : op \in Ops}]

Astray == {x \in Ops \X Arrays : x[2] \in Reads(x[1])}

Switches == created \in BOOLEAN /\ has_flex \in BOOLEAN /\ cg \in BOOLEAN
            /\ detects \in BOOLEAN /\ graph_mode \in BOOLEAN /\ single_stream \in BOOLEAN

TypesOK ==
  /\ Switches /\ refused \in BOOLEAN
  /\ steps \in 0..MaxSteps /\ mode \in Modes /\ pc \in 0..Len(Program(mode))
  /\ queue \in [Streams -> Seq(Items)]
  /\ issued \in Nat /\ finished \in Nat /\ finished + Len(queue["main"]) = issued
  /\ value \in [Arrays -> Nat] /\ due \in [Arrays -> Nat]
  /\ astray \subseteq Astray

Synchronizes(x, s) == x.do = "synchronize" /\ x.stream = s

JoinOK ==
  \A s \in SideStreams : queue[s] # <<>> =>
    /\ pc > 0 /\ ~ Capturing
    /\ \E j \in pc..Len(Program(mode)) : Synchronizes(Program(mode)[j], s)

JoinInv == TypesOK /\ JoinOK /\ RefusedOnlyForCG

-----------------------------------------------------------------------------
(* The order of reads and writes.                                          *)

\* The reads that nothing orders.
Unordered == {<<"collision", "flexvert">>, <<"copy", "qpos">>}
Ordered(op) == {a \in Reads(op) : <<op, a>> \notin Unordered}

\* How many of the first k - 1 operations of a queue write an array.
Writers(q, a) == {j \in 1..Len(q) : a \in Writes(q[j].op)}
Count(q, a, k) == Cardinality({j \in Writers(q, a) : j < k})

\* An array is due the writes it has and those that are queued.
InQueues(q, a) ==
  Cardinality(Writers(q["main"], a)) + Cardinality(Writers(q["collision"], a))
  + Cardinality(Writers(q["secondary"], a)) + Cardinality(Writers(q["cg"], a))
  + Cardinality(Writers(q["obs"], a))
DueOK == \A a \in Arrays : due[a] = value[a] + InQueues(queue, a)

\* Before an operation come those of its own queue and those of the main
\* stream that it waits for.
ExpectOK ==
  \A s \in Streams : \A k \in 1..Len(queue[s]) : \A a \in Ordered(queue[s][k].op) :
    queue[s][k].expect[a] =
      value[a] + Count(queue[s], a, k)
      + (IF s = "main" THEN 0 ELSE Count(queue["main"], a, queue[s][k].after - finished + 1))

\* An operation waits for what the main stream was given, no more.
WaitsOK == \A s \in Streams : \A k \in 1..Len(queue[s]) : queue[s][k].after <= issued

\* Neither writes what the other reads or writes.
Independent(x, y) ==
  /\ Writes(x) \cap Ordered(y) = {} /\ Writes(y) \cap Ordered(x) = {}
  /\ x # y => Writes(x) \cap Writes(y) = {}

\* No data race: of two queued operations that the streams may run in either
\* order, neither writes what the other reads or writes, whatever the model,
\* the solver and the environment (fwd_position, _solver_iteration).
RaceFree ==
  /\ \A s \in Streams \ {"main"} : \A k \in 1..Len(queue[s]), j \in 1..Len(queue["main"]) :
       finished + j > queue[s][k].after => Independent(queue[s][k].op, queue["main"][j].op)
  /\ \A s, t \in Streams \ {"main"} : s # t =>
       \A k \in 1..Len(queue[s]), j \in 1..Len(queue[t]) :
         Independent(queue[s][k].op, queue[t][j].op)

\* The host gave the operation to stream s before request p and has not waited
\* for it since.
Outstanding(q, p, s, op) ==
  \E i \in 1..p - 1 :
    /\ q[i].do = "launch" /\ q[i].stream = s /\ q[i].op = op
    /\ \A m \in i + 1..p - 1 : ~ Synchronizes(q[m], s)

OutstandingOK ==
  /\ \A s \in SideStreams : \A k \in 1..Len(queue[s]) : Outstanding(Program(mode), pc, s, queue[s][k].op)
  /\ \A k \in 1..Len(queue["obs"]) : queue["obs"][k].op = "copy"

OrderInv == JoinInv /\ DueOK /\ WaitsOK /\ ExpectOK /\ RaceFree /\ OutstandingOK /\ ReadsAsSequential
=============================================================================

----------------------------- MODULE StepStreams -----------------------------
(***************************************************************************)
(* The streams of a step on a HIP device.  fwd_position runs collision     *)
(* detection and the other functions of positions on two streams, each     *)
(* iteration of a CG solve its prev_grad kernel on a third; a fourth is    *)
(* there for the caller to copy observations while the next step runs.     *)
(* A stream entered waits for what the main stream holds then; the host    *)
(* synchronises with the stream that it left, which is refused while a     *)
(* capture is active.                                                      *)
(*                                                                         *)
(* A function is one operation of its stream, which reads and writes       *)
(* groups of arrays at once.  The value of an array is the number of times *)
(* it was written: the sequential path says how many times it should have  *)
(* been when an operation reads it.                                        *)
(***************************************************************************)
EXTENDS Integers, Sequences, FiniteSets

CONSTANTS
  Iterations,   (* iterations of a solve that are launched                 *)
  MaxSteps      (* bound: calls of the caller                              *)

ASSUME BoundsAssumption == Iterations \in Nat /\ MaxSteps \in Nat \ {0}

VARIABLES
  \* Model and data, fixed when they are made.
  created,       (* the data has streams: put_data on a HIP device         *)
  has_flex,      (* the model has flexes                                   *)
  cg,            (* opt.solver is CG                                       *)
  detects,       (* opt.run_collision_detection                            *)
  \* The environment that the process was started in.
  graph_mode,    (* WP_HIP_GRAPH_ENABLE=1                                  *)
  single_stream, (* MJW_HIP_SINGLE_STREAM=1                                *)
  \* Host.
  steps,         (* calls made                                             *)
  mode,          (* how the call runs                                      *)
  pc,            (* the host operation it makes next, 0 outside a call     *)
  refused,       (* a synchronisation of the call raised an error          *)
  \* Device.
  queue,         (* stream -> operations it has not run yet                *)
  issued, finished, (* operations of the main stream                       *)
  value,         (* array -> times it was written                          *)
  due,           (* history: what value will be when the queues are empty  *)
  astray         (* history: reads of another value than sequentially      *)

config == <<created, has_flex, cg, detects, graph_mode, single_stream>>
host == <<steps, mode, pc, refused>>
device == <<queue, issued, finished, value, due, astray>>
vars == <<config, host, device>>

Streams == {"main", "collision", "secondary", "cg", "obs"}
Modes == {"eager",     \* forward, with what it launches executed at once
          "position",  \* step1: fwd_position alone, with factorize
          "recorded",  \* step builds a graph: _hip_graph_step_single_stream
          "captured"}  \* within a capture of the caller

Arrays == {"qpos", "xpos", "com", "cam", "flexvert", "ten", "M", "qLD", "contact",
           "efc", "moment", "smooth", "Jaref", "grad", "prev_grad", "force",
           "search", "qacc", "obs"}

\* What the kernels of a function take as inputs and outputs.
Reads(op) ==
  CASE op = "kinematics" -> {"qpos"}
    [] op = "com_pos" -> {"xpos"}
    [] op = "collision" -> {"xpos"} \cup IF has_flex THEN {"flexvert"} ELSE {}
    [] op = "camlight" -> {"xpos", "com"}
    [] op = "flex" -> {"xpos", "com"}
    [] op = "tendon" -> {"qpos", "xpos", "com"}
    [] op = "crb" -> {"com"}
    [] op = "tendon_armature" -> {"ten", "M"}
    [] op = "factor_m" -> {"M"}
    [] op = "make_constraint" -> {"qpos", "xpos", "com", "contact", "ten"}
                                  \cup IF has_flex THEN {"flexvert"} ELSE {}
    [] op = "transmission" -> {"qpos", "xpos", "com", "ten", "contact", "efc"}
    [] op = "dynamics" -> {"xpos", "com", "cam", "ten", "M", "moment"}
    [] op = "init_solve" -> {"efc", "smooth", "M"}
    [] op = "linesearch" -> {"search", "Jaref", "efc", "qacc"}
    [] op = "prev_grad" -> {"grad"}
    [] op = "update_constraint" -> {"Jaref", "efc"}
    [] op = "update_gradient" -> {"force", "qacc", "smooth"}
    [] op = "update_search" -> {"grad", "search"} \cup IF cg THEN {"prev_grad"} ELSE {}
    [] op = "integrate" -> {"qpos", "qacc"}
    [] op = "copy" -> {"qpos"}

Writes(op) ==
  CASE op = "kinematics" -> {"xpos"}
    [] op = "com_pos" -> {"com"}
    [] op = "collision" -> {"contact"}
    [] op = "camlight" -> {"cam"}
    [] op = "flex" -> {"flexvert"}
    [] op = "tendon" -> {"ten"}
    [] op \in {"crb", "tendon_armature"} -> {"M"}
    [] op = "factor_m" -> {"qLD"}
    [] op = "make_constraint" -> {"efc", "contact"}
    [] op = "transmission" -> {"moment"}
    [] op = "dynamics" -> {"smooth", "qLD"}
    [] op = "init_solve" -> {"Jaref", "force", "grad", "search", "qacc"}
    [] op = "linesearch" -> {"Jaref", "qacc"}
    [] op = "prev_grad" -> {"prev_grad"}
    [] op = "update_constraint" -> {"force"}
    [] op = "update_gradient" -> {"grad"}
    [] op = "update_search" -> {"search"}
    [] op = "integrate" -> {"qpos"}
    [] op = "copy" -> {"obs"}

-----------------------------------------------------------------------------
(* The host's operations.                                                  *)

Launch(s, ops) == [i \in 1..Len(ops) |-> [do |-> "launch", stream |-> s, op |-> ops[i]]]
Sync(s) == <<[do |-> "synchronize", stream |-> s, op |-> "none"]>>

\* The streams are hidden from what step records (_hip_graph_step_single_stream).
HasStreams(how) == created /\ how # "recorded"

\* Mutant: the test whether a capture is active is missing.
BugForks(how) == HasStreams(how) /\ ~ graph_mode /\ ~ single_stream /\ detects

Forks(how) ==
  HasStreams(how) /\ ~ graph_mode /\ ~ single_stream /\ how # "captured" /\ detects

\* Without it the contacts are those that the caller has put there.
Detection == IF detects THEN <<"collision">> ELSE <<>>

Kinematic(factorize) ==
  <<"camlight">> \o (IF has_flex THEN <<"flex">> ELSE <<>>)
  \o <<"tendon", "crb", "tendon_armature">> \o (IF factorize THEN <<"factor_m">> ELSE <<>>)

\* Mutant: only collision detection is waited for.
BugPosition(forks, factorize) ==
  IF forks
  THEN Launch("collision", <<"collision">>) \o Launch("secondary", Kinematic(factorize))
       \o Sync("collision")
  ELSE Launch("main", Kinematic(factorize) \o Detection)

\* fwd_position between com_pos and make_constraint.
Position(forks, factorize) ==
  IF forks
  THEN Launch("collision", <<"collision">>) \o Launch("secondary", Kinematic(factorize))
       \o Sync("collision") \o Sync("secondary")
  ELSE Launch("main", Kinematic(factorize) \o Detection)

FwdPosition(forks, factorize) ==
  Launch("main", <<"kinematics", "com_pos">>) \o Position(forks, factorize)
  \o Launch("main", <<"make_constraint", "transmission">>)

\* Mutant: the host never waits for prev_grad.
BugIteration(streams) ==
  Launch("main", <<"linesearch">>)
  \o (IF cg /\ streams
      THEN Launch("cg", <<"prev_grad">>) \o Launch("main", <<"update_constraint">>)
      ELSE Launch("main", (IF cg THEN <<"prev_grad">> ELSE <<>>) \o <<"update_constraint">>))
  \o Launch("main", <<"update_gradient", "update_search">>)

\* _solver_iteration.  It does not wait when step records, but then there are
\* no streams.
Iteration(streams) ==
  Launch("main", <<"linesearch">>)
  \o (IF cg /\ streams
      THEN Launch("cg", <<"prev_grad">>) \o Launch("main", <<"update_constraint">>)
           \o Sync("cg")
      ELSE Launch("main", (IF cg THEN <<"prev_grad">> ELSE <<>>) \o <<"update_constraint">>))
  \o Launch("main", <<"update_gradient", "update_search">>)

Solve(streams) ==
  LET once == Iteration(streams)
  IN [i \in 1..Iterations * Len(once) |-> once[((i - 1) % Len(once)) + 1]]

\* What the host does in a call that forks in fwd_position, or has streams.
Operations(how, forks, streams) ==
  IF how = "position" THEN FwdPosition(forks, TRUE)
  ELSE FwdPosition(forks, FALSE) \o Launch("main", <<"dynamics", "init_solve">>)
       \o Solve(streams) \o Launch("main", <<"integrate">>)

Program(how) == Operations(how, Forks(how), HasStreams(how))

\* The order without streams, which is that of MuJoCo.
Sequential(how) == Operations(how, FALSE, FALSE)

Init ==
  /\ created \in BOOLEAN /\ has_flex \in BOOLEAN /\ cg \in BOOLEAN /\ detects \in BOOLEAN
  /\ graph_mode \in BOOLEAN /\ single_stream \in BOOLEAN
  /\ steps = 0 /\ mode = "eager" /\ pc = 0 /\ refused = FALSE
  /\ queue = [s \in Streams |-> <<>>] /\ issued = 0 /\ finished = 0
  /\ value = [a \in Arrays |-> 0] /\ due = [a \in Arrays |-> 0] /\ astray = {}

\* Captures make graphs only where the device supports them.
Call(how) ==
  /\ pc = 0 /\ steps < MaxSteps
  /\ how = "recorded" => graph_mode
  /\ steps' = steps + 1 /\ mode' = how /\ pc' = 1 /\ refused' = FALSE
  /\ UNCHANGED <<config, device>>

Capturing == mode \in {"recorded", "captured"}

\* How often an array is written before the n-th operation of this name, by
\* the sequential order.
WritesBefore(seq, op, n, a) ==
  Cardinality({j \in 1..Len(seq) :
    a \in Writes(seq[j].op) /\ Cardinality({i \in 1..j : seq[i].op = op}) < n})

Current == Program(mode)[pc]

Advance == pc' = IF pc = Len(Program(mode)) THEN 0 ELSE pc + 1

\* An operation of another stream waits for the main one as the host left it
\* when it entered the stream's scope.
Item(s, op, expect) ==
  [op |-> op, after |-> IF s = "main" THEN 0 ELSE issued, expect |-> expect]

\* While a capture is active the operation is recorded, not executed.  (The
\* two programs are bound once, for TLC.)
Enqueue ==
  /\ pc > 0 /\ Current.do = "launch" /\ Advance
  /\ IF Capturing THEN UNCHANGED device
     ELSE \E program \in {Program(mode)}, seq \in {Sequential(mode)} :
          LET made == {j \in 1..pc : program[j].do = "launch"}
              op == Current.op
              n == Cardinality({j \in made : program[j].op = op})
              begun(a) == due[a]
                - Cardinality({j \in made \ {pc} : a \in Writes(program[j].op)})
          IN /\ queue' = [queue EXCEPT ![Current.stream] = Append(@, Item(Current.stream, op,
                   [a \in Reads(op) |-> begun(a) + WritesBefore(seq, op, n, a)]))]
             /\ issued' = issued + (IF Current.stream = "main" THEN 1 ELSE 0)
             /\ due' = [a \in Arrays |-> due[a] + IF a \in Writes(op) THEN 1 ELSE 0]
             /\ UNCHANGED <<finished, value, astray>>
  /\ UNCHANGED <<config, steps, mode, refused>>

\* The host waits for the stream; during a capture it gets an error.
Synchronize ==
  /\ pc > 0 /\ Current.do = "synchronize"
  /\ IF Capturing THEN refused' = TRUE /\ pc' = 0
     ELSE queue[Current.stream] = <<>> /\ Advance /\ UNCHANGED refused
  /\ UNCHANGED <<config, steps, mode, device>>

\* The caller copies qpos on the stream made for it, as io.py shows; bound: once
\* for each call.
Observe ==
  /\ created /\ pc = 0 /\ due["obs"] < steps
  /\ queue' = [queue EXCEPT !["obs"] =
       Append(@, Item("obs", "copy", [a \in {"qpos"} |-> due[a]]))]
  /\ due' = [due EXCEPT !["obs"] = @ + 1]
  /\ UNCHANGED <<config, host, issued, finished, value, astray>>

\* A stream runs its oldest operation.
Run(s) ==
  /\ queue[s] # <<>> /\ Head(queue[s]).after <= finished
  /\ LET x == Head(queue[s]) IN
     /\ astray' = astray \cup
          {<<x.op, a>> : a \in {b \in Reads(x.op) : value[b] # x.expect[b]}}
     /\ value' = [a \in Arrays |-> value[a] + IF a \in Writes(x.op) THEN 1 ELSE 0]
  /\ queue' = [queue EXCEPT ![s] = Tail(@)]
  /\ finished' = finished + (IF s = "main" THEN 1 ELSE 0)
  /\ UNCHANGED <<config, host, issued, due>>

\* All calls are made and all operations done.
Rest ==
  /\ pc = 0 /\ steps = MaxSteps /\ \A s \in Streams : queue[s] = <<>>
  /\ UNCHANGED vars

Next ==
  \/ \E how \in Modes : Call(how)
  \/ Enqueue \/ Synchronize \/ Observe \/ Rest
  \/ \E s \in Streams : Run(s)

Spec == Init /\ [][Next]_vars

-----------------------------------------------------------------------------
(* Properties.                                                             *)

\* Every variable has its type, and the main stream has finished what it was
\* given except for what its queue holds.
TypeOK ==
  /\ \A b \in {created, has_flex, cg, detects, graph_mode, single_stream, refused} : b \in BOOLEAN
  /\ steps \in 0..MaxSteps /\ mode \in Modes /\ pc \in 0..Len(Program(mode))
  /\ DOMAIN queue = Streams /\ issued \in Nat /\ finished + Len(queue["main"]) = issued
  /\ value \in [Arrays -> Nat] /\ due \in [Arrays -> Nat]
  /\ \A x \in astray : x[2] \in Reads(x[1])

\* Whatever the streams' relative speed, each function reads what it would
\* read in the sequential order: no result of this step or of another is
\* missed or read too early.  Two reads are left out: collision detection
\* reads the vertices of flexes, which the other stream computes, and the
\* caller's copy is not waited for by the next step.
ReadsAsSequential ==
  astray \subseteq (IF has_flex THEN {<<"collision", "flexvert">>} ELSE {})
                   \cup {<<"copy", "qpos">>}

\* When a call returns, only the main stream and the caller's hold work.
Joined ==
  pc = 0 => \A s \in {"collision", "secondary", "cg"} : queue[s] = <<>>

\* A call within a capture asks for no synchronisation, except for a CG solve
\* in a capture of the caller.
RefusedOnlyForCG == refused => mode = "captured" /\ cg /\ created

\* fwd_position's comment: the work of the second stream is independent of
\* collision detection.
IndependentOfCollision == \A a \in Arrays : <<"collision", a>> \notin astray
=============================================================================

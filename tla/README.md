# MuJoCo Warp on AMD: a TLA+ verification project

The repository ports MuJoCo Warp and NVIDIA Warp to AMD GPUs, records the
simulation step in hipGraphs, and emulates conditional graph nodes that HIP
does not have. The specifications in this directory model the parts that carry
the control logic of that work: what the host enqueues, what the device runs
and in which order, what is recorded, replayed, cached and freed, and what
happens when one of these fails. Floating-point work is data here: a solver
iteration is "one more iteration", a contact is a pair and a point.

Paths are abbreviated: `MJW` is `src/upstream/mujoco_warp/mujoco_warp/_src`,
`WARP` is `src/upstream/warp/warp`.

## 1. Inventory

| Component | Where | State it keeps | Operations |
| --- | --- | --- | --- |
| Constraint solver loop | `MJW/solver.py` | device: `nsolving`, `ctx.done`, `d.solver_niter`; host: loop index, pinned copy of `nsolving` | `solve`, `_solve`, `_solver_iteration`, `solve_done`, `_reset_nsolving` |
| hipGraph step protocol | `MJW/forward.py` `step` | attributes on `d`: warmup count, graphs, capture flag, budget, step counter, remembered address; `m.opt.iterations`; the device's memory pool setting | `step` in its phases: warm up, build, drift, replay |
| Memory ownership around captures | `WARP/native/warp.cu` | `g_captures`, `g_graph_allocs`, `g_deferred_free_list`, `g_deferred_graph_list`, `g_deferred_graph_destroy_list` | allocate, free, begin and end a capture, launch and destroy a graph, synchronise |
| Graph capture and conditional nodes | `WARP/_src/context.py` | registry of captures, capture flags of streams | `capture_begin/end/launch/if/while/pause/resume` |
| Collision pipeline | `MJW/collision_*.py` | `d.ncollision`, `d.nacon`, `d.contact`, pair list, `d._bvh_cached_ctx`, routing table of the module | `collision`, broadphases, narrowphase kernels |
| Constraint rows | `MJW/constraint.py` | `d.nefc`, the counters of the categories, the nonzero counter, rows, `contact.efc_address` | `make_constraint` and its kernels |
| Multi-stream forward pass | `MJW/forward.py` `fwd_position`, `solver.py` | four streams beside the main one, made with the data | fork and join around collision detection and `prev_grad`, observation copies |
| Islands | `MJW/island.py`, `solver.py` | tree labels, island index maps, per-island counters | discovery, numbering, gather, island solve, scatter |
| Control and sensor history | `MJW/history.py`, `forward.py`, `sensor.py` | ring buffers, cursors, the user slot of interval sensors | initialise, read, insert, reset |
| Model and data construction | `MJW/io.py` | `Model`, `Data` | `put_model`, `put_data`, ... |
| Kinematics, dynamics, sensors, rays, rendering | `MJW/smooth.py`, `sensor.py`, `ray.py`, `render.py` ... | arrays of `Data` | numeric kernels |
| Warp compiler and builtins | `WARP/_src/codegen.py`, `builtins.py` | none of its own here | code generation |
| Scripts | `src/scripts` | files | benchmarks and evidence checks |

How they interact. `step` calls the forward pass, which calls the collision
pipeline, the constraint rows and the solver; all of them only enqueue kernels
on a stream. `step` may do this while the stream records, by `capture_begin`
and `capture_end` of `context.py`, and then replay the recording; the solver
learns of it through `d._hip_graph_capturing` and skips what a recording stream
refuses. Arrays allocated meanwhile go through `warp.cu`, which must keep them
alive for the graph and free nothing until the recording is over. The iteration
budget of a recording is `m.opt.iterations`, which `step` overwrites for each
graph; what a replay used comes back in `d.solver_niter`.

What is hard, and the properties it calls for:

* **Asynchrony.** The host runs ahead of the device; a decision of the host is
  made from a copy enqueued earlier. *The counter is exact whenever it is read;
  early exit never exits too early and wastes less than a poll window; every
  strategy yields the result of a solve of each world alone.*
* **Recording.** Nothing executes, nothing may synchronise, host state changed
  for the recording must be restored on every exit, arrays must not move
  afterwards. *Options restored, flag exact, no stale graph, the failure path
  leaves nothing behind.*
* **Ownership.** The user, the graph, the deferred list and the driver's
  callback may all own one allocation, and release it in any order. *No
  premature free, no double free, nothing freed during a capture, no leak.*
* **Threads of one kernel** number what they write by atomic counters that run
  past the capacity of what they write to. *Lists are fresh, contacts exact, a
  loss is reported and only a loss is reported.*
* **Caches.** A list of pairs, a routing table, a recorded address and the
  addresses of a contact's rows outlive the step they were computed in.
* **Streams.** Two functions of one step run at once. *Each reads what it
  would read in sequence, and no call returns with work it has not waited for.*
* **Index arithmetic.** Island numbers, a ring that wraps, a stack without a
  check of its bound. *The maps are inverse, the ring is a queue, the stack fits.*

`PROJECT.json` lists the hazards line by line.

## 2. Modules

| Module | Role |
| --- | --- |
| `WorldSolve` | abstract specification: what a batched solve promises each world |
| `SolverLoop` | the solver loop: host strategies, stream, device threads |
| `SolverLoopInv`, `SolverLoopProofs` | its inductive invariant; its theorems |
| `HipGraphStep` | the protocol of `step` and its callers |
| `HipGraphStepInv`, `HipGraphStepProofs` | its inductive invariant; its theorems |
| `GraphAlloc` | memory ownership around captures |
| `GraphAllocInv`, `GraphAllocProofs` | its inductive invariant; its theorems |
| `Collision` | the collision pipeline of a step |
| `CollisionInv`, `CollisionLossInv` | its inductive invariant; what has been lost so far |
| `CollisionProofs` | its theorems about lists, contacts, losses and messages |
| `ConstraintRows` | the rows and nonzeros that `make_constraint` deals out |
| `ConstraintRowsInv`, `ConstraintRowsProofs` | its inductive invariant; its theorems |
| `StepStreams` | the streams of a step |
| `StepStreamsInv`, `StepStreamsProofs` | its inductive invariants, `RaceFree`; its theorems |
| `Islands` | the islands of a world, from rows to results |
| `IslandsInv`, `IslandsProofs` | the inductive invariants of the flood fill and of the maps; its theorems |
| `SampleQueue` | abstract specification: what a history buffer promises |
| `History` | the ring buffer of an actuator or a sensor, and who reads and fills it |
| `HistoryInv`, `HistoryProofs` | the inductive invariants of the ring and of its log; its theorems |
| `MCSolverLoop`, `MCHipGraphStep`, `MCGraphAlloc`, `MCCollision`, `MCConstraintRows`, `MCStepStreams`, `MCIslands`, `MCHistory` | the instances TLC checks |

The `MC` modules extend the `Inv` modules, so TLC finds every definition that the
proofs use.

Operators named `Bug...` are mutants: each is a definition as a plausible
mistake would have it, and is used nowhere. Substituted for the original, it
makes TLC find the property violated that `PROJECT.json` pairs it with.

### SolverLoop

The device executes an in-order `stream` of operations. A kernel with one
thread per world is an operation whose threads run in any order (`ran` is the
set of those that have run) and that retires when all have run. The host
enqueues: `BeginSolve` is `_solve` up to the loop, then one of the loops of
`_solve`:

| Strategy | Code | Actions |
| --- | --- | --- |
| fixed | plain `for` | `FixedIterate` |
| polled | `for` on HIP with a readback of `nsolving` every `MJW_SOLVER_NCHECK` iterations | `PolledIterate`, `PolledReadBack` |
| host while | `capture_while` with no capture active | `WhileCopy`, `WhileReadBack` |
| recorded, unrolled | `capture_while` on HIP, or a `for` recorded | `Capture`, `Replay` |
| recorded, while node | `capture_while` on CUDA | `Capture`, `Replay`, `WhileNode` |

The kernels of `_solver_iteration` before `solve_done` are one operation. Those
that write what the solve returns begin with `if ctx_done[worldid]: return`;
some others (`solve_m`, `update_gradient_h_incremental`) do not, but what they
compute for a finished world nobody uses. `updates` counts how often the
operation changed a world. `need` is the number of updates after which the
tolerance test of `solve_done` passes, chosen anew for each solve.

### HipGraphStep

One action per path of `step`: `EagerStep` (graphs off), `WarmUp` (Phase 1),
`StartBuild`, `CaptureBegin`, `CaptureEnd`, `FinishBuild` (Phase 2),
`BeginFails`, `RecordFails`, `EndFails` (its three failure exits),
`BuildRefused` (called inside somebody's capture), `Drift` (Phase 3) and
`Launch` (Phase 4). Between two calls `Caller` may change the workload,
`m.opt.iterations`, the switch, an array, or begin and end a capture of its
own. A timestep is abstracted to what it leaves in `d.solver_niter`, which by
`SolverLoop`'s `ResultExact` is the need of the workload cut off at the limit
in force: this is where the two modules meet.

### GraphAlloc

A capture and its graph are one identifier with a `status`. `cells` holds what
the code knows of an allocation: its entry in `g_graph_allocs`, whether it is
in the deferred list, whether the user's array lives, and what the driver was
told. `FreeAsync` is `wp_free_device_async` case by case; `EndCapture` and the
three `EndFails...` are the exits of `wp_cuda_graph_end_capture`;
`OnGraphDestroy` is the driver's thread. `run_deferred_actions` is two steps,
`FreeDeferred` and `ProcessCallbacks`, because the second takes the lock under
which reports arrive.

### Collision

`collision()` is one of three actions: the early return, the search, and the
step with the list kept in the cache on HIP. Then the kernels run one after
the other (broadphase, convex, primitive, SDF, flex), each with a thread per
slot of the pair list; a thread takes its slot, and writes its contacts one
atomic increment at a time, interleaved with all other threads. `NextTime` is
the end of the step, where overflows are printed. The geometry is a constant:
which pairs the filters pass, which are swept and which touch, per pose; which
pairs are explicit, so that they touch by margins and gaps of their own while
the broadphase knows those of the geoms (`collision_driver.py:301`,
`collision_core.py:276`); which pairs the filter of height fields drops and
which have more prisms in contact than `MJ_MAXCONPAIR`
(`collision_convex.py:277`, `:416`). The thread of a dropped pair returns
before it takes working memory, and that of a crowded one records some of its
contacts and prints a message (`WorksInPart`).
The kernels for one list are launched in the order convex, primitive, SDF,
flex; the convex kernels of different pairs of types, which are separate
launches, are one kernel here, so TLC also checks interleavings that the stream
rules out.

### ConstraintRows

One world's `make_constraint`: the counters are cleared (`Call`), then come
thirteen kernels in order, ten for the constraints (connect, weld, joint,
tendon, flex; friction of degrees of freedom and of tendons; limits of balls,
of slides and hinges, of tendons), three for the contacts. A thread's life:

| Code | Action |
| --- | --- |
| `wp.atomic_add(nefc_out, ...)`, and a contact's rows noted in `efc_address` | `Allocate` |
| the early return of a block that does not fit | `GiveUp` |
| writing rows of a dense Jacobian | `FillDense` |
| `wp.atomic_add(efc_nnz_out, ...)`, rows and entries of a sparse one | `FillSparse` |
| `_efc_contact_jac_*`, `_efc_contact_update` | `JacobianDense`, `JacobianSparse`, `Update` |
| the messages of `next_time` | `Report` |

A row holds which thread wrote it, and for which dimension; so does an entry
of the Jacobian. A scene says which constraints are active and what contacts
the slots hold; a slot keeps what its last contact left in it, which a flex
contact does not clear. What data hold before the first step is an input,
`FirstData`: `make_data` fills `efc_address` with -1 and then builds the contact
again from zeros (`io.py:1145`, `:1160`), `put_data` keeps its -1 and the
addresses of the contacts that MuJoCo found.

### StepStreams

The host's part of a call is a sequence of launches and synchronisations,
computed as the code does from the four ways a call runs: *eager*, *position*
(`step1`), *recorded* (`step` builds a graph) and *captured* (within a capture
of the caller), and from `detects`, which is `opt.run_collision_detection`:
without it `fwd_position` launches no collision detection and has nothing to
fork for. `Enqueue` and `Synchronize` walk through it, `Run` lets a stream
execute its oldest operation, `Observe` is the caller's copy on the
fifth stream. A function is one operation that reads and writes groups of
arrays; the value of an array is how often it has been written. An operation is
given, when it is launched, the values that the same call without streams would
find; a read of another one is put in `astray`.

### Islands

`Discover` takes the rows of a step and marks the pairs of trees they touch.
The flood fill is a thread of its own, modelled by the turns of its loops
(`Skip`, `Root`, `PopAgain`, `PopNew`, `Filled`, `Discovered`). `Map` is the
numbering of rows and degrees of freedom, `Gather`, `Solve` and `Scatter` the
island solve, with a result named by the row or the degree of freedom that it
belongs to. The arrays of results are not cleared between steps.

### History

A ring of `n` samples in one world, in times of half a step. `InitHistory` is
`init_ctrl_history` or `init_sensor_history`, `Forward` the part of `forward()`
that reads a control (`ReadCtrl`) or inserts, delays and holds a sensor's value
(`ApplySensorDelay`), `Advance` the end of a step, `Reset` is `reset_data`.
`lists` is the number of lists of its stage that a sensor is in: two for
limits' forces (`io.py:652`), whose delay `sensor.py:2722` therefore applies
twice. The second call reads a ring that has the new sample already (`Before`),
and if a sample is due again it stores what the first one delivered over it
(`Again`, `Stores`; such a value is marked `Echo`). A value is the run, time
and evaluation that it stems from. The bisection of the code is a recursive
function of its two bounds. `log` is a history variable: every sample of the
present run, as an unbounded buffer would keep it. `History` implements
`SampleQueue` by the mapping that reads the ring in logical order.

## 3. Runs

Violation runs state what a comment or docstring says and the code does not
do; section 6 lists them.

| Run | Instance | What it shows |
| --- | --- | --- |
| `solver_batch` | two worlds, every device configuration, limits 0, 1, 3, needs 1 to 4, window 2, two solves | exact counter, exact results, early exit within the window, refinement of `WorldSolve`, every solve completes |
| `step_protocol` | three tiers, needs 2, 3, 12, limits 2 and 100, environment budget unset or 4, monitor every 2, one reallocation | options restored, flag exact, no replay of a graph older than the watched array, a budget that follows the workload |
| `step_abandoned` | the same | divergence 5 |
| `alloc_devices` | two Warp captures on two devices and an external one, an allocation on each device | no premature or double free, nothing freed during a capture, a report to come for all memory left to a graph |
| `collision_limits` | three poses of a pair of boxes, an explicit pair of boxes, an explicit pair with a height field, a distance sensor and a flex element; limits 0, 2, 3, 5, working memory for one or two pairs, both broadphases, both kinds of device | exact contacts, no silent loss but the two kinds it names, no false alarm |
| `collision_cache` | the same with the larger limits | divergence 8 |
| `rows_limits` | scenes of up to four constraints and of three kinds of contacts in two slots; 3 or 6 rows, 4 or 8 nonzeros, dense and sparse; data of `make_data` or of `put_data` | rows dealt out without gap or overlap, each row and entry its owner's, losses reported |
| `rows_boundary` | the same | divergence 9 |
| `streams_order` | two iterations, two calls of any of the four ways, every device, solver and environment, with and without collision detection | every function reads what it reads in sequence, no two functions that may run in either order touch an array that one of them writes, no stream left running, no synchronisation refused but one; its type invariant is left to the theorem |
| `streams_flex` | the same | divergence 10 |
| `islands` | four trees, one of two degrees of freedom, every sequence of at most three rows of seven shapes | the fill finds the components, ends and stays within its stack; maps are inverse; results arrive where they belong, nothing older is taken for one |
| `history` | rings of one to four samples, sixteen kinds of actuators and sensors, four of them sensors of limits' forces; five steps, one further `forward()`, a reset | the ring is a queue; a delayed value is what an unbounded history would give, where the delay is applied once; intervals are held and do not drift |

The runs check the inductive invariants (`IndInv`) of section 4 too. What
follows from one by a theorem there (the type invariants, `ListIsFresh`,
`WhileWithinCap`, `TierCoversWarmup`, `ReportToCome`, `AddressesExact`,
`RowsInsideIslands`) is defined in the modules and not checked a second time.

Why the bounds are enough for the question asked:

* Two worlds are the least batch in which one world finishes while another
  goes on, which is what the counter, the poll and the gates are for. The
  window 2 against the limit 3 gives a poll in the middle and a loop that ends
  between polls; need 4 exceeds the limit; limit 0 is the loop without a body.
  Two solves in a row make stale state of the first visible in the second, by
  replay too. The proofs remove these bounds.
* Three tiers are a smallest, a middle and a largest one; needs below, between
  and above them; the limit 2 is below the middle tier and 100 above all. One
  reallocation suffices for an address to differ; it may happen at any moment.
* Two Warp captures are needed for "some other capture is open", two devices
  for "synchronise one only", an external capture for the path without Warp's
  `begin`. Two allocations share nothing but the lists they are in.
* The list of 2 is too short for the three pairs of the pose *stacked*, the
  list of 3 is exactly full, and the list of 5 holds all its contacts; 0 is the
  early return; one working memory is too little for the two box pairs, two are
  enough. In the pose *apart* both explicit pairs touch by margins of their own
  only: one broadphase or the other misses one of them, and the filter of
  height fields drops the other. In the pose *sunk* the height field pair is
  crowded. Several poses and any number of steps make stale lists visible.
  There is no bound on the number of steps.
* The connect's three rows end exactly at the limit of 3, all six rows of the
  constraints at that of 6, which contacts pass by one or by several. The eight
  nonzeros of the sparse rows fit in 8 and not in 4. A slot may hold a flex
  contact of one row after a contact of two, or the other way round, which
  takes two calls; their number is not bounded. New data have zeros or -1 for
  addresses, so a flex contact finds either in a slot that was never used.
* Two iterations are needed for `prev_grad` to race with the update of the
  previous or the next one, two calls for a call to race with what the one
  before left running. The streams are those of the code.
* Four trees give chains, stars, two islands of two, and one row that joins
  three; three rows are the least that close a cycle of trees. Rows name their
  trees in both orders, and include one that touches none.
* Rings of one (no middle), two, three and four samples exercise every branch
  of the bisection; delays below, at and beyond a ring's length; five steps
  wrap each ring at least once. Loaded samples lie in the past, in the future,
  and between two steps. Of the sensors of limits' forces one has no interval,
  so its second call always inserts; two have an interval of more than a step,
  so it does not; one has so short an interval that its phase lags behind and
  the second call is due too.

Deadlock is checked in every run except `history`: a user, a host, a device or
a caller can always go on, and where an instance has used up its bound an
action says so (`Finished` of `SolverLoop`, `Rest` of `StepStreams`). `History`
stops at `MaxTime`, as a program may stop stepping.

### Fairness

* `SolverLoop`: weak fairness of the host and of the device. `_solve` does not
  block except to wait for its own copy, and an in-order stream goes on
  executing. The user is not obliged to call anything.
* `HipGraphStep`: weak fairness of the steps within a call (`Build`). The
  property `BudgetCatchesUp` states its own assumptions on the caller: he
  stops changing things, keeps calling, and no capture stays open.
* `Islands`: weak fairness of the flood fill. It is one thread of a kernel
  that has been launched and waits for nothing; `FillEnds` says that its loop
  over an unchecked stack ends.
* `GraphAlloc`, `Collision`, `ConstraintRows`, `StepStreams`, `History`: safety
  only, no fairness.

## 4. Proofs

All theorems are checked by TLAPS for all values of the constants that meet the
named assumptions; none rests on an unproved lemma.

**Solver loop** (`SolverLoopProofs`), for every finite batch, set of limits,
need, window and number of solves. `IndInv` says that every two neighbours of
the stream fit together (`Chain`), so the stream is a sequence of solves, some
partly executed; that the oldest operation determines the progress of every
world, by whether its thread has run (`ProgressAt`); that the newest one
determines where the host is in its loop (`HostOK`); and that the counter is
exact. It is needed because neither `ActiveCount` nor `ResultExact` says
anything about what is still queued: that the counter is right after a reset
depends on all worlds having been initialised before it, and so on. From it
follow `Typing`, `CounterExact`, `ResultsExact`, `WhileLimited`, and
`Refinement`: initial states of the pipeline are initial states of
`WorldSolve`, and each of its steps is a step of `WorldSolve` or a stutter.
For the refinement a second invariant bounds every queued limit by `Caps`; for
the early exit (`WindowKept`) a third one, `WindowOK`, says that what is in the
stream is later than the last poll and that some world was still solving at it.

**Step protocol** (`HipGraphStepProofs`), for every set of tiers, needs and
limits, including callers in any order. `IndInv` adds to the types what an
interrupted call has saved (`ItersOK`), that flag and native capture go
together (`RecordingOK`), that the remembered address is the recorded one
(`FingerprintOK`), and that the budget never falls below the convergence
measured (`BudgetOK`). From it follow `LimitsRestored`, `FlagExact`,
`NoStaleWatched` and `WarmupCovered`. The assumption `TiersOrdered` says that
a nonempty set of tiers has a least and a greatest member; it is true of every
finite set of naturals and stands in for an induction over the set.

**Ownership** (`GraphAllocProofs`), for every number of captures, allocations
and devices. `IndInv` says which owners an allocation can have at each stage
of the life of its graph (`CellOK`, `EntryOK`, `UnfreedOK`). From it follow
`HeldMemoryIsSafe`, `GraphMemoryIsSafe`, `DeferredListIsSafe`, `ReportIsToCome`
and `DeferralComplete`. The proof is laid out by action, with one lemma per
operator on a single cell.

**Collision** (`CollisionProofs`), for every geometry, finite set of pairs,
routing table and capacity. `IndInv` has two halves.
`ListInv` relates the counter of pairs to the threads of the broadphase that
have begun and to the list: the counter is the number of candidates examined,
and every entry below it is one of them. From it follow `PipelineTyping`,
`FreshList` and `BroadphaseAlarm`. `ContactInv` relates the contacts recorded
so far to the threads still at work: a pair is listed once (`DistinctOK`), the
routing gives it to one kernel although steps with NATIVECCD disabled change
the table for good and the list of primitive types only grows (`RoutesOK`), and
the thread that recorded a point has passed it (`Passed`). From it follows
`ExactContacts`. The invariant is needed because uniqueness is a statement
about threads of different kernels, which share only the counter.
`NothingLostSilently` and `AlarmsHaveCauses` compare the end of a step with its
geometry alone, so a third invariant, `LossInv`, follows the points that are
behind us (`Made`): the counter of contacts is at most their number, all of
them are recorded while the list is not full, the list holds every candidate
examined, some kernel takes each pair of types, and the working memory handed
out is the number of pairs that asked. The proof counts finite sets, with the
library's facts on cardinality. `NothingLostSilently` asks for the contacts of
all pairs nearer than their margin and gap, whatever the broadphase listed, but
for two kinds that the code does lose without a word (`Missed`): explicit pairs
that the broadphase did not list (divergence 11), and pairs that the filter of
height fields dropped. That the broadphase lists all others is the assumption on
the geometry of section 5; of crowded pairs it says that there was a message.

**Constraint rows** (`ConstraintRowsProofs`), for all constraints, contacts,
scenes and limits. `IndInv` says that the rows below `nefc` are partitioned
among the threads that have taken some (`AllocOK`, `CoverOK`), that the counters
of the categories add up kernel by kernel (`CountsOK`, `CategoryOK`), whose the
addresses are (`AddressOK`, `IdOK`), and what has been written to the rows and
entries of the threads that are through (`RowOK`, `SparseOK`, `EntryOK`). It is
needed because the properties speak of the end of the call, when who took what
can no longer be told from the counters. From it follow `RowsDealtOut`,
`AddressesOwned`, `RowsOwned`, `EntriesOwned` and `LossesTold`: every safety
property of the run is a theorem. They hold for whatever addresses, sizes and
places of rows new data have (`FirstData`), so for `make_data` and for `put_data`.
`EntriesOwned` speaks of all entries of the rows kept but those that a leftover
address of a flex contact names (`Overwritten`), which another thread may have
written (divergence 12); its other entries are right in the same call.

**Streams** (`StepStreamsProofs`), for every number of iterations and of calls.
`JoinInv` says that a stream beside the main one holds work only while the call
that gave it has a synchronisation with that stream ahead, and that a call
within a capture gives no stream anything. It needs a fact about the programs
themselves: whatever way a call runs, each launch on a side stream is followed
by a synchronisation with it (for the CG solver's, in the same iteration). From
it follow `StreamsTyping`, `CallsJoin` and `RefusedForCG`.

`OrderInv` adds the order of reads and writes. An array is due the writes it
has and those queued (`DueOK`); what a queued operation expects is what is there,
what those before it in its own queue will write, and what those of the main
stream will that it waits for (`ExpectOK`); of two operations that may run in
either order neither writes what the other reads or writes (`RaceFree`). The
last two are only inductive together: an operation that runs changes nothing
that an operation beside it expects. That a launch keeps them is a fact about
programs, which `Faithful(q, r)` states of a program `q` and the sequential one
`r`: they launch the same functions equally often, each function finds as many
writes of an array before it in `q` as in `r` (`Matches`), and whatever is
launched while a side stream has not been waited for is independent of what
that stream was given (`Peaceful`). Both parts are kept by concatenation
(`ConcatFaithful`), hold of what has no side stream (`MainFaithful`), of a fork
with two independent sides (`TwoStreams`), of `fwd_position`, of an iteration
and of the repeated iteration of a solve (`PositionFaithful`,
`IterationFaithful`, `RepeatFaithful`), hence of every call (`ProgramFaithful`).
From it follow `ReadsInOrder`, that every function reads what it reads in
sequence, and `NoDataRace`. The values of the model count writes, so the order
of two writes shows in `RaceFree` only. Both theorems leave out the reads that
the code does not order: the vertices of flexes in collision detection
(divergence 10) and the caller's copy of `qpos`.

**Islands** (`IslandsProofs`), for every forest and any rows. `IndInv` says
that a finished island is closed under neighbours, that of the one being filled
every neighbour is labelled or on the stack, and that rows connect what is
labelled alike. From it follow `Partition`, `RowsInside` and `StackBounded`:
each labelled tree has pushed at most `ntree - 1` others, so the unchecked stack
of `ntree * ntree` suffices. `MapInv` says what the maps of the current and of
the previous step hold once they are computed. That they are right is counting:
the position of a row is the number of rows of smaller islands, plus those of
the same island that come before it by kind and then by number. From it follow
`IslandsTyping`, `MapsCorrect` (every position has one row, maps are inverse)
and `ResultsCorrect`. The hypothesis `SystemsAssumption` says that rows come in
the order of their kinds, as `make_constraint` numbers them; without it the
positions would collide.

**History** (`HistoryProofs`), for rings of every length, every step, delay,
interval and interpolation, and whatever was loaded. It has three layers.

* *The search.* What the bisection computes is proved without an induction
  rule: were there an interval on which it fails, there would be a shortest one
  (`LeastNatural`), and the code's next bounds are shorter (`BisectionKeeps`).
  From it follows `SearchExact`.
* *The ring.* `RingInv` is the type invariant and the order of times. One lemma
  on an insertion (`InsertPlaces`) says which element is in which place
  afterwards; `RingInductive`, `HistoryTyping` and `RingIsQueue` follow from it
  action by action. `RingIsQueue` is the refinement of `SampleQueue` with both
  of its halves, initial states and steps.
* *The log.* `LogInv` relates the ring to the log of all samples of the run.
  What the ring has lost is older than all it holds, or was displaced by an
  older one (`LostAreOld`): the code replaces the oldest sample by one that is
  older still. `DelaysAreExact` follows because a time between two neighbours
  of the ring is then between the same two samples of the log, and
  `RereadingIsStable` because the samples a read depends on are not the ones
  that a second evaluation replaces. For `IntervalsAreExact` a further
  invariant, `Pace`, says that the user slot is the phase and one period for
  each sample that was inserted, and never more than a period and a step behind.

`DelaysAreExact` is about actuators and sensors whose delay is applied once
(`channel.lists = 1`): of the others it is false (divergence 13). The
refinement, the search, `RereadingIsStable` and `IntervalsAreExact` cover both.

**Model-checked only.** Liveness (`EverySolveCompletes`, `BudgetCatchesUp`,
`FillEnds`) and the fairness half of the refinement are out of the prover's
reach. Every safety property that a passing run checks is a theorem.

## 5. Assumptions and what is left out

* A stream executes in order; threads of one kernel are arbitrarily
  interleaved at their atomic operations, and what a thread writes otherwise is
  read by later kernels only.
* The driver does not hand out an address again while the code remembers it;
  host calls into Warp are serialised (by the interpreter lock); callbacks of
  the driver come on a thread of their own, at any time.
* The scratch arrays of `HipGraphStep`'s timesteps, deferred module unloading,
  the order of frees on the device, and the allocation tracker are left out.
* `Collision` leaves out the filter callback for contacts and the geometry.
  It assumes that both tests of the broadphase are conservative for pairs that
  have the margin and gap of their geoms: such a pair, when nearer than these,
  passes the filter and is swept (`GeometryAssumption`). Of explicit pairs,
  which have their own, it assumes nothing. Pairs that the height field filter
  may drop, or that may be crowded, are of types that the convex kernels of
  height fields take.
* `Islands` is about a world with `ENABLE_ISLANDS`, which is false by default
  (`MJW/io.py:38`, `forward.py:707`). The loop of the island solver is one
  action; `SolverLoop` models the same loop over worlds.
* In `StepStreams` a function writes its arrays at one moment. A read that
  overlaps a write is found as a read before or after it.
* Rows of `Islands` come in the order of their kinds, as `make_constraint`
  numbers them (equality, friction, then limits and contacts).
* In `History` the time that `init_sensor_history` and `init_ctrl_history`
  give to all samples unless told (`Never`, -MJ_MAXVAL) is negative. The
  statement that intervals do not drift is for a phase of no more than a
  period ago (`RecentPhases`), as `init_sensor_history` asks for.
* Times in `History` that differ do so by more than the tolerance of the code,
  and steps are of one length. What an interpolation yields is the sequence of
  samples it depends on.
* Numeric kernels, model conversion, the Warp compiler and the scripts have no
  control state of the kind model checking reaches; the repository's own tests
  compare them with MuJoCo C.

## 6. Divergences between the code and what it says of itself

Numbers 5, 8, 9 and 10 have a run each. The others were found while the modules
were written; the modules contain them as the code has them, and the properties
name them as exceptions where they would be false (11 to 13).

1. The call of `step` that builds the graphs advances twelve timesteps
   (`MJW/forward.py:1586`; "one-step-per-call semantics", line 1637).
2. The sentinel -1 that is to disable the graph path is below the warmup
   threshold, so the recording is tried again (`:1483`, comment `:1567`).
3. A failed recording leaves the memory pool enabled (`:1563`, comment
   `:1522`).
4. One array stands for all when drift is tested (`:1592`, comment `:1606`).
5. An exception while recording leaves the native capture open and the
   fallback step runs on it (`:1558`, comment `:1549`).
6. An array released before the report of its graph's destruction is processed
   is never freed (`WARP/native/warp.cu:708`, comment `:208`).
7. Values staged for a capture that yields no graph are never freed (`:2985`,
   comment `:545`).
8. On HIP the second and later steps find no contact of rigid geoms: the kept
   list is read under a counter that was just cleared
   (`MJW/collision_driver.py:822`, comments `:800`, `:821`).
9. A connect or a weld whose rows end exactly at `njmax` is dropped
   (`MJW/constraint.py:193`, `:957`) while the counter includes it, so the
   solver reads rows nobody wrote; the message tells users to raise `njmax`
   to `nefc`, and data with `njmax` equal to `nefc` are accepted
   (`MJW/forward.py:245`, `io.py:1316`).
10. With flexes, collision detection reads `flexvert_xpos` while the second
    stream computes it (`MJW/forward.py:685`, comment `:682`).
11. The broadphase tests every pair by the margins and gaps of its geoms
    (`MJW/collision_driver.py:301`, `:407`), the narrowphase an explicit one by
    `pair_margin` and `pair_gap` (`collision_core.py:276`): an explicit pair
    nearer than its margin may not be listed, and nothing is printed
    (`types.py:1106`: "detect contact if dist<margin").
12. `contact.efc_address` is "address in efc; -1: not included"
    (`MJW/types.py:1740`). A flex contact does not reset it
    (`collision_flex.py:157`), so dimensions that it lacks keep what the slot's
    earlier contact had; and `make_data` builds the contact again from zeros
    after it has set -1 (`io.py:1145`, `:1160`), so in new data they keep 0. The
    kernel of sparse Jacobians (`constraint.py:2077`) takes each such address for
    a row of the contact and overwrites the entries of the row it names, in
    the first step already.
13. The tests that should keep some types out of `sensor_acc_adr` are joined by
    `|`, which no type fails (`MJW/io.py:655`), so the sensors of limits'
    forces are in two lists of one stage and `apply_sensor_delay` runs twice
    for them (`sensor.py:2722`). When a sample is due for the second call too, as
    it always is without an interval, that call takes the delayed value for the
    fresh one and stores it over the sample just stored: the ring feeds on
    itself ("insert the saved fresh values", `history.py:554`).

Smaller ones, without a run of their own: `MJW/solver.py:3517` says of a
recorded loop that the counter becomes zero, which a limit of zero contradicts;
`MJW/forward.py:1635` replays a tier that may exceed the caller's
`m.opt.iterations`; with sweep-and-prune a distance sensor between geoms far
apart finds no pair, which with NXN it does (of sensors
`NoContactLostSilently` is therefore relative to the pairs examined); the filter
of height fields measures with the margins of the geoms, without their gaps, and
drops a pair without a message (`collision_convex.py:277`); `step` within a
capture of the caller synchronises the device in the call that would build the
graphs (`forward.py:1496`), which the recording refuses; a step with NATIVECCD
disabled changes the routing of box-box pairs for the whole process
(`collision_driver.py:753`); the early return of `collision` leaves
`d.ncollision`, so an overflow is printed again by steps that search for nothing.

Of the later modules:

* Rows: nonzeros that do not fit leave a row with the size and place that an
  earlier step gave it, or with none, and the message at the end depends on the
  last row alone. `RowsExact` and `EntriesExact` are therefore stated for calls
  whose nonzeros fit (`RowsExact` of contacts for all), and `LossesReported`
  excepts the others.
* Streams: a CG solve within a capture of the caller still forks, and its
  `synchronize_stream` is refused with an error, although `fwd_position` avoids
  this (`forward.py:670`); `RefusedOnlyForCG` says that it is the only such case.
  The observation copy suggested at `io.py:1493` is not waited for by the next
  step, which may overwrite `qpos` first.
* Islands: a row that touches no tree has no place in an island, so the tail of
  `map_iefc2efc` stays zero (`island.py:816`). The threads of the tail then take
  it for row 0: they gather that row once more, when it is sparse to a place of
  an earlier step (`:658`), and scatter an old result over its force (`:765`).
  `ResultsExact` is stated for calls in which every row touches a tree.
* History: `reset_data` (`io.py:1823`) leaves the buffers, so samples of the run
  before are delivered after it. In a buffer zeroed by `make_data` the first
  sample enters as the oldest: it is delivered at once and is the next to be
  lost. A second `forward()` at the same time overwrites the sample of the
  first, as the stages of `rungekutta4` do; what is read changes with it when the
  delay is less than a step and interpolated, or as long as the ring. A first
  sample older than all that were loaded displaces the oldest of them
  (`history.py:279`), although it is itself the older one. `InRun` (with
  `Rooted`), `Covers` and the last conjuncts of `SameAgain` state these limits.

## 7. Plan

The modules were written in this order, and each is proved about as section 4
says: `SolverLoop` with `WorldSolve`, `HipGraphStep`, `GraphAlloc`,
`Collision`, `ConstraintRows`, `StepStreams`, `Islands`, `History` with
`SampleQueue`.

### Not modelled

* The registry of captures of `context.py`, `capture_if`, `capture_pause` and
  `capture_resume`: the simulation does not call them, and what a resumed
  stream's capture identifier is depends on the driver.
* The order of frees on device streams (`warp.cu:892`): it is a matter of the
  driver's pool, of which the code shows only the calls.
* Kinematics, dynamics, sensors, ray casting and rendering: floating-point
  functions of arrays. They keep no control state, and what could be wrong in
  them is a formula.
* Model and data construction (`io.py`): a conversion. What it attaches for AMD
  devices is initial state of `HipGraphStep` and `StepStreams`, what it leaves in
  new data that of `ConstraintRows` and `History`.
* The Warp compiler, its types, builtins and renderers: a vendored translator of
  Python sources. With the numeric kernels they are most of the repository's
  lines, so the modules here stand for a small share of them.
* The benchmark and evidence scripts: they start processes and compare files.

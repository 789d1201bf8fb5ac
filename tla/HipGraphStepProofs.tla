-------------------------- MODULE HipGraphStepProofs --------------------------
(***************************************************************************)
(* Proofs about HipGraphStep for every set of tiers, workloads, limits and *)
(* arrays: the settings step changes for the time of a recording, the      *)
(* drift check and the calibrated budget.                                  *)
(***************************************************************************)
EXTENDS HipGraphStepInv, TLAPS

-----------------------------------------------------------------------------
LEMMA MinMax ==
  ASSUME NEW S \in SUBSET Tiers, S # {}
  PROVE  /\ Min(S) \in S /\ \A k \in S : Min(S) <= k
         /\ Max(S) \in S /\ \A k \in S : Max(S) >= k
<1>1. /\ \E k \in S : \A j \in S : k <= j
      /\ \E k \in S : \A j \in S : k >= j
  BY TiersOrdered
<1>. QED  BY <1>1 DEF Min, Max

\* The calibrated budget is positive and covers the measured convergence.
LEMMA CalibratedCovers ==
  ASSUME NEW c \in Nat
  PROVE  Calibrated(c) \in Nat \ {0} /\ c <= Calibrated(c)
<1>. DEFINE n == (5 * c + 2) \div 4
<1>1. n \in Nat /\ (c >= 1 => n >= 1 /\ c <= n)
  OBVIOUS
<1>2. \E x \in {1, n} : \A y \in {1, n} : x >= y
  BY <1>1
<1>3. Max({1, n}) \in {1, n} /\ \A y \in {1, n} : Max({1, n}) >= y
  BY <1>2 DEF Max
<1>. HIDE DEF n
<1>4. Max({1, n}) \in Nat \ {0} /\ c <= Max({1, n})
  BY <1>1, <1>3
<1>. QED  BY <1>4 DEF Calibrated, n

\* The tier replayed is a tier, and covers the budget if any does.
LEMMA SelectedTier ==
  ASSUME Target \in Nat
  PROVE  Selected \in Tiers /\ (Selected >= Target \/ Selected = Max(Tiers))
<1>1. CASE \E k \in Tiers : k >= Target
  <2>1. Min({k \in Tiers : k >= Target}) \in {k \in Tiers : k >= Target}
    BY <1>1, MinMax
  <2>. QED  BY <1>1, <2>1 DEF Selected
<1>2. CASE ~\E k \in Tiers : k >= Target
  <2>1. Max(Tiers) \in Tiers
    BY MinMax, TiersAssumption
  <2>. QED  BY <1>2, <2>1 DEF Selected
<1>. QED  BY <1>1, <1>2

-----------------------------------------------------------------------------
LEMMA InitInv == Init => IndInv
<1>. SUFFICES ASSUME Init PROVE IndInv
  OBVIOUS
<1>1. TypeOK
  <2>. USE DEF Init
  <2>1. 0 \in 0..MaxMoves /\ 0 \in 0..Monitor - 1 /\ 0 \in -1..2 /\ 1 \in Nat \ {0}
    BY BufsAssumption, MonitorAssumption
  <2>2. ptr \in [Bufs -> 0..MaxMoves] /\ graphPtr \in [Bufs -> 0..MaxMoves]
    BY <2>1
  <2>3. iterations \in UserIters \cup Tiers /\ orig_iters \in UserIters /\ userIters \in UserIters
    OBVIOUS
  <2>4. /\ callerMempool \in BOOLEAN /\ mempool \in BOOLEAN /\ prev_mempool \in BOOLEAN
        /\ graphs \in BOOLEAN /\ capturing \in BOOLEAN
    BY Zenon
  <2>. QED  BY <2>1, <2>2, <2>3, <2>4 DEF TypeOK
<1>. QED
  BY <1>1, BufsAssumption
     DEF Init, IndInv, ItersOK, RecordingOK, FlagMatchesRecording, FingerprintOK, BudgetOK

\* The timesteps of a call keep the types of what they write.
LEMMA TimestepsType ==
  ASSUME TypeOK, NEW n \in Nat, NEW lim \in Nat, NEW already \in Nat,
         Timesteps(n, lim, already)
  PROVE  advanced' \in Nat /\ solver_niter' \in Nat /\ niterNeed' \in Nat
  BY WorkloadAssumption DEF TypeOK, Timesteps, Lesser, solveVars

\* A call that only runs the step body.
LEMMA StepBodyInv ==
  ASSUME IndInv, NEW already \in Nat, StepBody(already),
         iterations' = userIters, userIters' = userIters, capturing' = FALSE,
         stream' \in {"none", "caller", "step"},
         warmup_count' \in -1..2, graphs' = FALSE \/ graphs' = graphs,
         UNCHANGED <<use_graph, polls, env_iters, need, ptr, callerMempool, budgetVars,
                     graphPtr, fingerprint, localVars, mempool>>
  PROVE  IndInv'
<1>1. userIters \in Nat /\ userIters \in UserIters
  BY WorkloadAssumption DEF IndInv, TypeOK
<1>2. advanced' \in Nat /\ solver_niter' \in Nat /\ niterNeed' \in Nat
  <2>1. Timesteps(1, iterations', already)
    BY DEF StepBody
  <2>. QED  BY <1>1, <2>1, TimestepsType DEF IndInv
<1>3. pc' = "idle" /\ outcome' \in {"returned", "raised"}
  BY DEF StepBody
<1>4. TypeOK'
  <2>. USE DEF IndInv, TypeOK, budgetVars, localVars
  <2>1. /\ use_graph' \in BOOLEAN /\ polls' \in BOOLEAN /\ env_iters' \in EnvIters
        /\ userIters' \in UserIters /\ need' \in Needs /\ ptr' \in [Bufs -> 0..MaxMoves]
        /\ callerMempool' \in BOOLEAN /\ mempool' \in BOOLEAN /\ prev_mempool' \in BOOLEAN
        /\ iterations' \in UserIters \cup Tiers /\ orig_iters' \in UserIters
    BY <1>1
  <2>2. graphs' \in BOOLEAN /\ capturing' \in BOOLEAN
    BY Zenon
  <2>3. /\ graphPtr' \in [Bufs -> 0..MaxMoves] /\ fingerprint' \in 0..MaxMoves
        /\ auto_iters' \in Nat \ {0} /\ step_count' \in 0..Monitor - 1 /\ calib' \in Nat
        /\ captured' \subseteq Tiers
    OBVIOUS
  <2>. QED  BY <1>2, <1>3, <2>1, <2>2, <2>3
<1>5. ItersOK' /\ RecordingOK'
  BY <1>3 DEF ItersOK, RecordingOK, FlagMatchesRecording
<1>6. FingerprintOK'
  <2>1. graphs' => graphs
    BY Zenon
  <2>. QED  BY <2>1 DEF IndInv, FingerprintOK
<1>7. BudgetOK'
  BY DEF IndInv, BudgetOK, budgetVars
<1>. QED  BY <1>4, <1>5, <1>6, <1>7 DEF IndInv

LEMMA FallbackInv ==
  ASSUME IndInv, pc # "idle", NEW s \in {"none", "step"}, Fallback(s)
  PROVE  IndInv'
<1>1. /\ advanced \in Nat /\ orig_iters = userIters /\ graphs \in BOOLEAN
  BY DEF IndInv, TypeOK, ItersOK
<1>2. /\ stream' \in {"none", "caller", "step"} /\ warmup_count' \in -1..2
      /\ iterations' = userIters /\ userIters' = userIters
  BY <1>1 DEF Fallback, callerVars
<1>3. /\ StepBody(advanced) /\ capturing' = FALSE /\ graphs' = graphs
      /\ UNCHANGED <<use_graph, polls, env_iters, need, ptr, callerMempool, budgetVars,
                     graphPtr, fingerprint, localVars, mempool>>
  BY Zenon DEF Fallback, callerVars, recordVars
<1>. QED  BY <1>1, <1>2, <1>3, StepBodyInv, Zenon

LEMMA NoBuildInv ==
  ASSUME IndInv, EagerStep \/ WarmUp \/ Drift
  PROVE  IndInv'
<1>1. pc = "idle" /\ iterations = userIters /\ capturing = FALSE
  <2>1. pc = "idle"
    BY DEF EagerStep, WarmUp, Drift, Ready
  <2>2. ~capturing
    BY <2>1 DEF IndInv, RecordingOK, FlagMatchesRecording
  <2>3. capturing = FALSE
    BY <2>2, Zenon DEF IndInv, TypeOK
  <2>. QED  BY <2>1, <2>3 DEF IndInv, ItersOK
<1>2. stream \in {"none", "caller", "step"} /\ warmup_count \in -1..2
  BY DEF IndInv, TypeOK
<1>3. CASE EagerStep
  BY <1>1, <1>2, <1>3, StepBodyInv DEF EagerStep, callerVars, recordVars
<1>4. CASE WarmUp
  <2>1. warmup_count' \in -1..2
    BY <1>2, <1>4 DEF WarmUp, NeedsWarmUp
  <2>. QED  BY <1>1, <1>2, <1>4, <2>1, StepBodyInv DEF WarmUp, callerVars, recordVars
<1>5. CASE Drift
  <2>1. /\ warmup_count' \in -1..2 /\ stream' \in {"none", "caller", "step"}
        /\ 0 \in Nat /\ iterations' = userIters /\ userIters' = userIters
    BY <1>1, <1>2, <1>5 DEF Drift, callerVars
  <2>2. /\ StepBody(0) /\ capturing' = FALSE /\ graphs' = FALSE
        /\ UNCHANGED <<use_graph, polls, env_iters, need, ptr, callerMempool, budgetVars,
                       graphPtr, fingerprint, localVars, mempool>>
    BY <1>1, <1>5, Zenon DEF Drift, callerVars
  <2>. QED  BY <2>1, <2>2, StepBodyInv, Zenon
<1>. QED  BY <1>3, <1>4, <1>5

LEMMA StartBuildInv ==
  ASSUME IndInv, StartBuild
  PROVE  IndInv'
<1>. USE DEF StartBuild, NeedsBuild
<1>1. /\ iterations = userIters /\ ~capturing /\ userIters \in UserIters /\ userIters \in Nat
  BY WorkloadAssumption DEF IndInv, TypeOK, ItersOK, RecordingOK, FlagMatchesRecording
<1>2. advanced' \in Nat /\ solver_niter' \in Nat /\ niterNeed' \in Nat
  BY <1>1, TimestepsType DEF IndInv
<1>3. auto_iters' \in Nat \ {0} /\ calib' <= auto_iters' /\ calib' \in Nat
  BY <1>2, CalibratedCovers
<1>4. TypeOK'
  <2>. USE DEF IndInv, TypeOK, callerVars, recordVars
  <2>1. /\ use_graph' \in BOOLEAN /\ polls' \in BOOLEAN /\ env_iters' \in EnvIters
        /\ userIters' \in UserIters /\ need' \in Needs /\ ptr' \in [Bufs -> 0..MaxMoves]
        /\ iterations' \in UserIters \cup Tiers /\ orig_iters' \in UserIters
    BY <1>1
  <2>2. /\ callerMempool' \in BOOLEAN /\ mempool' \in BOOLEAN /\ prev_mempool' \in BOOLEAN
        /\ graphs' \in BOOLEAN /\ capturing' \in BOOLEAN
    BY Zenon
  <2>3. step_count' \in 0..Monitor - 1
    BY MonitorAssumption
  <2>4. /\ graphPtr' \in [Bufs -> 0..MaxMoves] /\ fingerprint' \in 0..MaxMoves
        /\ captured' \subseteq Tiers /\ warmup_count' \in -1..2
        /\ stream' \in {"none", "caller", "step"}
        /\ outcome' \in {"none", "returned", "raised"}
        /\ pc' \in {"idle", "capture", "record"}
    OBVIOUS
  <2>. QED  BY <1>2, <1>3, <2>1, <2>2, <2>3, <2>4
<1>5. ItersOK' /\ RecordingOK' /\ BudgetOK'
  BY <1>1, <1>3 DEF ItersOK, RecordingOK, FlagMatchesRecording, BudgetOK, callerVars
<1>6. FingerprintOK'
  BY DEF IndInv, FingerprintOK, recordVars
<1>. QED  BY <1>4, <1>5, <1>6 DEF IndInv

LEMMA BuildRefusedInv ==
  ASSUME IndInv, BuildRefused
  PROVE  IndInv'
<1>. USE DEF BuildRefused, callerVars, solveVars, budgetVars, recordVars, localVars
<1>1. outcome' \in {"none", "returned", "raised"} /\ advanced' \in Nat
  OBVIOUS
<1>2. TypeOK'
  BY <1>1, ZenonT(30) DEF IndInv, TypeOK
<1>3. ItersOK' /\ RecordingOK' /\ FingerprintOK' /\ BudgetOK'
  BY DEF IndInv, ItersOK, RecordingOK, FlagMatchesRecording, FingerprintOK, BudgetOK
<1>. QED  BY <1>2, <1>3 DEF IndInv

LEMMA CaptureBeginInv ==
  ASSUME IndInv, CaptureBegin
  PROVE  IndInv'
<1>. USE DEF CaptureBegin, callerVars, solveVars, budgetVars, recordVars, localVars
<1>1. iterations' \in Tiers
  <2>1. Remaining \in SUBSET Tiers /\ Remaining # {}
    BY DEF Remaining
  <2>. QED  BY <2>1, MinMax
<1>2. iterations' \in UserIters \cup Tiers /\ stream' \in {"none", "caller", "step"}
      /\ pc' \in {"idle", "capture", "record"}
  BY <1>1
<1>3. capturing' \in BOOLEAN /\ capturing'
  BY Zenon
<1>4. TypeOK'
  BY <1>2, <1>3, Zenon DEF IndInv, TypeOK
<1>5. ItersOK' /\ FingerprintOK' /\ BudgetOK'
  BY <1>1 DEF IndInv, ItersOK, FingerprintOK, BudgetOK
<1>6. RecordingOK'
  BY <1>3 DEF RecordingOK, FlagMatchesRecording
<1>. QED  BY <1>4, <1>5, <1>6 DEF IndInv

LEMMA CaptureEndInv ==
  ASSUME IndInv, CaptureEnd
  PROVE  IndInv'
<1>. USE DEF CaptureEnd, callerVars, solveVars, budgetVars, recordVars
<1>1. captured' \subseteq Tiers /\ stream' \in {"none", "caller", "step"}
      /\ pc' \in {"idle", "capture", "record"}
  BY DEF IndInv, TypeOK, ItersOK
<1>2. capturing' \in BOOLEAN /\ ~capturing'
  BY Zenon
<1>3. TypeOK'
  BY <1>1, <1>2, Zenon DEF IndInv, TypeOK
<1>4. ItersOK' /\ FingerprintOK' /\ BudgetOK'
  BY DEF IndInv, ItersOK, FingerprintOK, BudgetOK
<1>5. RecordingOK'
  BY <1>2 DEF RecordingOK, FlagMatchesRecording
<1>. QED  BY <1>3, <1>4, <1>5 DEF IndInv

LEMMA FinishBuildInv ==
  ASSUME IndInv, FinishBuild
  PROVE  IndInv'
<1>. USE DEF FinishBuild, callerVars, budgetVars, localVars
<1>1. advanced' \in Nat /\ solver_niter' \in Nat /\ niterNeed' \in Nat
  BY TimestepsType DEF IndInv, TypeOK
<1>2. /\ iterations' = userIters /\ iterations' \in UserIters \cup Tiers
      /\ stream' \in {"none", "caller", "step"} /\ ~capturing'
  BY DEF IndInv, TypeOK, ItersOK, RecordingOK, FlagMatchesRecording
<1>3. /\ graphPtr' \in [Bufs -> 0..MaxMoves] /\ fingerprint' \in 0..MaxMoves
      /\ pc' \in {"idle", "capture", "record"} /\ outcome' \in {"none", "returned", "raised"}
      /\ fingerprint' = graphPtr'[Watched]
  BY BufsAssumption DEF IndInv, TypeOK
<1>4. /\ graphs' \in BOOLEAN /\ capturing' \in BOOLEAN /\ mempool' \in BOOLEAN
      /\ callerMempool' \in BOOLEAN /\ prev_mempool' \in BOOLEAN
  BY Zenon DEF IndInv, TypeOK
<1>5. TypeOK'
  BY <1>1, <1>2, <1>3, <1>4, Zenon DEF IndInv, TypeOK
<1>6. ItersOK' /\ RecordingOK' /\ FingerprintOK' /\ BudgetOK'
  BY <1>2, <1>3 DEF IndInv, ItersOK, RecordingOK, FlagMatchesRecording, FingerprintOK, BudgetOK
<1>. QED  BY <1>5, <1>6 DEF IndInv

LEMMA LaunchInv ==
  ASSUME IndInv, Launch
  PROVE  IndInv'
<1>. USE DEF Launch, Ready, callerVars, recordVars, localVars
<1>1. Target \in Nat
  BY WorkloadAssumption DEF Target, IndInv, TypeOK
<1>2. Selected \in Tiers /\ Selected \in Nat /\ (env_iters = 0 => Selected >= auto_iters \/ Selected = Max(Tiers))
  BY <1>1, SelectedTier, TiersAssumption DEF Target
<1>3. advanced' \in Nat /\ solver_niter' \in Nat /\ niterNeed' \in Nat
  BY <1>2, TimestepsType DEF IndInv
<1>4. /\ auto_iters' \in Nat \ {0} /\ auto_iters' >= auto_iters
      /\ step_count' \in 0..Monitor - 1
  <2>1. auto_iters \in Nat \ {0} /\ step_count \in 0..Monitor - 1
    BY DEF IndInv, TypeOK
  <2>2. (step_count + 1) % Monitor \in 0..Monitor - 1
    BY <2>1, MonitorAssumption
  <2>3. CASE UNCHANGED auto_iters
    BY <2>1, <2>2, <2>3 DEF MonitorBudget
  <2>4. CASE auto_iters' # auto_iters
    <3>1. /\ env_iters = 0 /\ Selected < Max(Tiers)
          /\ auto_iters' = Min({k \in Tiers : k > Selected})
          /\ step_count' \in 0..Monitor - 1
      BY <2>1, <2>2, <2>4 DEF MonitorBudget, Escalate
    <3>2. Max(Tiers) \in Tiers
      BY MinMax, TiersAssumption
    <3>3. auto_iters' \in {k \in Tiers : k > Selected}
      BY <3>1, <3>2, MinMax
    <3>4. Selected >= auto_iters
      BY <1>2, <3>1, <3>2, TiersAssumption
    <3>. QED  BY <1>2, <2>1, <3>1, <3>3, <3>4, TiersAssumption
  <2>. QED  BY <2>3, <2>4
<1>5. TypeOK'
  <2>1. outcome' \in {"none", "returned", "raised"}
    OBVIOUS
  <2>. QED  BY <1>3, <1>4, <2>1, Zenon DEF IndInv, TypeOK
<1>6. ItersOK' /\ RecordingOK' /\ FingerprintOK'
  BY DEF IndInv, ItersOK, RecordingOK, FlagMatchesRecording, FingerprintOK
<1>7. BudgetOK'
  BY <1>4 DEF IndInv, TypeOK, BudgetOK
<1>. QED  BY <1>5, <1>6, <1>7 DEF IndInv

\* Between two calls the caller changes what is his.
LEMMA CallerInv ==
  ASSUME IndInv, Caller
  PROVE  IndInv'
<1>. USE DEF Caller, solveVars, budgetVars, recordVars, localVars
<1>1. pc = "idle" /\ iterations = userIters
  BY DEF IndInv, ItersOK
<1>2. /\ userIters' \in UserIters /\ iterations' = userIters'
      /\ need' \in Needs /\ stream' \in {"none", "caller", "step"}
  BY <1>1 DEF Settings, IndInv, TypeOK
<1>3. use_graph' \in BOOLEAN
  BY Zenon DEF Settings, IndInv, TypeOK
<1>4. ptr' \in [Bufs -> 0..MaxMoves]
  <2>1. ptr \in [Bufs -> 0..MaxMoves]
    BY DEF IndInv, TypeOK
  <2>2. ASSUME NEW b \in Bufs, ptr[b] < MaxMoves, ptr' = [ptr EXCEPT ![b] = @ + 1]
        PROVE  ptr' \in [Bufs -> 0..MaxMoves]
    <3>1. ptr[b] + 1 \in 0..MaxMoves
      BY <2>1, <2>2, BufsAssumption
    <3>. QED  BY <2>1, <2>2, <3>1
  <2>. QED  BY <2>1, <2>2 DEF Settings
<1>5. TypeOK'
  <2>1. iterations' \in UserIters \cup Tiers
    BY <1>2
  <2>. QED  BY <1>2, <1>3, <1>4, <2>1, Zenon DEF IndInv, TypeOK
<1>6. ItersOK' /\ RecordingOK' /\ FingerprintOK' /\ BudgetOK'
  BY <1>1, <1>2
     DEF IndInv, ItersOK, RecordingOK, FlagMatchesRecording, FingerprintOK, BudgetOK
<1>. QED  BY <1>5, <1>6 DEF IndInv

\* The invariant of the protocol.
THEOREM StepInductive == Spec => []IndInv
<1>1. IndInv /\ [Next]_vars => IndInv'
  <2>. SUFFICES ASSUME IndInv, [Next]_vars PROVE IndInv'
    OBVIOUS
  <2>1. CASE EagerStep \/ WarmUp \/ Drift
    BY <2>1, NoBuildInv
  <2>2. CASE StartBuild
    BY <2>2, StartBuildInv
  <2>3. CASE BuildRefused
    BY <2>3, BuildRefusedInv
  <2>4. CASE Launch
    BY <2>4, LaunchInv
  <2>5. CASE CaptureBegin \/ CaptureEnd \/ FinishBuild
    BY <2>5, CaptureBeginInv, CaptureEndInv, FinishBuildInv
  <2>6. CASE BeginFails \/ RecordFails \/ EndFails
    BY <2>6, FallbackInv DEF BeginFails, RecordFails, EndFails
  <2>7. CASE Caller
    BY <2>7, CallerInv
  <2>8. CASE UNCHANGED vars
    <3>. USE DEF vars, callerVars, solveVars, budgetVars, recordVars, localVars
    <3>1. TypeOK'
      <4>1. /\ UNCHANGED <<use_graph, polls, env_iters, userIters, need, ptr, callerMempool>>
            /\ UNCHANGED <<solver_niter, niterNeed, auto_iters, step_count, calib>>
            /\ UNCHANGED <<graphs, graphPtr, fingerprint, captured, orig_iters, prev_mempool>>
            /\ UNCHANGED <<iterations, warmup_count, capturing, mempool, stream>>
            /\ UNCHANGED <<pc, outcome, advanced>>
        BY <2>8
      <4>2. /\ use_graph' \in BOOLEAN /\ polls' \in BOOLEAN /\ callerMempool' \in BOOLEAN
            /\ mempool' \in BOOLEAN /\ prev_mempool' \in BOOLEAN
            /\ graphs' \in BOOLEAN /\ capturing' \in BOOLEAN
        BY <4>1, Zenon DEF IndInv, TypeOK
      <4>. QED  BY <4>1, <4>2 DEF IndInv, TypeOK
    <3>2. ItersOK' /\ RecordingOK' /\ FingerprintOK' /\ BudgetOK'
      BY <2>8
         DEF IndInv, ItersOK, RecordingOK, FlagMatchesRecording, FingerprintOK, BudgetOK
    <3>. QED  BY <3>1, <3>2 DEF IndInv
  <2>. QED
    BY <2>1, <2>2, <2>3, <2>4, <2>5, <2>6, <2>7, <2>8 DEF Next, Step, Build
<1>. QED  BY <1>1, InitInv, PTL DEF Spec

\* Types of the attributes of m and d that step keeps its state in.
THEOREM StepTyping == Spec => []TypeOK
<1>1. IndInv => TypeOK
  BY DEF IndInv
<1>. QED  BY <1>1, StepInductive, PTL

\* m.opt.iterations is the caller's whenever step is not running (forward.step
\* overwrites it for each recording, and has three ways to fail there).
THEOREM LimitsRestored == Spec => []IterationsRestored
<1>1. IndInv => IterationsRestored
  BY DEF IndInv, ItersOK, IterationsRestored
<1>. QED  BY <1>1, StepInductive, PTL

\* _hip_graph_capturing is set exactly while step records.
THEOREM FlagExact == Spec => []FlagMatchesRecording
<1>1. IndInv => FlagMatchesRecording
  BY DEF IndInv, RecordingOK
<1>. QED  BY <1>1, StepInductive, PTL

\* The drift check keeps replays off graphs older than the remembered array.
THEOREM NoStaleWatched == Spec => WatchedIsLive
<1>1. IndInv /\ Launch => ptr[Watched] = graphPtr[Watched]
  BY DEF IndInv, FingerprintOK, Launch, Ready, Drifted
<1>. QED  BY <1>1, StepInductive, PTL DEF WatchedIsLive

\* Calibration and monitor never select a tier below the measured convergence.
THEOREM WarmupCovered == Spec => TierCoversWarmup
<1>1. IndInv /\ Launch /\ env_iters = 0 => Selected >= calib \/ Selected = Max(Tiers)
  <2>. SUFFICES ASSUME IndInv, env_iters = 0
                PROVE  Selected >= calib \/ Selected = Max(Tiers)
    OBVIOUS
  <2>1. Target = auto_iters /\ auto_iters \in Nat /\ calib \in Nat /\ calib <= auto_iters
    BY DEF IndInv, TypeOK, BudgetOK, Target
  <2>2. Selected \in Tiers /\ (Selected >= Target \/ Selected = Max(Tiers))
    <3>1. Target \in Nat
      BY <2>1
    <3>. QED  BY <3>1, SelectedTier
  <2>3. Selected \in Nat
    BY <2>2, TiersAssumption
  <2>. QED  BY <2>1, <2>2, <2>3
<1>. QED  BY <1>1, StepInductive, PTL DEF TierCoversWarmup
=============================================================================

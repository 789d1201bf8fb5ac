--------------------------- MODULE SolverLoopProofs ---------------------------
(***************************************************************************)
(* Proofs about SolverLoop for every batch, every set of iteration limits, *)
(* every poll interval and any number of solves: IndInv is inductive, so   *)
(* the counter is exact and the result of every solve is that of a solve   *)
(* of each world alone, and the pipeline implements WorldSolve.            *)
(***************************************************************************)
EXTENDS SolverLoopInv, FiniteSetTheorems, SequenceTheorems, TLAPS

-----------------------------------------------------------------------------
(* Chains of operations.                                                   *)

LEMMA OpType ==
  ASSUME NEW k \in Kinds, NEW i \in Nat, NEW c \in Nat
  PROVE  /\ Op(k, i, c) \in Ops
         /\ Op(k, i, c).kind = k /\ Op(k, i, c).it = i /\ Op(k, i, c).cap = c
BY DEF Op, Ops

\* A chain stays one when another that may follow its last operation is appended.
LEMMA ChainConcat ==
  ASSUME NEW s \in Seq(Ops), NEW t \in Seq(Ops), Chain(s), Chain(t),
         s # <<>> /\ t # <<>> => Follows(s[Len(s)], t[1])
  PROVE  Chain(s \o t)
<1>1. /\ s \o t \in Seq(Ops)
      /\ Len(s \o t) = Len(s) + Len(t)
      /\ \A i \in 1 .. Len(s) + Len(t) :
           (s \o t)[i] = IF i <= Len(s) THEN s[i] ELSE t[i - Len(s)]
  BY ConcatProperties
<1>2. Len(s) \in Nat /\ Len(t) \in Nat /\ (s = <<>> <=> Len(s) = 0) /\ (t = <<>> <=> Len(t) = 0)
  BY EmptySeq, LenProperties
<1>3. \A i \in 1..Len(s \o t) : OpOK((s \o t)[i])
  BY <1>1, <1>2 DEF Chain
<1>4. ASSUME NEW i \in 1..Len(s \o t) - 1
      PROVE  Follows((s \o t)[i], (s \o t)[i + 1])
  <2>1. CASE i + 1 <= Len(s)
    BY <1>1, <1>2, <2>1 DEF Chain
  <2>2. CASE i = Len(s)
    BY <1>1, <1>2, <2>2
  <2>3. CASE i > Len(s)
    <3>1. i - Len(s) \in 1..Len(t) - 1 /\ (i + 1) - Len(s) = (i - Len(s)) + 1
      BY <1>1, <1>2, <2>3
    <3>2. (s \o t)[i] = t[i - Len(s)] /\ (s \o t)[i + 1] = t[(i - Len(s)) + 1]
      BY <1>1, <1>2, <2>3, <3>1
    <3>. QED  BY <3>1, <3>2 DEF Chain
  <2>. QED  BY <1>1, <1>2, <2>1, <2>2, <2>3
<1>. QED  BY <1>3, <1>4 DEF Chain

\* The first and the last element of a concatenation.
LEMMA ConcatEnds ==
  ASSUME NEW s \in Seq(Ops), NEW t \in Seq(Ops), t # <<>>
  PROVE  /\ s \o t \in Seq(Ops)
         /\ s \o t # <<>>
         /\ (s \o t)[Len(s \o t)] = t[Len(t)]
         /\ (s \o t)[1] = IF s = <<>> THEN t[1] ELSE s[1]
         /\ Len(s \o t) = Len(s) + Len(t)
<1>1. /\ s \o t \in Seq(Ops)
      /\ Len(s \o t) = Len(s) + Len(t)
      /\ \A i \in 1 .. Len(s) + Len(t) :
           (s \o t)[i] = IF i <= Len(s) THEN s[i] ELSE t[i - Len(s)]
  BY ConcatProperties
<1>2. Len(s) \in Nat /\ Len(t) \in Nat /\ (s = <<>> <=> Len(s) = 0) /\ (t = <<>> <=> Len(t) = 0)
  BY EmptySeq, LenProperties
<1>3. s \o t # <<>>
  BY <1>1, <1>2, EmptySeq
<1>. QED  BY <1>1, <1>2, <1>3

\* Completing the oldest operation of a chain.
LEMMA ChainTail ==
  ASSUME NEW s \in Seq(Ops), s # <<>>, Chain(s)
  PROVE  /\ Tail(s) \in Seq(Ops)
         /\ Chain(Tail(s))
         /\ OpOK(s[1]) /\ Head(s) = s[1]
         /\ Tail(s) = <<>> => s[1] = s[Len(s)]
         /\ Tail(s) # <<>> => /\ Follows(s[1], Tail(s)[1])
                              /\ OpOK(Tail(s)[1])
                              /\ Tail(s)[Len(Tail(s))] = s[Len(s)]
<1>1. /\ Tail(s) \in Seq(Ops)
      /\ Len(Tail(s)) = Len(s) - 1
      /\ \A i \in 1..Len(Tail(s)) : Tail(s)[i] = s[i + 1]
  BY HeadTailProperties
<1>2. Len(s) \in Nat \ {0} /\ (Tail(s) = <<>> <=> Len(Tail(s)) = 0)
  BY <1>1, EmptySeq, LenProperties
<1>3. Chain(Tail(s))
  <2>1. \A i \in 1..Len(Tail(s)) : OpOK(Tail(s)[i])
    BY <1>1, <1>2 DEF Chain
  <2>2. ASSUME NEW i \in 1..Len(Tail(s)) - 1
        PROVE  Follows(Tail(s)[i], Tail(s)[i + 1])
    <3>1. i + 1 \in 1..Len(s) - 1 /\ i \in 1..Len(Tail(s)) /\ i + 1 \in 1..Len(Tail(s))
      BY <1>1, <1>2
    <3>. QED  BY <1>1, <3>1 DEF Chain
  <2>. QED  BY <2>1, <2>2 DEF Chain
<1>4. Tail(s) = <<>> => s[1] = s[Len(s)]
  BY <1>1, <1>2
<1>5. Tail(s) # <<>> => /\ Follows(s[1], Tail(s)[1])
                        /\ OpOK(Tail(s)[1])
                        /\ Tail(s)[Len(Tail(s))] = s[Len(s)]
  BY <1>1, <1>2 DEF Chain
<1>6. OpOK(s[1]) /\ Head(s) = s[1]
  BY <1>2 DEF Chain
<1>. QED  BY <1>1, <1>3, <1>4, <1>5, <1>6

\* The pieces the host enqueues are chains.
LEMMA ChainPieces ==
  ASSUME NEW c \in Nat, NEW i \in Nat
  PROVE  /\ Prologue(c) \in Seq(Ops) /\ Chain(Prologue(c)) /\ Len(Prologue(c)) = 2
         /\ Prologue(c)[1] = Op("init_context", 0, c)
         /\ Prologue(c)[2] = Op("reset_nsolving", 0, c)
         /\ SolverIteration(i, c) \in Seq(Ops) /\ Len(SolverIteration(i, c)) = 2
         /\ SolverIteration(i, c)[1] = Op("iteration", i, c)
         /\ SolverIteration(i, c)[2] = Op("solve_done", i, c)
         /\ 1 <= i /\ i <= c => Chain(SolverIteration(i, c))
<1>1. \A k \in Kinds, j \in Nat : /\ Op(k, j, c) \in Ops /\ Op(k, j, c).kind = k
                                  /\ Op(k, j, c).it = j /\ Op(k, j, c).cap = c
  BY OpType
<1>2. Prologue(c) \in Seq(Ops) /\ Len(Prologue(c)) = 2
      /\ Prologue(c)[1] = Op("init_context", 0, c)
      /\ Prologue(c)[2] = Op("reset_nsolving", 0, c)
  BY <1>1 DEF Prologue, Kinds
<1>3. OpOK(Prologue(c)[1]) /\ OpOK(Prologue(c)[2]) /\ Follows(Prologue(c)[1], Prologue(c)[2])
  BY <1>1, <1>2 DEF OpOK, Follows, Kinds
<1>4. Chain(Prologue(c))
  BY <1>2, <1>3 DEF Chain
<1>5. SolverIteration(i, c) \in Seq(Ops) /\ Len(SolverIteration(i, c)) = 2
      /\ SolverIteration(i, c)[1] = Op("iteration", i, c)
      /\ SolverIteration(i, c)[2] = Op("solve_done", i, c)
  BY <1>1 DEF SolverIteration, Kinds
<1>6. ASSUME 1 <= i, i <= c  PROVE Chain(SolverIteration(i, c))
  <2>1. OpOK(SolverIteration(i, c)[1]) /\ OpOK(SolverIteration(i, c)[2])
        /\ Follows(SolverIteration(i, c)[1], SolverIteration(i, c)[2])
    BY <1>1, <1>5, <1>6 DEF OpOK, Follows, Kinds
  <2>. QED  BY <1>5, <2>1 DEF Chain
<1>. QED  BY <1>2, <1>4, <1>5, <1>6

LEMMA SingleOp ==
  ASSUME NEW k \in {"copy", "while"}, NEW i \in Nat, NEW c \in Nat, c >= 1,
         k = "while" => i >= 1
  PROVE  /\ <<Op(k, i, c)>> \in Seq(Ops) /\ <<Op(k, i, c)>> # <<>>
         /\ Len(<<Op(k, i, c)>>) = 1 /\ <<Op(k, i, c)>>[1] = Op(k, i, c)
         /\ Chain(<<Op(k, i, c)>>)
<1>1. Op(k, i, c) \in Ops /\ Op(k, i, c).kind = k /\ Op(k, i, c).it = i /\ Op(k, i, c).cap = c
  BY OpType DEF Kinds
<1>2. <<Op(k, i, c)>> \in Seq(Ops) /\ <<Op(k, i, c)>> # <<>>
      /\ Len(<<Op(k, i, c)>>) = 1 /\ <<Op(k, i, c)>>[1] = Op(k, i, c)
  BY <1>1
<1>3. OpOK(Op(k, i, c))
  BY <1>1 DEF OpOK
<1>. QED  BY <1>2, <1>3 DEF Chain

\* The loop body recorded c times is a chain that ends a solve.
LEMMA UnrolledChain ==
  ASSUME NEW c \in Nat
  PROVE  /\ Unrolled(c) \in Seq(Ops) /\ Len(Unrolled(c)) = 2 * c
         /\ Chain(Unrolled(c))
         /\ c >= 1 => /\ Unrolled(c)[1] = Op("iteration", 1, c)
                      /\ LastOfSolve(Unrolled(c)[Len(Unrolled(c))])
<1>1. \A k \in Kinds, j \in Nat : /\ Op(k, j, c) \in Ops /\ Op(k, j, c).kind = k
                                  /\ Op(k, j, c).it = j /\ Op(k, j, c).cap = c
  BY OpType
<1>2. ASSUME NEW i \in 1..2 * c
      PROVE  /\ (i + 1) \div 2 \in Nat /\ 1 <= (i + 1) \div 2 /\ (i + 1) \div 2 <= c
             /\ (IF i % 2 = 1 THEN "iteration" ELSE "solve_done") \in Kinds
  <2>1. (i + 1) \div 2 \in Nat /\ 1 <= (i + 1) \div 2 /\ (i + 1) \div 2 <= c
    BY SMT
  <2>. QED  BY <2>1 DEF Kinds
<1>3. Unrolled(c) \in [1..2 * c -> Ops]
  BY <1>1, <1>2 DEF Unrolled
<1>4. Unrolled(c) \in Seq(Ops) /\ Len(Unrolled(c)) = 2 * c
  <2>1. 2 * c \in Nat
    OBVIOUS
  <2>. QED  BY <1>3, <2>1, SeqDef DEF Unrolled
<1>5. \A i \in 1..2 * c : Unrolled(c)[i] =
        Op(IF i % 2 = 1 THEN "iteration" ELSE "solve_done", (i + 1) \div 2, c)
  BY DEF Unrolled
<1>6. ASSUME NEW i \in 1..2 * c  PROVE OpOK(Unrolled(c)[i])
  <2>1. CASE i % 2 = 1
    <3>1. Unrolled(c)[i] = Op("iteration", (i + 1) \div 2, c)
      BY <1>5, <2>1
    <3>. QED  BY <1>1, <1>2, <3>1 DEF OpOK, Kinds
  <2>2. CASE i % 2 # 1
    <3>1. Unrolled(c)[i] = Op("solve_done", (i + 1) \div 2, c)
      BY <1>5, <2>2
    <3>. QED  BY <1>1, <1>2, <3>1 DEF OpOK, Kinds
  <2>. QED  BY <2>1, <2>2
<1>7. ASSUME NEW i \in 1..2 * c - 1  PROVE Follows(Unrolled(c)[i], Unrolled(c)[i + 1])
  <2>1. i \in 1..2 * c /\ i + 1 \in 1..2 * c /\ (i + 1) \div 2 \in Nat
    BY <1>2
  <2>2. CASE i % 2 = 1
    <3>1. (i + 1) % 2 # 1 /\ ((i + 1) + 1) \div 2 = (i + 1) \div 2
      BY <2>2
    <3>2. /\ Unrolled(c)[i] = Op("iteration", (i + 1) \div 2, c)
          /\ Unrolled(c)[i + 1] = Op("solve_done", (i + 1) \div 2, c)
      BY <1>5, <2>1, <2>2, <3>1
    <3>. QED  BY <1>1, <2>1, <3>2 DEF Follows, Kinds
  <2>3. CASE i % 2 # 1
    <3>1. (i + 1) % 2 = 1 /\ ((i + 1) + 1) \div 2 = ((i + 1) \div 2) + 1
      BY <2>3
    <3>2. /\ Unrolled(c)[i] = Op("solve_done", (i + 1) \div 2, c)
          /\ Unrolled(c)[i + 1] = Op("iteration", ((i + 1) \div 2) + 1, c)
      BY <1>5, <2>1, <2>3, <3>1
    <3>. QED  BY <1>1, <2>1, <3>2 DEF Follows, Kinds
  <2>. QED  BY <2>2, <2>3
<1>8. ASSUME c >= 1
      PROVE  Unrolled(c)[1] = Op("iteration", 1, c) /\ LastOfSolve(Unrolled(c)[2 * c])
  <2>1. (1 + 1) \div 2 = 1 /\ 1 % 2 = 1 /\ (2 * c) % 2 # 1 /\ (2 * c + 1) \div 2 = c
    OBVIOUS
  <2>2. 1 \in 1..2 * c /\ 2 * c \in 1..2 * c
    BY <1>8
  <2>3. Unrolled(c)[1] = Op("iteration", 1, c) /\ Unrolled(c)[2 * c] = Op("solve_done", c, c)
    BY <1>5, <2>1, <2>2
  <2>. QED  BY <1>1, <2>3 DEF LastOfSolve, Kinds
<1>. QED  BY <1>4, <1>6, <1>7, <1>8 DEF Chain

\* What a capture records is a whole solve.
LEMMA RecordedSolve ==
  ASSUME NEW c \in Nat
  PROVE  /\ Recorded(c) \in Seq(Ops) /\ Chain(Recorded(c))
         /\ Recorded(c) # <<>> /\ Recorded(c)[1].kind = "init_context"
         /\ LastOfSolve(Recorded(c)[Len(Recorded(c))])
<1>1. /\ Prologue(c) \in Seq(Ops) /\ Chain(Prologue(c)) /\ Len(Prologue(c)) = 2
      /\ Prologue(c)[1] = Op("init_context", 0, c)
      /\ Prologue(c)[2] = Op("reset_nsolving", 0, c)
      /\ Prologue(c) # <<>>
  BY ChainPieces DEF Prologue
<1>2. \A k \in Kinds, j \in Nat : /\ Op(k, j, c) \in Ops /\ Op(k, j, c).kind = k
                                  /\ Op(k, j, c).it = j /\ Op(k, j, c).cap = c
  BY OpType
<1>3. ASSUME NEW t \in Seq(Ops), t # <<>>, Chain(t), LastOfSolve(t[Len(t)]),
             t[1] \in {Op("iteration", 1, c), Op("while", 1, c)}
      PROVE  /\ Prologue(c) \o t \in Seq(Ops) /\ Chain(Prologue(c) \o t)
             /\ Prologue(c) \o t # <<>> /\ (Prologue(c) \o t)[1].kind = "init_context"
             /\ LastOfSolve((Prologue(c) \o t)[Len(Prologue(c) \o t)])
  <2>1. Follows(Prologue(c)[Len(Prologue(c))], t[1])
    BY <1>1, <1>2, <1>3 DEF Follows, Kinds
  <2>2. Chain(Prologue(c) \o t)
    BY <1>1, <1>3, <2>1, ChainConcat
  <2>3. (Prologue(c) \o t)[1] = Prologue(c)[1]
        /\ (Prologue(c) \o t)[Len(Prologue(c) \o t)] = t[Len(t)]
        /\ Prologue(c) \o t \in Seq(Ops) /\ Prologue(c) \o t # <<>>
    BY <1>1, <1>3, ConcatEnds
  <2>. QED  BY <1>1, <1>2, <1>3, <2>2, <2>3 DEF Kinds
<1>4. ASSUME c = 0
      PROVE  Prologue(c) \o <<>> = Prologue(c) /\ LastOfSolve(Prologue(c)[2])
  BY <1>1, <1>2, <1>4, ConcatEmptySeq DEF LastOfSolve, Kinds
<1>5. CASE config.conditional /\ ~config.hip
  <2>1. CASE c = 0
    BY <1>1, <1>2, <1>4, <1>5, <2>1 DEF Recorded, Kinds
  <2>2. CASE c # 0
    <3>1. <<Op("while", 1, c)>> \in Seq(Ops) /\ Chain(<<Op("while", 1, c)>>)
          /\ Len(<<Op("while", 1, c)>>) = 1 /\ <<Op("while", 1, c)>>[1] = Op("while", 1, c)
      BY <2>2, SingleOp
    <3>2. LastOfSolve(Op("while", 1, c))
      BY <1>2 DEF LastOfSolve, Kinds
    <3>3. Recorded(c) = Prologue(c) \o <<Op("while", 1, c)>>
      BY <1>5, <2>2 DEF Recorded
    <3>. QED  BY <1>3, <3>1, <3>2, <3>3
  <2>. QED  BY <2>1, <2>2
<1>6. CASE ~(config.conditional /\ ~config.hip)
  <2>1. Recorded(c) = Prologue(c) \o Unrolled(c)
    BY <1>6 DEF Recorded
  <2>2. CASE c = 0
    <3>1. Unrolled(c) = <<>>
      BY <2>2, UnrolledChain, EmptySeq
    <3>2. Recorded(c) = Prologue(c)
      BY <1>4, <2>1, <2>2, <3>1
    <3>. QED  BY <1>1, <1>2, <1>4, <2>2, <3>2, SMTT(30) DEF Kinds
  <2>3. CASE c # 0
    <3>1. /\ Unrolled(c) \in Seq(Ops) /\ Len(Unrolled(c)) = 2 * c /\ Chain(Unrolled(c))
          /\ Unrolled(c)[1] = Op("iteration", 1, c)
          /\ LastOfSolve(Unrolled(c)[Len(Unrolled(c))])
      <4>1. c >= 1
        BY <2>3
      <4>. QED  BY <4>1, UnrolledChain
    <3>2. Unrolled(c) # <<>>
      BY <2>3, <3>1, EmptySeq
    <3>. QED  BY <1>3, <2>1, <3>1, <3>2
  <2>. QED  BY <2>2, <2>3
<1>. QED  BY <1>5, <1>6
-----------------------------------------------------------------------------
(* The initial state.                                                      *)

LEMMA InitIndInv == Init => IndInv
<1>. SUFFICES ASSUME Init PROVE IndInv
  OBVIOUS
<1>. USE DEF Init
<1>1. Cardinality(Worlds) \in Nat
  BY WorldsAssumption, FS_CardinalityType
<1>2. TypeOK
  BY <1>1 DEF TypeOK, Configs
<1>3. Len(stream) = 0 /\ Len(graph) = 0
  BY EmptySeq
<1>4. Chain(stream) /\ GraphOK
  BY <1>3 DEF Chain, GraphOK
<1>5. HostOK /\ ThreadsOK /\ CopyOK /\ ActiveCount
  BY DEF HostOK, ThreadsOK, CopyOK, ActiveCount, EagerStrategy
<1>6. WorldsOK
  BY DEF WorldsOK, Settled
<1>. QED  BY <1>2, <1>4, <1>5, <1>6 DEF IndInv

-----------------------------------------------------------------------------
(* The host enqueues. The device's part of the invariant speaks of the     *)
(* oldest operation, so it only matters when the stream was empty.         *)

LEMMA Enqueue ==
  ASSUME IndInv, NEW t \in Seq(Ops), t # <<>>, Chain(t),
         stream' = stream \o t,
         UNCHANGED <<ran, nsolving, worldVars>>,
         stream # <<>> => Follows(stream[Len(stream)], t[1]),
         stream = <<>> => /\ ProgressAt(t[1])
                          /\ t[1].kind \notin {"init_context", "reset_nsolving"}
                               => nsolving = Cardinality(Unconverged)
  PROVE  /\ stream' \in Seq(Ops) /\ stream' # <<>>
         /\ stream'[Len(stream')] = t[Len(t)]
         /\ Chain(stream)' /\ ThreadsOK' /\ CopyOK' /\ ActiveCount' /\ WorldsOK'
<1>. USE DEF IndInv
<1>1. /\ stream' \in Seq(Ops) /\ stream' # <<>>
      /\ stream'[Len(stream')] = t[Len(t)]
      /\ stream'[1] = IF stream = <<>> THEN t[1] ELSE stream[1]
  BY ConcatEnds DEF TypeOK
<1>2. Chain(stream)'
  <2>1. Chain(stream \o t)
    BY ChainConcat DEF TypeOK
  <2>. QED  BY <2>1 DEF Chain
<1>3. ThreadsOK' /\ CopyOK'
  BY <1>1 DEF ThreadsOK, CopyOK
<1>4. Head(stream') = stream'[1] /\ (stream # <<>> => Head(stream) = stream[1])
  OBVIOUS
<1>5. ActiveCount'
  <2>1. Unconverged' = Unconverged
    BY DEF Unconverged, worldVars
  <2>. QED  BY <1>1, <1>4, <2>1 DEF ActiveCount
<1>6. WorldsOK'
  <2>1. \A o : ProgressAt(o) => ProgressAt(o)'
    BY DEF ProgressAt, Fresh, Settled, InSolve, Exact, worldVars
  <2>2. ProgressAt(stream[1])'
    <3>1. ProgressAt(stream'[1])
      BY <1>1 DEF WorldsOK
    <3>. QED  BY <2>1, <3>1 DEF ProgressAt, Fresh, Settled, InSolve, Exact, worldVars
  <2>3. \A w \in Worlds : need'[w] = 0 => niter'[w] = 0
    BY DEF WorldsOK, worldVars
  <2>. QED  BY <1>1, <2>2, <2>3 DEF WorldsOK
<1>. QED  BY <1>1, <1>2, <1>3, <1>5, <1>6

\* What does not change the graph keeps it a complete solve.
LEMMA SameGraph == GraphOK /\ UNCHANGED graph => GraphOK'
BY DEF GraphOK, Chain

LEMMA BeginSolveInv ==
  ASSUME IndInv, NEW c \in Caps, BeginSolve(c)
  PROVE  IndInv'
<1>. USE DEF BeginSolve, IndInv
<1>1. c \in Nat /\ 0 \in Nat
  BY CapsAssumption
<1>2. /\ Prologue(c) \in Seq(Ops) /\ Prologue(c) # <<>> /\ Chain(Prologue(c)) /\ Len(Prologue(c)) = 2
      /\ Prologue(c)[1] = Op("init_context", 0, c)
      /\ Prologue(c)[2] = Op("reset_nsolving", 0, c)
  BY <1>1, ChainPieces DEF Prologue
<1>3. Op("init_context", 0, c).kind = "init_context"
      /\ Op("reset_nsolving", 0, c).kind = "reset_nsolving" /\ Op("reset_nsolving", 0, c).cap = c
  BY <1>1, OpType DEF Kinds
<1>4. stream # <<>> => Follows(stream[Len(stream)], Prologue(c)[1])
  BY <1>2, <1>3 DEF HostOK, Follows
<1>5. stream = <<>> => ProgressAt(Prologue(c)[1])
  BY <1>2, <1>3 DEF WorldsOK, ThreadsOK, ProgressAt
<1>6. /\ stream' \in Seq(Ops) /\ stream' # <<>>
      /\ stream'[Len(stream')] = Op("reset_nsolving", 0, c)
      /\ Chain(stream)' /\ ThreadsOK' /\ CopyOK' /\ ActiveCount' /\ WorldsOK'
  BY <1>2, <1>3, <1>4, <1>5, Enqueue
<1>7. TypeOK'
  BY <1>1, <1>6 DEF TypeOK, worldVars
<1>8. HostOK'
  BY <1>1, <1>3, <1>6 DEF HostOK, EagerStrategy, LastOfSolve
<1>9. GraphOK'
  BY SameGraph
<1>. QED  BY <1>6, <1>7, <1>8, <1>9

\* When the host is in its loop, an iteration may follow.
LEMMA NextIteration ==
  ASSUME IndInv, hpc = "loop", issued < hcap
  PROVE  LET t == SolverIteration(issued + 1, hcap) IN
         /\ t \in Seq(Ops) /\ t # <<>> /\ Chain(t) /\ Len(t) = 2
         /\ t[1] = Op("iteration", issued + 1, hcap)
         /\ t[2] = Op("solve_done", issued + 1, hcap)
         /\ stream # <<>> => Follows(stream[Len(stream)], t[1])
         /\ stream = <<>> => ProgressAt(t[1]) /\ nsolving = Cardinality(Unconverged)
<1>. USE DEF IndInv
<1>. DEFINE t == SolverIteration(issued + 1, hcap)
<1>1. issued \in Nat /\ issued + 1 \in Nat /\ hcap \in Nat /\ 1 <= issued + 1 /\ issued + 1 <= hcap
  BY DEF TypeOK
<1>2. /\ t \in Seq(Ops) /\ t # <<>> /\ Chain(t) /\ Len(t) = 2
      /\ t[1] = Op("iteration", issued + 1, hcap)
      /\ t[2] = Op("solve_done", issued + 1, hcap)
  BY <1>1, ChainPieces DEF SolverIteration
<1>3. \A k \in Kinds, j \in Nat : /\ Op(k, j, hcap).kind = k /\ Op(k, j, hcap).it = j
                                  /\ Op(k, j, hcap).cap = hcap
  BY <1>1, OpType
<1>4. stream # <<>> => Follows(stream[Len(stream)], t[1])
  <2>. SUFFICES ASSUME stream # <<>> PROVE Follows(stream[Len(stream)], t[1])
    OBVIOUS
  <2>. DEFINE newest == stream[Len(stream)]
  <2>1. newest.kind \in {"reset_nsolving", "solve_done"} /\ newest.it = issued /\ newest.cap = hcap
    BY <1>1, <1>3 DEF HostOK, Kinds
  <2>. QED  BY <1>2, <2>1 DEF Follows
<1>5. stream = <<>> => ProgressAt(t[1])
  <2>. SUFFICES ASSUME stream = <<>> PROVE ProgressAt(t[1])
    OBVIOUS
  <2>1. ran = {} /\ \A w \in Worlds : InSolve(w, hcap, issued, issued)
    BY DEF ThreadsOK, WorldsOK
  <2>2. t[1].kind = "iteration" /\ t[1].cap = hcap /\ t[1].it - 1 = issued
    BY <1>1, <1>2, <1>3 DEF Kinds
  <2>. QED  BY <2>1, <2>2 DEF ProgressAt
<1>6. stream = <<>> => nsolving = Cardinality(Unconverged)
  BY DEF ActiveCount
<1>. QED  BY <1>2, <1>4, <1>5, <1>6

LEMMA FixedIterateInv ==
  ASSUME IndInv, FixedIterate
  PROVE  IndInv'
<1>. USE DEF FixedIterate, IndInv
<1>. DEFINE t == SolverIteration(issued + 1, hcap)
<1>1. hpc = "loop" /\ issued < hcap /\ issued \in Nat /\ hcap \in Nat
  BY DEF HostOK, TypeOK
<1>2. /\ t \in Seq(Ops) /\ t # <<>> /\ Chain(t) /\ Len(t) = 2
      /\ t[1] = Op("iteration", issued + 1, hcap)
      /\ t[2] = Op("solve_done", issued + 1, hcap)
      /\ stream # <<>> => Follows(stream[Len(stream)], t[1])
      /\ stream = <<>> => ProgressAt(t[1]) /\ nsolving = Cardinality(Unconverged)
  BY <1>1, NextIteration
<1>3. /\ stream' \in Seq(Ops) /\ stream' # <<>>
      /\ stream'[Len(stream')] = Op("solve_done", issued + 1, hcap)
      /\ Chain(stream)' /\ ThreadsOK' /\ CopyOK' /\ ActiveCount' /\ WorldsOK'
  <2>. HIDE DEF IndInv
  <2>. QED  BY <1>2, Enqueue
<1>4. TypeOK'
  BY <1>1, <1>3 DEF TypeOK, worldVars
<1>5. HostOK'
  <2>1. Op("solve_done", issued + 1, hcap).kind = "solve_done"
        /\ Op("solve_done", issued + 1, hcap).it = issued + 1
        /\ Op("solve_done", issued + 1, hcap).cap = hcap
    BY <1>1, OpType DEF Kinds
  <2>. QED  BY <1>1, <1>3, <2>1 DEF HostOK, EagerStrategy, LastOfSolve
<1>6. GraphOK'
  BY SameGraph
<1>. QED  BY <1>3, <1>4, <1>5, <1>6

LEMMA PolledIterateInv ==
  ASSUME IndInv, PolledIterate
  PROVE  IndInv'
<1>. USE DEF PolledIterate, IndInv
<1>. DEFINE t == SolverIteration(issued + 1, hcap)
            q == <<Op("copy", issued + 1, hcap)>>
<1>1. hpc = "loop" /\ issued < hcap /\ issued \in Nat /\ hcap \in Nat /\ stream \in Seq(Ops)
  BY DEF HostOK, TypeOK
<1>2. /\ t \in Seq(Ops) /\ t # <<>> /\ Chain(t) /\ Len(t) = 2
      /\ t[1] = Op("iteration", issued + 1, hcap)
      /\ t[2] = Op("solve_done", issued + 1, hcap)
      /\ stream # <<>> => Follows(stream[Len(stream)], t[1])
      /\ stream = <<>> => ProgressAt(t[1]) /\ nsolving = Cardinality(Unconverged)
  BY <1>1, NextIteration
<1>3. \A k \in Kinds : /\ Op(k, issued + 1, hcap).kind = k /\ Op(k, issued + 1, hcap).it = issued + 1
                       /\ Op(k, issued + 1, hcap).cap = hcap
  BY <1>1, OpType
<1>4. GraphOK'
  BY SameGraph
<1>5. CASE (issued + 1) % NCheck = 0
  <2>1. q \in Seq(Ops) /\ Len(q) = 1 /\ q[1] = Op("copy", issued + 1, hcap) /\ Chain(q) /\ q # <<>>
    BY <1>1, SingleOp
  <2>2. Follows(t[Len(t)], q[1])
    BY <1>2, <1>3, <2>1 DEF Follows, Kinds
  <2>3. /\ t \o q \in Seq(Ops) /\ t \o q # <<>> /\ Chain(t \o q)
        /\ (t \o q)[1] = t[1] /\ (t \o q)[Len(t \o q)] = q[1]
    BY <1>2, <2>1, <2>2, ChainConcat, ConcatEnds
  <2>4. stream' = stream \o (t \o q)
    <3>1. stream' = (stream \o t) \o q
      BY <1>5
    <3>2. stream \in Seq(Ops) /\ t \in Seq(Ops) /\ q \in Seq(Ops)
      BY <1>1, <1>2, <2>1
    <3>3. (stream \o t) \o q = stream \o (t \o q)
      <4>. HIDE DEF t, q
      <4>. QED  BY <3>2, ConcatAssociative, SMTT(30)
    <3>. QED  BY <3>1, <3>3
  <2>5. /\ stream' \in Seq(Ops) /\ stream' # <<>>
        /\ stream'[Len(stream')] = Op("copy", issued + 1, hcap)
        /\ Chain(stream)' /\ ThreadsOK' /\ CopyOK' /\ ActiveCount' /\ WorldsOK'
    <3>. HIDE DEF IndInv
    <3>. QED  BY <1>2, <2>1, <2>3, <2>4, Enqueue
  <2>6. TypeOK'
    BY <1>1, <1>5, <2>5 DEF TypeOK, worldVars
  <2>7. HostOK'
    BY <1>1, <1>5, <2>5 DEF HostOK, EagerStrategy
  <2>. QED  BY <1>4, <2>5, <2>6, <2>7
<1>6. CASE (issued + 1) % NCheck # 0
  <2>1. /\ stream' \in Seq(Ops) /\ stream' # <<>>
        /\ stream'[Len(stream')] = Op("solve_done", issued + 1, hcap)
        /\ Chain(stream)' /\ ThreadsOK' /\ CopyOK' /\ ActiveCount' /\ WorldsOK'
    <3>. HIDE DEF IndInv
    <3>. QED  BY <1>2, <1>6, Enqueue
  <2>2. TypeOK'
    BY <1>1, <1>6, <2>1 DEF TypeOK, worldVars
  <2>3. HostOK'
    BY <1>1, <1>3, <1>6, <2>1 DEF HostOK, EagerStrategy, LastOfSolve, Kinds
  <2>. QED  BY <1>4, <2>1, <2>2, <2>3
<1>. QED  BY <1>5, <1>6

LEMMA PolledReadBackInv ==
  ASSUME IndInv, PolledReadBack
  PROVE  IndInv'
<1>. USE DEF PolledReadBack, IndInv
<1>1. /\ stream = <<>> /\ stream' = <<>> /\ ran' = ran /\ hcap >= 1 /\ issued <= hcap
      /\ hpc' \in {"idle", "loop"} /\ issued \in Nat /\ hcap \in Nat
  BY DEF HostOK, TypeOK
<1>2. TypeOK' /\ GraphOK' /\ ThreadsOK' /\ CopyOK' /\ Chain(stream)'
  BY <1>1, SameGraph DEF TypeOK, ThreadsOK, CopyOK, Chain, worldVars
<1>3. HostOK'
  BY <1>1 DEF HostOK, EagerStrategy
<1>4. ActiveCount'
  BY <1>1 DEF ActiveCount, Unconverged, worldVars
<1>5. IsFiniteSet(Unconverged)
  BY WorldsAssumption, FS_Subset DEF Unconverged
<1>6. nsolving_host = 0 => \A w \in Worlds : done[w]
  BY <1>1, <1>5, FS_EmptySet DEF CopyOK, ActiveCount, Unconverged
<1>7. \A w \in Worlds : InSolve(w, hcap, issued, issued)
  BY <1>1 DEF WorldsOK
<1>8. hpc' = "idle" => \A w \in Worlds : Settled(w)
  BY <1>1, <1>6, <1>7 DEF Settled, InSolve
<1>9. WorldsOK'
  BY <1>1, <1>7, <1>8 DEF WorldsOK, Settled, InSolve, Exact, worldVars
<1>. QED  BY <1>2, <1>3, <1>4, <1>9

LEMMA WhileCopyInv ==
  ASSUME IndInv, WhileCopy
  PROVE  IndInv'
<1>. USE DEF WhileCopy, IndInv
<1>. DEFINE q == <<Op("copy", issued, hcap)>>
<1>1. /\ issued \in Nat /\ hcap \in Nat /\ hcap >= 1 /\ issued <= hcap
      /\ stream \in Seq(Ops)
  BY DEF HostOK, TypeOK
<1>2. q \in Seq(Ops) /\ q # <<>> /\ Len(q) = 1 /\ q[1] = Op("copy", issued, hcap) /\ Chain(q)
  BY <1>1, SingleOp
<1>3. \A k \in Kinds : /\ Op(k, issued, hcap) \in Ops /\ Op(k, issued, hcap).kind = k
                       /\ Op(k, issued, hcap).it = issued /\ Op(k, issued, hcap).cap = hcap
  BY <1>1, OpType
<1>4. stream' = stream \o q
  BY <1>1, <1>3, AppendIsConcat DEF Kinds
<1>5. stream # <<>> => Follows(stream[Len(stream)], q[1])
  <2>. SUFFICES ASSUME stream # <<>> PROVE Follows(stream[Len(stream)], q[1])
    OBVIOUS
  <2>. DEFINE newest == stream[Len(stream)]
  <2>1. newest.kind \in {"reset_nsolving", "solve_done"} /\ newest.it = issued /\ newest.cap = hcap
    BY <1>3 DEF HostOK, Kinds
  <2>. QED  BY <1>2, <2>1 DEF Follows
<1>6. stream = <<>> => ProgressAt(q[1]) /\ nsolving = Cardinality(Unconverged)
  <2>. SUFFICES ASSUME stream = <<>> PROVE ProgressAt(q[1]) /\ nsolving = Cardinality(Unconverged)
    OBVIOUS
  <2>1. \A w \in Worlds : InSolve(w, hcap, issued, issued)
    BY DEF WorldsOK
  <2>2. q[1].kind = "copy" /\ q[1].cap = hcap /\ q[1].it = issued
    BY <1>2, <1>3 DEF Kinds
  <2>. QED  BY <2>1, <2>2 DEF ProgressAt, ActiveCount
<1>7. /\ stream' \in Seq(Ops) /\ stream' # <<>>
      /\ stream'[Len(stream')] = Op("copy", issued, hcap)
      /\ Chain(stream)' /\ ThreadsOK' /\ CopyOK' /\ ActiveCount' /\ WorldsOK'
  <2>. HIDE DEF IndInv
  <2>. QED  BY <1>2, <1>4, <1>5, <1>6, Enqueue
<1>8. TypeOK'
  BY <1>7 DEF TypeOK, worldVars
<1>9. HostOK'
  BY <1>1, <1>7 DEF HostOK, EagerStrategy
<1>10. GraphOK'
  BY SameGraph
<1>. QED  BY <1>7, <1>8, <1>9, <1>10

\* The counter says that some world is solving, so the limit is not reached: the
\* loop needs no limit of its own.
LEMMA WhileReadBackInv ==
  ASSUME IndInv, WhileReadBack
  PROVE  IndInv'
<1>. USE DEF WhileReadBack, IndInv
<1>1. /\ stream = <<>> /\ ran' = ran /\ hcap >= 1 /\ issued <= hcap
      /\ issued \in Nat /\ hcap \in Nat /\ stream \in Seq(Ops) /\ hpc = "sync"
      /\ nsolving_host = nsolving /\ nsolving = Cardinality(Unconverged)
  BY DEF HostOK, TypeOK, CopyOK, ActiveCount
<1>2. IsFiniteSet(Unconverged)
  BY WorldsAssumption, FS_Subset DEF Unconverged
<1>3. \A w \in Worlds : InSolve(w, hcap, issued, issued)
  BY <1>1 DEF WorldsOK
<1>4. GraphOK'
  BY SameGraph
<1>5. CASE nsolving_host # 0
  <2>. DEFINE t == SolverIteration(issued + 1, hcap)
  <2>1. PICK w \in Worlds : ~done[w]
    BY <1>1, <1>2, <1>5, FS_EmptySet DEF Unconverged
  <2>2. issued < hcap
    BY <1>1, <1>3, <2>1 DEF InSolve
  <2>3. /\ t \in Seq(Ops) /\ t # <<>> /\ Chain(t) /\ Len(t) = 2
        /\ t[1] = Op("iteration", issued + 1, hcap)
        /\ t[2] = Op("solve_done", issued + 1, hcap)
    BY <1>1, <2>2, ChainPieces DEF SolverIteration
  <2>4. t[1].kind = "iteration" /\ t[1].cap = hcap /\ t[1].it - 1 = issued
    <3>1. \A k \in Kinds : /\ Op(k, issued + 1, hcap).kind = k
                           /\ Op(k, issued + 1, hcap).it = issued + 1
                           /\ Op(k, issued + 1, hcap).cap = hcap
      BY <1>1, OpType
    <3>. QED  BY <1>1, <2>3, <3>1 DEF Kinds
  <2>5. ProgressAt(t[1])
    <3>1. ran = {}
      BY <1>1 DEF ThreadsOK
    <3>. QED  BY <1>3, <2>4, <3>1 DEF ProgressAt
  <2>6. stream' = stream \o t
    <3>1. <<>> \o t = t
      BY <2>3, ConcatEmptySeq
    <3>. QED  BY <1>1, <1>5, <3>1
  <2>7. /\ stream' \in Seq(Ops) /\ stream' # <<>>
        /\ stream'[Len(stream')] = Op("solve_done", issued + 1, hcap)
        /\ Chain(stream)' /\ ThreadsOK' /\ CopyOK' /\ ActiveCount' /\ WorldsOK'
    <3>. HIDE DEF IndInv
    <3>. QED  BY <1>1, <2>3, <2>5, <2>6, Enqueue
  <2>8. TypeOK'
    BY <1>1, <1>5, <2>7 DEF TypeOK, worldVars
  <2>9. HostOK'
    BY <1>1, <1>5, <2>2, <2>7 DEF HostOK, EagerStrategy
  <2>. QED  BY <1>4, <2>7, <2>8, <2>9
<1>6. CASE nsolving_host = 0
  <2>1. TypeOK' /\ ThreadsOK' /\ CopyOK' /\ Chain(stream)' /\ ActiveCount'
    BY <1>1, <1>6 DEF TypeOK, ThreadsOK, CopyOK, Chain, ActiveCount, worldVars
  <2>2. HostOK'
    BY <1>1, <1>6 DEF HostOK, EagerStrategy
  <2>3. \A w \in Worlds : done[w]
    BY <1>1, <1>2, <1>6, FS_EmptySet DEF Unconverged
  <2>4. \A w \in Worlds : Settled(w)
    BY <1>3, <2>3 DEF Settled, InSolve
  <2>5. WorldsOK'
    BY <1>1, <1>6, <2>4 DEF WorldsOK, Settled, Exact, worldVars
  <2>. QED  BY <1>4, <2>1, <2>2, <2>5
<1>. QED  BY <1>5, <1>6

LEMMA CaptureInv ==
  ASSUME IndInv, NEW c \in Caps, Capture(c)
  PROVE  IndInv'
<1>. USE DEF Capture, IndInv
<1>1. /\ Recorded(c) \in Seq(Ops) /\ Chain(Recorded(c)) /\ Recorded(c) # <<>>
      /\ Recorded(c)[1].kind = "init_context" /\ LastOfSolve(Recorded(c)[Len(Recorded(c))])
  BY CapsAssumption, RecordedSolve
<1>2. Head(Recorded(c)) = Recorded(c)[1]
  BY <1>1
<1>3. GraphOK'
  BY <1>1, <1>2 DEF GraphOK, Chain
<1>4. TypeOK' /\ HostOK' /\ ThreadsOK' /\ CopyOK' /\ Chain(stream)'
  BY <1>1 DEF TypeOK, HostOK, EagerStrategy, ThreadsOK, CopyOK, Chain, worldVars
<1>5. ActiveCount' /\ WorldsOK'
  BY DEF ActiveCount, Unconverged, WorldsOK, ProgressAt, Settled, Fresh, InSolve, Exact, worldVars
<1>. QED  BY <1>3, <1>4, <1>5

LEMMA ReplayInv ==
  ASSUME IndInv, Replay
  PROVE  IndInv'
<1>. USE DEF Replay, IndInv
<1>1. /\ graph \in Seq(Ops) /\ graph # <<>> /\ Chain(graph) /\ hpc = "idle"
      /\ graph[1].kind = "init_context" /\ LastOfSolve(graph[Len(graph)])
  BY DEF GraphOK, TypeOK
<1>2. stream # <<>> => Follows(stream[Len(stream)], graph[1])
  BY <1>1 DEF HostOK, Follows
<1>3. stream = <<>> => ProgressAt(graph[1])
  BY <1>1 DEF WorldsOK, ThreadsOK, ProgressAt
<1>4. /\ stream' \in Seq(Ops) /\ stream' # <<>>
      /\ stream'[Len(stream')] = graph[Len(graph)]
      /\ Chain(stream)' /\ ThreadsOK' /\ CopyOK' /\ ActiveCount' /\ WorldsOK'
  <2>. HIDE DEF IndInv
  <2>. QED  BY <1>1, <1>2, <1>3, Enqueue
<1>5. TypeOK'
  BY <1>4 DEF TypeOK, worldVars
<1>6. HostOK'
  BY <1>1, <1>4 DEF HostOK, EagerStrategy
<1>7. GraphOK'
  BY SameGraph
<1>. QED  BY <1>4, <1>5, <1>6, <1>7

-----------------------------------------------------------------------------
(* The device runs a thread of the oldest operation.                       *)

LEMMA ThreadFrame ==
  ASSUME IndInv, stream # <<>>, stream[1].kind \in PerWorld, NEW w \in Worlds \ ran,
         ran' = ran \cup {w}, UNCHANGED <<config, hostVars, stream>>
  PROVE  /\ Chain(stream)' /\ GraphOK' /\ HostOK' /\ ThreadsOK' /\ CopyOK'
         /\ Head(stream) = stream[1] /\ Head(stream') = stream'[1]
         /\ OpOK(stream[1]) /\ stream[1].it \in Nat /\ stream[1].cap \in Nat
         /\ ProgressAt(stream[1])
<1>. USE DEF IndInv, hostVars
<1>1. OpOK(stream[1]) /\ Head(stream) = stream[1]
  BY ChainTail DEF TypeOK
<1>2. stream[1].it \in Nat /\ stream[1].cap \in Nat
  BY <1>1 DEF OpOK, Ops
<1>3. Chain(stream)' /\ GraphOK' /\ HostOK'
  BY SameGraph DEF Chain, HostOK, EagerStrategy
<1>4. ThreadsOK' /\ CopyOK' /\ ProgressAt(stream[1])
  BY DEF ThreadsOK, CopyOK, WorldsOK
<1>. QED  BY <1>1, <1>2, <1>3, <1>4

LEMMA InitThreadInv ==
  ASSUME IndInv, NEW w \in Worlds, InitThread(w)
  PROVE  IndInv'
<1>. USE DEF InitThread, Running
<1>. DEFINE o == stream[1]
<1>1. stream # <<>> /\ Head(stream) = stream[1] /\ o.kind = "init_context"
  BY DEF IndInv, TypeOK
<1>2. /\ Chain(stream)' /\ GraphOK' /\ HostOK' /\ ThreadsOK' /\ CopyOK'
      /\ Head(stream') = stream'[1] /\ OpOK(o) /\ o.it \in Nat /\ o.cap \in Nat
      /\ ProgressAt(o)
  BY <1>1, ThreadFrame DEF PerWorld
<1>3. TypeOK'
  BY <1>1, <1>2, SMTT(30) DEF IndInv, TypeOK, hostVars
<1>4. ActiveCount'
  BY <1>1, <1>2 DEF ActiveCount
<1>5. PICK n \in 1..MaxNeed : need' = [need EXCEPT ![w] = n]
  OBVIOUS
<1>6. Fresh(w, o.cap)' /\ need'[w] # 0
  BY <1>1, <1>2, <1>5, BoundsAssumption DEF IndInv, TypeOK, Fresh
<1>7. ASSUME NEW v \in Worlds, v # w
      PROVE  /\ IF v \in ran' THEN Fresh(v, o.cap)' ELSE Settled(v)'
             /\ need'[v] = 0 => niter'[v] = 0
  <2>1. /\ done'[v] = done[v] /\ niter'[v] = niter[v] /\ updates'[v] = updates[v]
        /\ need'[v] = need[v] /\ cap'[v] = cap[v] /\ (v \in ran' <=> v \in ran)
    BY <1>5, <1>7 DEF IndInv, TypeOK
  <2>2. /\ IF v \in ran THEN Fresh(v, o.cap) ELSE Settled(v)
        /\ need[v] = 0 => niter[v] = 0
    BY <1>1, <1>2 DEF ProgressAt, IndInv, WorldsOK
  <2>. QED  BY <2>1, <2>2 DEF Fresh, Settled, Exact
<1>8. WorldsOK'
  BY <1>1, <1>6, <1>7 DEF WorldsOK, ProgressAt
<1>. QED  BY <1>2, <1>3, <1>4, <1>8 DEF IndInv

LEMMA IterationThreadInv ==
  ASSUME IndInv, NEW w \in Worlds, IterationThread(w)
  PROVE  IndInv'
<1>. USE DEF IterationThread, Running
<1>. DEFINE o == stream[1]
<1>1. stream # <<>> /\ Head(stream) = stream[1] /\ o.kind = "iteration"
  BY DEF IndInv, TypeOK
<1>2. /\ Chain(stream)' /\ GraphOK' /\ HostOK' /\ ThreadsOK' /\ CopyOK'
      /\ Head(stream') = stream'[1] /\ OpOK(o) /\ o.it \in Nat /\ o.cap \in Nat
      /\ ProgressAt(o)
  BY <1>1, ThreadFrame DEF PerWorld
<1>3. TypeOK'
  BY <1>2 DEF IndInv, TypeOK, hostVars
<1>4. ActiveCount'
  BY <1>1, <1>2 DEF IndInv, ActiveCount, Unconverged
<1>5. ASSUME NEW v \in Worlds
      PROVE  InSolve(v, o.cap, o.it - 1, IF v \in ran THEN o.it ELSE o.it - 1)'
  <2>1. InSolve(v, o.cap, o.it - 1, IF v \in ran THEN o.it ELSE o.it - 1)
    BY <1>1, <1>2 DEF ProgressAt
  <2>2. CASE v # w
    <3>1. updates'[v] = updates[v] /\ (v \in ran' <=> v \in ran)
      BY <2>2 DEF IndInv, TypeOK
    <3>. QED  BY <2>1, <3>1 DEF InSolve, Exact
  <2>3. CASE v = w
    <3>1. v \notin ran /\ v \in ran'
          /\ updates'[v] = IF done[v] THEN updates[v] ELSE updates[v] + 1
      BY <2>3 DEF IndInv, TypeOK
    <3>. QED  BY <1>2, <2>1, <3>1 DEF InSolve, Exact
  <2>. QED  BY <2>2, <2>3
<1>6. WorldsOK'
  BY <1>1, <1>5 DEF IndInv, WorldsOK, ProgressAt
<1>. QED  BY <1>2, <1>3, <1>4, <1>6 DEF IndInv

LEMMA SolveDoneThreadInv ==
  ASSUME IndInv, NEW w \in Worlds, SolveDoneThread(w)
  PROVE  IndInv'
<1>. USE DEF SolveDoneThread, Running
<1>. DEFINE o == stream[1]
<1>1. stream # <<>> /\ Head(stream) = stream[1] /\ o.kind = "solve_done"
  BY DEF IndInv, TypeOK
<1>2. /\ Chain(stream)' /\ GraphOK' /\ HostOK' /\ ThreadsOK' /\ CopyOK'
      /\ Head(stream') = stream'[1] /\ OpOK(o) /\ o.it \in Nat /\ o.cap \in Nat
      /\ ProgressAt(o)
  BY <1>1, ThreadFrame DEF PerWorld
<1>3. 1 <= o.it /\ o.it <= o.cap
  BY <1>1, <1>2 DEF OpOK
<1>4. nsolving = Cardinality(Unconverged) /\ IsFiniteSet(Unconverged)
      /\ Cardinality(Unconverged) \in Nat /\ Cardinality(Worlds) \in Nat
      /\ Cardinality(Unconverged) <= Cardinality(Worlds)
  <2>1. nsolving = Cardinality(Unconverged)
    BY <1>1 DEF IndInv, ActiveCount
  <2>. QED  BY <2>1, WorldsAssumption, FS_Subset, FS_CardinalityType DEF Unconverged
\* The counter.
<1>5. nsolving' = Cardinality(Unconverged')
  <2>1. CASE done' = done /\ nsolving' = nsolving
    BY <1>4, <2>1 DEF Unconverged
  <2>2. CASE ~done[w] /\ done' = [done EXCEPT ![w] = TRUE] /\ nsolving' = nsolving - 1
    <3>1. Unconverged' = Unconverged \ {w} /\ w \in Unconverged
      BY <2>2 DEF IndInv, TypeOK, Unconverged
    <3>2. Cardinality(Unconverged \ {w}) = Cardinality(Unconverged) - 1
      BY <1>4, <3>1, FS_RemoveElement
    <3>. QED  BY <1>4, <2>2, <3>1, <3>2
  <2>. QED  BY <2>1, <2>2
<1>6. TypeOK'
  <2>1. IsFiniteSet(Unconverged') /\ Cardinality(Unconverged') \in Nat
        /\ Cardinality(Unconverged') <= Cardinality(Worlds)
    BY WorldsAssumption, FS_Subset, FS_CardinalityType DEF Unconverged
  <2>2. nsolving' \in 0..Cardinality(Worlds)
    BY <1>4, <1>5, <2>1
  <2>3. done' \in [Worlds -> BOOLEAN]
    BY DEF IndInv, TypeOK
  <2>4. niter' \in [Worlds -> Nat]
    BY SMTT(30) DEF IndInv, TypeOK
  <2>. QED  BY <2>2, <2>3, <2>4 DEF IndInv, TypeOK, hostVars
<1>7. ActiveCount'
  BY <1>5 DEF ActiveCount
\* The world of the thread.
<1>8. ASSUME NEW v \in Worlds
      PROVE  InSolve(v, o.cap, IF v \in ran THEN o.it ELSE o.it - 1, o.it)'
  <2>1. InSolve(v, o.cap, IF v \in ran THEN o.it ELSE o.it - 1, o.it)
    BY <1>1, <1>2 DEF ProgressAt
  <2>2. CASE v # w
    <3>1. niter'[v] = niter[v] /\ done'[v] = done[v] /\ (v \in ran' <=> v \in ran)
      BY <2>2 DEF IndInv, TypeOK
    <3>. QED  BY <2>1, <3>1 DEF InSolve, Exact
  <2>3. CASE v = w
    <3>1. v \notin ran /\ v \in ran'
      BY <2>3
    <3>2. CASE done[w]
      BY <2>1, <2>3, <3>1, <3>2 DEF InSolve, Exact
    <3>3. CASE ~done[w]
      <4>1. niter[w] = o.it - 1 /\ updates[w] = o.it /\ o.it - 1 < need[w]
            /\ cap[w] = o.cap /\ need[w] \in Nat /\ niter'[w] = o.it /\ need[w] >= 1
        BY <1>2, <2>1, <2>3, <3>1, <3>3 DEF InSolve, IndInv, TypeOK
      <4>2. CASE Converged(w) \/ niter[w] + 1 = Head(stream).cap
        <5>1. done'[w]
          BY <3>3, <4>2 DEF IndInv, TypeOK
        <5>2. o.it = Lesser(need[w], cap[w])
          BY <1>1, <1>2, <1>3, <4>1, <4>2 DEF Converged, Lesser
        <5>3. /\ updates'[w] = updates[w] /\ need'[w] = need[w] /\ cap'[w] = cap[w]
              /\ stream'[1] = stream[1]
          OBVIOUS
        <5>. QED  BY <1>2, <1>3, <2>3, <3>1, <4>1, <5>1, <5>2, <5>3 DEF InSolve, Exact
      <4>3. CASE ~(Converged(w) \/ niter[w] + 1 = Head(stream).cap)
        <5>1. ~done'[w]
          BY <3>3, <4>3
        <5>2. o.it < need[w] /\ o.it < o.cap
          BY <1>1, <1>2, <1>3, <4>1, <4>3 DEF Converged
        <5>3. /\ updates'[w] = updates[w] /\ need'[w] = need[w] /\ cap'[w] = cap[w]
              /\ stream'[1] = stream[1]
          OBVIOUS
        <5>. QED  BY <1>2, <1>3, <2>3, <3>1, <4>1, <5>1, <5>2, <5>3 DEF InSolve
      <4>. QED  BY <4>2, <4>3
    <3>. QED  BY <3>2, <3>3
  <2>. QED  BY <2>2, <2>3
<1>9. \A v \in Worlds : need'[v] # 0
  BY <1>8 DEF InSolve
<1>10. WorldsOK'
  BY <1>1, <1>8, <1>9 DEF WorldsOK, ProgressAt
<1>. QED  BY <1>2, <1>6, <1>7, <1>10 DEF IndInv

-----------------------------------------------------------------------------
(* The device completes the oldest operation.                              *)

\* What an operation leaves behind when it completes.
LeavesBehind(o) ==
  \A w \in Worlds :
    /\ o.kind \in {"init_context", "reset_nsolving"} => Fresh(w, o.cap)
    /\ o.kind = "iteration" => InSolve(w, o.cap, o.it - 1, o.it)
    /\ o.kind \in {"solve_done", "copy"} => InSolve(w, o.cap, o.it, o.it)
    /\ o.kind = "while" => Settled(w)

LEMMA Complete ==
  ASSUME IndInv, stream # <<>>, stream' = Tail(stream), ran' = {},
         UNCHANGED <<config, hpc, hcap, issued, graph, worldVars>>,
         LeavesBehind(stream[1])
  PROVE  /\ stream' \in Seq(Ops) /\ Head(stream) = stream[1]
         /\ Chain(stream)' /\ GraphOK' /\ HostOK' /\ ThreadsOK' /\ WorldsOK'
         /\ stream' # <<>> => /\ Head(stream') = stream'[1]
                              /\ Follows(stream[1], stream'[1])
         /\ stream' = <<>> => stream[1] = stream[Len(stream)]
<1>. USE DEF IndInv
<1>. DEFINE a == stream[1]
            b == stream'[1]
<1>1. /\ stream' \in Seq(Ops) /\ Chain(stream') /\ OpOK(a) /\ Head(stream) = a
      /\ stream' = <<>> => a = stream[Len(stream)]
      /\ stream' # <<>> => /\ Follows(a, b) /\ OpOK(b)
                           /\ stream'[Len(stream')] = stream[Len(stream)]
  BY ChainTail DEF TypeOK
<1>2. a.it \in Nat /\ a.cap \in Nat /\ a.kind \in Kinds
  BY <1>1 DEF OpOK, Ops
<1>3. Chain(stream)' /\ GraphOK' /\ ThreadsOK'
  BY <1>1, SameGraph DEF Chain, ThreadsOK
<1>4. HostOK'
  BY <1>1 DEF HostOK, EagerStrategy
<1>5. \A k \in Kinds, j \in Nat : /\ Op(k, j, a.cap).kind = k /\ Op(k, j, a.cap).it = j
                                  /\ Op(k, j, a.cap).cap = a.cap
  BY <1>2, OpType
<1>6. LastOfSolve(a) => \A w \in Worlds : Settled(w)
  BY <1>1, <1>2 DEF LastOfSolve, LeavesBehind, Settled, Fresh, InSolve, Exact, Lesser, OpOK, TypeOK
<1>7. stream' # <<>> => ProgressAt(stream[1])'
  <2>. SUFFICES ASSUME stream' # <<>>, NEW w \in Worlds
                PROVE  /\ b.kind = "init_context" => Settled(w)
                       /\ b.kind = "reset_nsolving" => Fresh(w, b.cap)
                       /\ b.kind = "iteration" => InSolve(w, b.cap, b.it - 1, b.it - 1)
                       /\ b.kind = "solve_done" => InSolve(w, b.cap, b.it - 1, b.it)
                       /\ b.kind = "copy" => InSolve(w, b.cap, b.it, b.it)
                       /\ b.kind = "while" => InSolve(w, b.cap, b.it - 1, b.it - 1)
    BY DEF ProgressAt, Fresh, Settled, InSolve, Exact, worldVars
  <2>1. CASE a.kind = "init_context" /\ b = Op("reset_nsolving", 0, a.cap)
    BY <1>2, <1>5, <2>1 DEF LeavesBehind, Kinds
  <2>2. CASE a.kind = "iteration" /\ b = Op("solve_done", a.it, a.cap)
    BY <1>2, <1>5, <2>2 DEF LeavesBehind, Kinds
  <2>3. CASE /\ a.kind \in {"reset_nsolving", "solve_done"}
             /\ b \in {Op("iteration", a.it + 1, a.cap), Op("copy", a.it, a.cap),
                       Op("while", a.it + 1, a.cap)}
    <3>1. /\ b.cap = a.cap /\ b.kind \in {"iteration", "copy", "while"}
          /\ IF b.kind = "copy" THEN b.it = a.it ELSE b.it = a.it + 1
      BY <1>2, <1>5, <2>3 DEF Kinds
    <3>2. a.cap >= 1
      BY <1>1, <1>2, <3>1 DEF OpOK
    <3>3. InSolve(w, a.cap, a.it, a.it)
      <4>1. CASE a.kind = "reset_nsolving"
        BY <1>1, <1>2, <3>2, <4>1 DEF LeavesBehind, Fresh, InSolve, OpOK, TypeOK
      <4>2. CASE a.kind = "solve_done"
        BY <4>2 DEF LeavesBehind
      <4>. QED  BY <2>3, <4>1, <4>2
    <3>. QED  BY <1>2, <3>1, <3>3
  <2>4. CASE LastOfSolve(a) /\ b.kind = "init_context"
    BY <1>6, <2>4
  <2>. QED  BY <1>1, <2>1, <2>2, <2>3, <2>4 DEF Follows
<1>8. stream' = <<>> /\ hpc = "idle" => \A w \in Worlds : Settled(w)
  BY <1>1, <1>6 DEF HostOK
<1>9. stream' = <<>> /\ hpc # "idle" => \A w \in Worlds : InSolve(w, hcap, issued, issued)
  <2>. SUFFICES ASSUME stream' = <<>>, hpc # "idle", NEW w \in Worlds
                PROVE  InSolve(w, hcap, issued, issued)
    OBVIOUS
  <2>1. /\ a = Op(IF hpc = "sync" THEN "copy"
                  ELSE IF issued = 0 THEN "reset_nsolving" ELSE "solve_done", issued, hcap)
        /\ hcap \in Nat /\ issued \in Nat /\ hcap >= 1
    BY <1>1 DEF HostOK, TypeOK
  <2>2. a.it = issued /\ a.cap = hcap
        /\ a.kind = IF hpc = "sync" THEN "copy"
                    ELSE IF issued = 0 THEN "reset_nsolving" ELSE "solve_done"
    BY <2>1, OpType DEF Kinds
  <2>3. CASE a.kind = "reset_nsolving"
    <3>1. issued = 0
      BY <2>2, <2>3
    <3>. QED  BY <2>1, <2>2, <2>3, <3>1 DEF LeavesBehind, Fresh, InSolve, TypeOK
  <2>4. CASE a.kind \in {"solve_done", "copy"}
    BY <2>2, <2>4 DEF LeavesBehind
  <2>. QED  BY <2>2, <2>3, <2>4
<1>10. WorldsOK'
  BY <1>7, <1>8, <1>9 DEF WorldsOK, Settled, InSolve, Exact, worldVars
<1>. QED  BY <1>1, <1>3, <1>4, <1>10

\* The counter is exact before an operation that may not be the first of a solve.
LEMMA StillCounting ==
  ASSUME nsolving' = Cardinality(Unconverged), UNCHANGED worldVars
  PROVE  ActiveCount'
BY DEF ActiveCount, Unconverged, worldVars

LEMMA RetireInv ==
  ASSUME IndInv, Retire
  PROVE  IndInv'
<1>. USE DEF Retire
<1>1. Head(stream) = stream[1] /\ stream[1].kind \in PerWorld /\ ran = Worlds
  BY DEF IndInv, TypeOK
<1>2. LeavesBehind(stream[1])
  BY <1>1 DEF IndInv, WorldsOK, ProgressAt, LeavesBehind, PerWorld
<1>3. /\ stream' \in Seq(Ops)
      /\ Chain(stream)' /\ GraphOK' /\ HostOK' /\ ThreadsOK' /\ WorldsOK'
      /\ stream' # <<>> => Head(stream') = stream'[1] /\ Follows(stream[1], stream'[1])
      /\ stream' = <<>> => stream[1] = stream[Len(stream)]
  BY <1>2, Complete DEF hostVars
<1>4. TypeOK' /\ CopyOK'
  <2>1. TypeOK'
    BY <1>3 DEF IndInv, TypeOK, hostVars, worldVars
  <2>2. CopyOK'
    <3>1. Op("copy", issued, hcap).kind = "copy"
      BY OpType DEF Kinds, IndInv, TypeOK
    <3>. QED  BY <1>1, <1>3, <3>1 DEF IndInv, CopyOK, HostOK, hostVars, PerWorld
  <2>. QED  BY <2>1, <2>2
<1>5. ActiveCount'
  <2>1. CASE stream[1].kind = "init_context"
    <3>1. stream' # <<>>
      <4>1. \A i \in Nat, c \in Nat : /\ Op("copy", i, c).kind = "copy"
                                      /\ Op("reset_nsolving", i, c).kind = "reset_nsolving"
                                      /\ Op("solve_done", i, c).kind = "solve_done"
        BY OpType DEF Kinds
      <4>2. /\ hpc \in {"idle", "loop", "sync"} /\ issued \in Nat /\ hcap \in Nat
        BY DEF IndInv, TypeOK
      <4>3. SUFFICES ASSUME stream' = <<>> PROVE FALSE
        OBVIOUS
      <4>4. stream[Len(stream)].kind = "init_context"
        BY <1>3, <2>1, <4>3
      <4>. QED  BY <4>1, <4>2, <4>4 DEF IndInv, HostOK, LastOfSolve
    <3>2. stream'[1].kind = "reset_nsolving"
      <4>1. stream[1].cap \in Nat
        BY ChainTail DEF IndInv, TypeOK, OpOK, Ops
      <4>2. Op("reset_nsolving", 0, stream[1].cap).kind = "reset_nsolving"
        BY <4>1, OpType DEF Kinds
      <4>. QED  BY <1>3, <2>1, <3>1, <4>2 DEF Follows, LastOfSolve
    <3>. QED  BY <1>3, <3>1, <3>2 DEF ActiveCount
  <2>2. CASE stream[1].kind # "init_context"
    <3>1. nsolving = Cardinality(Unconverged)
      BY <1>1, <2>2 DEF IndInv, ActiveCount, PerWorld
    <3>. QED  BY <3>1, StillCounting
  <2>. QED  BY <2>1, <2>2
<1>. QED  BY <1>3, <1>4, <1>5 DEF IndInv

LEMMA ResetNsolvingInv ==
  ASSUME IndInv, ResetNsolving
  PROVE  IndInv'
<1>. USE DEF ResetNsolving, Running
<1>1. stream # <<>> /\ Head(stream) = stream[1] /\ stream[1].kind = "reset_nsolving" /\ ran = {}
  BY DEF IndInv, TypeOK, ThreadsOK, PerWorld
<1>2. \A w \in Worlds : Fresh(w, stream[1].cap)
  BY <1>1 DEF IndInv, WorldsOK, ProgressAt
<1>3. LeavesBehind(stream[1])
  BY <1>1, <1>2 DEF LeavesBehind
<1>4. /\ stream' \in Seq(Ops)
      /\ Chain(stream)' /\ GraphOK' /\ HostOK' /\ ThreadsOK' /\ WorldsOK'
      /\ stream' = <<>> => stream[1] = stream[Len(stream)]
  BY <1>1, <1>3, Complete DEF hostVars
<1>5. Unconverged = Worlds
  BY <1>2 DEF Unconverged, Fresh
<1>6. ActiveCount'
  BY <1>5, StillCounting
<1>7. TypeOK'
  <2>1. Cardinality(Worlds) \in 0..Cardinality(Worlds)
    BY WorldsAssumption, FS_CardinalityType
  <2>. QED  BY <1>4, <2>1 DEF IndInv, TypeOK, hostVars, worldVars
<1>8. CopyOK'
  <2>1. Op("copy", issued, hcap).kind = "copy"
    BY OpType DEF Kinds, IndInv, TypeOK
  <2>. QED  BY <1>1, <1>4, <2>1 DEF IndInv, CopyOK, HostOK, hostVars
<1>. QED  BY <1>4, <1>6, <1>7, <1>8 DEF IndInv

LEMMA CopyNsolvingInv ==
  ASSUME IndInv, CopyNsolving
  PROVE  IndInv'
<1>. USE DEF CopyNsolving, Running
<1>1. stream # <<>> /\ Head(stream) = stream[1] /\ stream[1].kind = "copy" /\ ran = {}
  BY DEF IndInv, TypeOK, ThreadsOK, PerWorld
<1>2. LeavesBehind(stream[1])
  BY <1>1 DEF IndInv, WorldsOK, ProgressAt, LeavesBehind
<1>3. /\ stream' \in Seq(Ops)
      /\ Chain(stream)' /\ GraphOK' /\ HostOK' /\ ThreadsOK' /\ WorldsOK'
  BY <1>1, <1>2, Complete
<1>4. TypeOK' /\ CopyOK'
  BY <1>3 DEF IndInv, TypeOK, CopyOK, worldVars
<1>5. nsolving = Cardinality(Unconverged)
  BY <1>1 DEF IndInv, ActiveCount
<1>6. ActiveCount'
  BY <1>5, StillCounting
<1>. QED  BY <1>3, <1>4, <1>6 DEF IndInv

LEMMA WhileNodeInv ==
  ASSUME IndInv, WhileNode
  PROVE  IndInv'
<1>. USE DEF WhileNode, Running
<1>. DEFINE h == stream[1]
<1>1. stream # <<>> /\ Head(stream) = h /\ h.kind = "while" /\ ran = {}
      /\ stream \in Seq(Ops)
  BY DEF IndInv, TypeOK, ThreadsOK, PerWorld
<1>2. nsolving = Cardinality(Unconverged) /\ IsFiniteSet(Unconverged)
  BY <1>1, WorldsAssumption, FS_Subset DEF IndInv, ActiveCount, Unconverged
<1>3. \A w \in Worlds : InSolve(w, h.cap, h.it - 1, h.it - 1)
  BY <1>1 DEF IndInv, WorldsOK, ProgressAt
<1>4. /\ Tail(stream) \in Seq(Ops) /\ Chain(Tail(stream)) /\ OpOK(h)
      /\ Tail(stream) # <<>> => /\ Follows(h, Tail(stream)[1])
                                /\ Tail(stream)[Len(Tail(stream))] = stream[Len(stream)]
      /\ Tail(stream) = <<>> => h = stream[Len(stream)]
  BY <1>1, ChainTail DEF IndInv
<1>5. h.it \in Nat /\ h.cap \in Nat /\ h.it >= 1 /\ h.cap >= 1
  BY <1>1, <1>4 DEF OpOK, Ops
<1>6. CASE nsolving = 0
  <2>1. \A w \in Worlds : Settled(w)
    BY <1>2, <1>3, <1>6, FS_EmptySet DEF Unconverged, InSolve, Settled
  <2>2. LeavesBehind(h)
    BY <1>1, <2>1 DEF LeavesBehind
  <2>3. stream' = Tail(stream) /\ ran' = {}
    BY <1>1, <1>6
  <2>4. /\ stream' \in Seq(Ops)
        /\ Chain(stream)' /\ GraphOK' /\ HostOK' /\ ThreadsOK' /\ WorldsOK'
        /\ stream' = <<>> => stream[1] = stream[Len(stream)]
    BY <1>1, <2>2, <2>3, Complete DEF hostVars
  <2>5. TypeOK'
    BY <2>4 DEF IndInv, TypeOK, hostVars, worldVars
  <2>6. CopyOK'
    <3>1. Op("copy", issued, hcap).kind = "copy"
      BY OpType DEF Kinds, IndInv, TypeOK
    <3>. QED  BY <1>1, <2>4, <3>1 DEF IndInv, CopyOK, HostOK, hostVars
  <2>7. ActiveCount'
    BY <1>2, StillCounting
  <2>. QED  BY <2>4, <2>5, <2>6, <2>7 DEF IndInv
<1>7. CASE nsolving # 0
  <2>. DEFINE t == SolverIteration(h.it, h.cap)
              q == <<Op("while", h.it + 1, h.cap)>>
  <2>1. PICK w \in Worlds : ~done[w]
    BY <1>2, <1>7, FS_EmptySet DEF Unconverged
  <2>2. h.it <= h.cap
    BY <1>3, <1>5, <2>1 DEF InSolve
  <2>3. \A k \in Kinds, j \in {h.it, h.it + 1} :
           /\ Op(k, j, h.cap).kind = k /\ Op(k, j, h.cap).it = j /\ Op(k, j, h.cap).cap = h.cap
    BY <1>5, OpType
  <2>4. /\ t \in Seq(Ops) /\ t # <<>> /\ Chain(t) /\ Len(t) = 2
        /\ t[1] = Op("iteration", h.it, h.cap) /\ t[2] = Op("solve_done", h.it, h.cap)
    BY <1>5, <2>2, ChainPieces DEF SolverIteration
  <2>5. /\ q \in Seq(Ops) /\ q # <<>> /\ Chain(q) /\ Len(q) = 1
        /\ q[1] = Op("while", h.it + 1, h.cap)
    BY <1>5, SingleOp
  \* The node is followed by what followed it.
  <2>6. /\ q \o Tail(stream) \in Seq(Ops) /\ q \o Tail(stream) # <<>>
        /\ Chain(q \o Tail(stream)) /\ (q \o Tail(stream))[1] = q[1]
        /\ (q \o Tail(stream))[Len(q \o Tail(stream))] =
             IF Tail(stream) = <<>> THEN q[1] ELSE stream[Len(stream)]
    <3>1. CASE Tail(stream) = <<>>
      <4>1. q \o Tail(stream) = q
        BY <2>5, <3>1, ConcatEmptySeq
      <4>. QED  BY <2>5, <3>1, <4>1
    <3>2. CASE Tail(stream) # <<>>
      <4>1. Follows(q[Len(q)], Tail(stream)[1])
        BY <1>1, <1>4, <2>3, <2>5, <3>2 DEF Follows, LastOfSolve, Kinds
      <4>. QED  BY <1>4, <2>5, <3>2, <4>1, ChainConcat, ConcatEnds
    <3>. QED  BY <3>1, <3>2
  <2>7. stream' = t \o (q \o Tail(stream))
    <3>1. stream' = (t \o q) \o Tail(stream)
      BY <1>1, <1>7
    <3>2. t \in Seq(Ops) /\ q \in Seq(Ops) /\ Tail(stream) \in Seq(Ops)
      BY <1>4, <2>4, <2>5
    <3>3. (t \o q) \o Tail(stream) = t \o (q \o Tail(stream))
      <4>. HIDE DEF t, q
      <4>. QED  BY <3>2, ConcatAssociative, SMTT(30)
    <3>. QED  BY <3>1, <3>3
  <2>8. Follows(t[Len(t)], (q \o Tail(stream))[1])
    BY <1>5, <2>3, <2>4, <2>5, <2>6 DEF Follows, Kinds
  <2>9. /\ stream' \in Seq(Ops) /\ stream' # <<>> /\ Chain(stream')
        /\ stream'[1] = Op("iteration", h.it, h.cap)
        /\ stream'[Len(stream')] = IF Tail(stream) = <<>> THEN q[1] ELSE stream[Len(stream)]
    <3>. DEFINE u == q \o Tail(stream)
    <3>1. /\ u \in Seq(Ops) /\ u # <<>> /\ Chain(u)
          /\ u[Len(u)] = IF Tail(stream) = <<>> THEN q[1] ELSE stream[Len(stream)]
      BY <2>6
    <3>2. stream' = t \o u /\ Follows(t[Len(t)], u[1])
      BY <2>7, <2>8
    <3>. HIDE DEF q, t, u
    <3>3. Chain(t \o u)
      BY <2>4, <3>1, <3>2, ChainConcat
    <3>4. /\ t \o u \in Seq(Ops) /\ t \o u # <<>>
          /\ (t \o u)[1] = t[1] /\ (t \o u)[Len(t \o u)] = u[Len(u)]
      BY <2>4, <3>1, ConcatEnds
    <3>. QED  BY <2>4, <3>1, <3>2, <3>3, <3>4
  <2>10. Head(stream') = stream'[1] /\ stream'[1].kind = "iteration"
         /\ stream'[1].it = h.it /\ stream'[1].cap = h.cap
    <3>1. stream' \in Seq(Ops) /\ stream' # <<>> /\ stream'[1] = Op("iteration", h.it, h.cap)
      BY <2>9
    <3>2. /\ Op("iteration", h.it, h.cap).kind = "iteration" /\ Op("iteration", h.it, h.cap).it = h.it
          /\ Op("iteration", h.it, h.cap).cap = h.cap
      BY DEF Op
    <3>3. Head(stream') = stream'[1]
      BY <3>1
    <3>. QED  BY <3>1, <3>2, <3>3
  <2>11. Chain(stream)' /\ GraphOK' /\ ThreadsOK' /\ CopyOK' /\ ActiveCount'
    BY <1>1, <1>2, <2>9, SameGraph, StillCounting
       DEF IndInv, Chain, ThreadsOK, CopyOK, hostVars
  <2>12. TypeOK'
    BY <2>9 DEF IndInv, TypeOK, hostVars, worldVars
  <2>13. HostOK'
    <3>1. LastOfSolve(q[1])
      BY <2>3, <2>5 DEF LastOfSolve, Kinds
    <3>2. Tail(stream) = <<>> => hpc = "idle"
      <4>1. \A i \in Nat, c \in Nat : /\ Op("copy", i, c).kind = "copy"
                                      /\ Op("reset_nsolving", i, c).kind = "reset_nsolving"
                                      /\ Op("solve_done", i, c).kind = "solve_done"
        BY OpType DEF Kinds
      <4>. QED  BY <1>1, <1>4, <4>1, ZenonT(30) DEF IndInv, HostOK, TypeOK
    <3>. QED  BY <1>1, <2>9, <3>1, <3>2 DEF IndInv, HostOK, EagerStrategy, hostVars
  <2>14. WorldsOK'
    <3>1. \A v \in Worlds : need[v] = 0 => niter[v] = 0
      BY DEF IndInv, WorldsOK
    <3>. QED  BY <1>1, <1>3, <2>9, <2>10, <3>1 DEF WorldsOK, ProgressAt, InSolve, Exact, worldVars
  <2>. QED  BY <2>11, <2>12, <2>13, <2>14 DEF IndInv
<1>. QED  BY <1>6, <1>7

-----------------------------------------------------------------------------

LEMMA StutterInv ==
  ASSUME IndInv, UNCHANGED vars
  PROVE  IndInv'
<1>. USE DEF IndInv, vars, hostVars
<1>1. TypeOK' /\ Chain(stream)' /\ ThreadsOK' /\ CopyOK'
  BY DEF TypeOK, Chain, ThreadsOK, CopyOK, worldVars
<1>2. GraphOK' /\ HostOK'
  BY SameGraph DEF HostOK, EagerStrategy
<1>3. ActiveCount' /\ WorldsOK'
  BY DEF ActiveCount, Unconverged, WorldsOK, ProgressAt, Settled, Fresh, InSolve, Exact, worldVars
<1>. QED  BY <1>1, <1>2, <1>3

\* The inductive invariant: counter, progress and stream fit together.
THEOREM Inductive == Spec => []IndInv
<1>1. IndInv /\ [Next]_vars => IndInv'
  <2>. SUFFICES ASSUME IndInv, [Next]_vars PROVE IndInv'
    OBVIOUS
  <2>1. ASSUME NEW c \in Caps, BeginSolve(c) PROVE IndInv'
    BY <2>1, BeginSolveInv
  <2>2. ASSUME NEW c \in Caps, Capture(c) PROVE IndInv'
    BY <2>2, CaptureInv
  <2>3. CASE Replay
    BY <2>3, ReplayInv
  <2>4. CASE Host
    BY <2>4, FixedIterateInv, PolledIterateInv, PolledReadBackInv, WhileCopyInv,
       WhileReadBackInv DEF Host
  <2>5. ASSUME NEW w \in Worlds, InitThread(w) \/ IterationThread(w) \/ SolveDoneThread(w)
        PROVE  IndInv'
    BY <2>5, InitThreadInv, IterationThreadInv, SolveDoneThreadInv
  <2>6. CASE Retire \/ ResetNsolving \/ CopyNsolving \/ WhileNode
    BY <2>6, RetireInv, ResetNsolvingInv, CopyNsolvingInv, WhileNodeInv
  <2>7. CASE UNCHANGED vars
    BY <2>7, StutterInv
  <2>. QED
    BY <2>1, <2>2, <2>3, <2>4, <2>5, <2>6, <2>7 DEF Next, User, Device, Finished
<1>. QED  BY <1>1, InitIndInv, PTL DEF Spec

\* Types, and a counter between 0 and the number of worlds (solve_done).
THEOREM Typing == Spec => []TypeOK
<1>1. IndInv => TypeOK
  BY DEF IndInv
<1>. QED  BY <1>1, Inductive, PTL

\* What the host polls and the while node tests is the number of worlds that are
\* not done (solve_done, _reset_nsolving).
THEOREM CounterExact == Spec => []ActiveCount
<1>1. IndInv => ActiveCount
  BY DEF IndInv
<1>. QED  BY <1>1, Inductive, PTL

\* Whatever the strategy of _solve, a solve gives every world the iterations it
\* would perform alone.
THEOREM ResultsExact == Spec => []ResultExact
<1>1. IndInv => ResultExact
  BY DEF IndInv, WorldsOK, Settled, Exact, ResultExact, Quiescent
<1>. QED  BY <1>1, Inductive, PTL

\* capture_while stays within m.opt.iterations although it ignores max_iterations.
THEOREM WhileLimited == Spec => []WhileWithinCap
<1>1. IndInv => WhileWithinCap
  BY DEF IndInv, HostOK, WhileWithinCap
<1>. QED  BY <1>1, Inductive, PTL

-----------------------------------------------------------------------------
(* The polls of the HIP loop.                                              *)

LEMMA SmallMultiple == \A d \in Int : NCheck * d < NCheck /\ NCheck * d > 0 - NCheck => d = 0
  BY BoundsAssumption

LEMMA Division ==
  \A i \in Nat : i % NCheck \in 0..NCheck - 1 /\ i \div NCheck \in Int
                 /\ i = NCheck * (i \div NCheck) + (i % NCheck)
  BY BoundsAssumption

\* Between two polls the remainder counts the iterations.
LEMMA NextRemainder ==
  ASSUME NEW i \in Nat, (i + 1) % NCheck # 0
  PROVE  (i + 1) % NCheck = (i % NCheck) + 1
<1>1. PICK q \in Int, r \in 0..NCheck - 1 : i % NCheck = r /\ i = NCheck * q + r
  BY Division
<1>2. PICK p \in Int, s \in 0..NCheck - 1 : (i + 1) % NCheck = s /\ i + 1 = NCheck * p + s
  BY Division
<1>3. NCheck * (p - q) = r + 1 - s /\ s >= 1
  BY BoundsAssumption, <1>1, <1>2
<1>4. NCheck * (p - q) < NCheck /\ NCheck * (p - q) > 0 - NCheck
  BY BoundsAssumption, <1>1, <1>2, <1>3
<1>5. p - q = 0
  BY <1>4, SmallMultiple
<1>6. p = q
  BY <1>5
<1>. QED  BY BoundsAssumption, <1>1, <1>2, <1>6

LEMMA SameWindow ==
  ASSUME WindowOK, UNCHANGED <<config, hpc, issued, done, niter>>,
         \A p : stream \in Seq(LateOps(p)) => stream' \in Seq(LateOps(p))
  PROVE  WindowOK'
  BY DEF WindowOK, EagerStrategy, LastPoll

LEMMA StepWindow ==
  ASSUME IndInv, WindowOK, [Next]_vars
  PROVE  WindowOK'
<1>1. /\ issued \in Nat /\ hcap \in Nat /\ stream \in Seq(Ops) /\ issued % NCheck \in Nat
      /\ niter \in [Worlds -> Nat] /\ done \in [Worlds -> BOOLEAN]
  <2>1. /\ issued \in Nat /\ hcap \in Nat /\ stream \in Seq(Ops)
        /\ niter \in [Worlds -> Nat] /\ done \in [Worlds -> BOOLEAN]
    BY DEF IndInv, TypeOK
  <2>2. issued % NCheck \in 0..NCheck - 1
    BY <2>1, Division
  <2>.  QED  BY <2>1, <2>2, BoundsAssumption
<1>2. \A p : \A s \in Seq(LateOps(p)) : s # <<>> => Tail(s) \in Seq(LateOps(p)) /\ Head(s) \in LateOps(p)
  BY HeadTailProperties
<1>3. ASSUME NEW c \in Caps, BeginSolve(c) PROVE WindowOK'
  <2>1. issued' = 0 /\ issued' % NCheck = 0 /\ hpc' # "sync"
    BY <1>3, BoundsAssumption DEF BeginSolve
  <2>. QED  BY <2>1 DEF WindowOK, LastPoll
<1>4. ASSUME NEW c \in Caps, Capture(c) PROVE WindowOK'
  BY <1>4 DEF Capture, WindowOK
<1>5. CASE Replay
  BY <1>5 DEF Replay, WindowOK
<1>6. CASE FixedIterate \/ WhileCopy \/ WhileReadBack
  BY <1>6 DEF FixedIterate, WhileCopy, WhileReadBack, WindowOK, EagerStrategy
<1>7. CASE PolledIterate
  <2>1. issued' = issued + 1 /\ UNCHANGED <<config, hcap, done, niter>> /\ hpc = "loop"
        /\ EagerStrategy = "polled"
    BY <1>7 DEF PolledIterate, worldVars
  <2>2. CASE (issued + 1) % NCheck = 0
    BY <1>7, <2>1, <2>2 DEF PolledIterate, WindowOK
  <2>3. CASE (issued + 1) % NCheck # 0
    <3>1. LastPoll' = LastPoll /\ LastPoll \in Int /\ LastPoll < issued + 1
      BY <1>1, <2>1, <2>3, NextRemainder DEF LastPoll
    <3>2. stream' = stream \o SolverIteration(issued + 1, hcap) /\ hpc' # "sync"
      BY <1>7, <2>3 DEF PolledIterate
    <3>3. SolverIteration(issued + 1, hcap) \in Seq(LateOps(LastPoll))
      <4>1. /\ Op("iteration", issued + 1, hcap) \in LateOps(LastPoll)
            /\ Op("solve_done", issued + 1, hcap) \in LateOps(LastPoll)
        BY <1>1, <3>1 DEF LateOps, Ops, Op, Kinds
      <4>. QED  BY <4>1 DEF SolverIteration
    <3>4. stream \in Seq(LateOps(LastPoll)) => stream' \in Seq(LateOps(LastPoll))
      BY <3>2, <3>3, ConcatProperties
    <3>. QED  BY <2>1, <3>1, <3>2, <3>4 DEF WindowOK
  <2>. QED  BY <2>2, <2>3
<1>8. CASE PolledReadBack
  <2>1. /\ hpc = "sync" /\ EagerStrategy = "polled" /\ stream = <<>> /\ hpc' # "sync"
        /\ hpc' = "loop" => nsolving_host # 0
        /\ UNCHANGED <<config, issued, stream, done, niter>>
    BY <1>8 DEF PolledReadBack, worldVars
  <2>2. stream' \in Seq(LateOps(LastPoll'))
    BY <2>1, EmptySeq
  <2>3. hpc' = "loop" => \E w \in Worlds : ~done[w]
    <3>1. IsFiniteSet(Unconverged)
      BY WorldsAssumption, FS_Subset DEF Unconverged
    <3>2. nsolving_host = Cardinality(Unconverged)
      BY <2>1 DEF IndInv, CopyOK, ActiveCount
    <3>. QED  BY <2>1, <3>1, <3>2, FS_EmptySet DEF Unconverged
  <2>. QED  BY <2>1, <2>2, <2>3 DEF WindowOK
<1>9. ASSUME NEW w \in Worlds, InitThread(w) PROVE WindowOK'
  <2>1. Running("init_context") /\ UNCHANGED <<config, hpc, issued, stream>>
    BY <1>9 DEF InitThread, hostVars
  <2>2. \A p : stream \notin Seq(LateOps(p))
    BY <1>2, <2>1 DEF Running, LateOps
  <2>. QED  BY <2>1, <2>2 DEF WindowOK, EagerStrategy, LastPoll
<1>10. ASSUME NEW w \in Worlds, IterationThread(w) PROVE WindowOK'
  BY <1>10, SameWindow DEF IterationThread, hostVars
<1>11. ASSUME NEW w \in Worlds, SolveDoneThread(w) PROVE WindowOK'
  <2>1. Running("solve_done") /\ UNCHANGED <<config, hpc, issued, stream>> /\ w \notin ran
    BY <1>11 DEF SolveDoneThread, hostVars
  <2>2. CASE done[w]
    BY <1>11, <2>1, <2>2, SameWindow DEF SolveDoneThread
  <2>3. CASE ~done[w]
    <3>. SUFFICES ASSUME EagerStrategy = "polled", hpc = "loop", LastPoll > 0
                  PROVE  stream \in Seq(LateOps(LastPoll))
                         /\ \E v \in Worlds : ~done'[v] \/ niter'[v] > LastPoll
      BY <2>1 DEF WindowOK, EagerStrategy, LastPoll
    <3>1. stream \in Seq(LateOps(LastPoll))
      BY DEF WindowOK
    <3>2. stream # <<>> /\ Head(stream) = stream[1] /\ stream[1].kind = "solve_done"
          /\ stream[1].it \in Nat /\ stream[1].it > LastPoll
      BY <1>1, <1>2, <2>1, <3>1 DEF Running, LateOps, Ops
    <3>3. niter[w] = stream[1].it - 1
      BY <2>1, <2>3, <3>2 DEF IndInv, WorldsOK, ProgressAt, InSolve
    <3>4. niter'[w] = stream[1].it
      BY <1>1, <1>11, <2>3, <3>2, <3>3 DEF SolveDoneThread
    <3>. QED  BY <3>1, <3>2, <3>4
  <2>. QED  BY <2>2, <2>3
<1>12. CASE Retire \/ ResetNsolving \/ CopyNsolving
  <2>1. /\ stream # <<>> /\ stream' = Tail(stream)
        /\ UNCHANGED <<config, hpc, issued, done, niter>>
    BY <1>12 DEF Retire, ResetNsolving, CopyNsolving, Running, hostVars, worldVars
  <2>. QED  BY <1>2, <2>1, SameWindow
<1>13. CASE WhileNode
  <2>1. Running("while") /\ UNCHANGED <<config, hpc, issued, done, niter>>
    BY <1>13 DEF WhileNode, hostVars, worldVars
  <2>2. \A p : stream \notin Seq(LateOps(p))
    BY <1>2, <2>1 DEF Running, LateOps
  <2>. QED  BY <2>1, <2>2, SameWindow
<1>14. CASE UNCHANGED vars
  BY <1>14, SameWindow DEF vars, hostVars, worldVars
<1>. QED
  BY <1>3, <1>4, <1>5, <1>6, <1>7, <1>8, <1>9, <1>10, <1>11, <1>12, <1>13, <1>14
     DEF Next, User, Host, Device, Finished

\* The HIP loop goes on only if some world was still solving at the last poll.
THEOREM WindowKept == Spec => []EarlyExitWindow
<1>1. Init => WindowOK
  BY DEF Init, WindowOK
<1>2. WindowOK => EarlyExitWindow
  BY DEF WindowOK, EarlyExitWindow, LastPoll
<1>. QED  BY <1>1, <1>2, StepWindow, Inductive, PTL DEF Spec

-----------------------------------------------------------------------------
(* The refinement of WorldSolve, as far as safety goes.  It needs one fact *)
(* more: every solve runs under a limit that the model allows.             *)

LimitedOps == [kind : Kinds, it : Nat, cap : Caps]

LimitsOK ==
  /\ hpc # "idle" => hcap \in Caps
  /\ stream \in Seq(LimitedOps)
  /\ graph \in Seq(LimitedOps)

LEMMA LimitedOp ==
  \A kind \in Kinds, it \in Nat, c \in Caps : Op(kind, it, c) \in LimitedOps
  BY DEF Op, LimitedOps

LEMMA LimitedPieces ==
  ASSUME NEW i \in Nat, NEW c \in Caps
  PROVE  /\ Prologue(c) \in Seq(LimitedOps)
         /\ SolverIteration(i, c) \in Seq(LimitedOps)
         /\ \A kind \in Kinds : <<Op(kind, i, c)>> \in Seq(LimitedOps)
         /\ Unrolled(c) \in Seq(LimitedOps)
<1>1. c \in Nat
  BY CapsAssumption
<1>2. /\ Op("init_context", 0, c) \in LimitedOps /\ Op("reset_nsolving", 0, c) \in LimitedOps
      /\ Op("iteration", i, c) \in LimitedOps /\ Op("solve_done", i, c) \in LimitedOps
      /\ \A kind \in Kinds : Op(kind, i, c) \in LimitedOps
  BY LimitedOp DEF Kinds
<1>3. Prologue(c) \in Seq(LimitedOps) /\ SolverIteration(i, c) \in Seq(LimitedOps)
      /\ \A kind \in Kinds : <<Op(kind, i, c)>> \in Seq(LimitedOps)
  <2>. HIDE DEF LimitedOps
  <2>. QED  BY <1>2 DEF Prologue, SolverIteration
<1>4. Unrolled(c) \in Seq(LimitedOps)
  <2>1. ASSUME NEW k \in 1..2 * c
        PROVE  Op(IF k % 2 = 1 THEN "iteration" ELSE "solve_done", (k + 1) \div 2, c)
                 \in LimitedOps
    <3>1. (k + 1) \div 2 \in Nat
      BY <1>1, <2>1
    <3>2. (IF k % 2 = 1 THEN "iteration" ELSE "solve_done") \in Kinds
      BY DEF Kinds
    <3>. QED  BY <3>1, <3>2, LimitedOp
  <2>2. Unrolled(c) \in [1..2 * c -> LimitedOps] /\ 2 * c \in Nat
    BY <1>1, <2>1 DEF Unrolled
  <2>. QED  BY <2>2, SeqDef
<1>. QED  BY <1>3, <1>4

LEMMA InitLimits == Init => LimitsOK
  BY EmptySeq DEF Init, LimitsOK

LEMMA StepLimits ==
  ASSUME IndInv, LimitsOK, [Next]_vars
  PROVE  LimitsOK'
<1>. USE DEF LimitsOK
<1>. DEFINE S == Seq(LimitedOps)
<1>1. \A s \in S, t \in S : s \o t \in S
  BY ConcatProperties
<1>2. \A s \in S : s # <<>> => Tail(s) \in S /\ Head(s) \in LimitedOps
  BY HeadTailProperties
<1>3. issued \in Nat
  BY DEF IndInv, TypeOK
<1>4. /\ hcap \in Caps => /\ SolverIteration(issued + 1, hcap) \in S
                          /\ \A kind \in Kinds : /\ <<Op(kind, issued, hcap)>> \in S
                                                 /\ <<Op(kind, issued + 1, hcap)>> \in S
  BY <1>3, LimitedPieces
<1>5. ASSUME NEW c \in Caps, BeginSolve(c) PROVE LimitsOK'
  BY <1>1, <1>5, LimitedPieces DEF BeginSolve
<1>6. ASSUME NEW c \in Caps, Capture(c) PROVE LimitsOK'
  <2>1. /\ Prologue(c) \in S /\ Unrolled(c) \in S /\ <<>> \in S
        /\ <<Op("while", 1, c)>> \in S
    BY LimitedPieces, EmptySeq DEF Kinds
  <2>2. Recorded(c) \in S
    BY <1>1, <2>1 DEF Recorded
  <2>. QED  BY <1>6, <2>2 DEF Capture
<1>7. CASE Replay
  BY <1>1, <1>7 DEF Replay
<1>8. CASE FixedIterate
  BY <1>1, <1>4, <1>8 DEF FixedIterate
<1>9. CASE PolledIterate
  <2>1. hcap \in Caps /\ <<Op("copy", issued + 1, hcap)>> \in S
        /\ SolverIteration(issued + 1, hcap) \in S
    BY <1>4, <1>9 DEF PolledIterate, Kinds
  <2>2. stream' \in S
    BY <1>1, <1>9, <2>1 DEF PolledIterate
  <2>. QED  BY <1>9, <2>1, <2>2 DEF PolledIterate
<1>10. CASE PolledReadBack
  BY <1>10 DEF PolledReadBack
<1>11. CASE WhileCopy
  <2>1. hcap \in Caps /\ Op("copy", issued, hcap) \in LimitedOps
    BY <1>3, <1>11, LimitedOp DEF WhileCopy, Kinds
  <2>2. Append(stream, Op("copy", issued, hcap)) \in S
    BY <2>1, AppendProperties
  <2>. QED  BY <1>11, <2>1, <2>2 DEF WhileCopy
<1>12. CASE WhileReadBack
  BY <1>4, <1>12 DEF WhileReadBack
<1>13. ASSUME NEW w \in Worlds, InitThread(w) \/ IterationThread(w) \/ SolveDoneThread(w)
       PROVE  LimitsOK'
  BY <1>13 DEF InitThread, IterationThread, SolveDoneThread, hostVars
<1>14. CASE Retire \/ ResetNsolving \/ CopyNsolving
  BY <1>2, <1>14 DEF Retire, ResetNsolving, CopyNsolving, Running, hostVars
<1>15. CASE WhileNode
  <2>. DEFINE h == Head(stream)
  <2>1. stream # <<>> /\ Tail(stream) \in S /\ h \in LimitedOps
    BY <1>2, <1>15 DEF WhileNode, Running
  <2>2. h.it \in Nat /\ h.cap \in Caps
    BY <2>1 DEF LimitedOps
  <2>3. SolverIteration(h.it, h.cap) \in S /\ <<Op("while", h.it + 1, h.cap)>> \in S
    <3>1. \A i \in Nat, c \in Caps :
             SolverIteration(i, c) \in S /\ \A kind \in Kinds : <<Op(kind, i, c)>> \in S
      BY LimitedPieces
    <3>2. h.it + 1 \in Nat /\ "while" \in Kinds
      BY <2>2 DEF Kinds
    <3>. QED  BY <2>2, <3>1, <3>2
  <2>4. SolverIteration(h.it, h.cap) \o <<Op("while", h.it + 1, h.cap)>> \o Tail(stream) \in S
    BY <1>1, <2>1, <2>3
  <2>. QED  BY <1>15, <2>1, <2>4 DEF WhileNode, hostVars
<1>16. CASE UNCHANGED vars
  BY <1>16 DEF vars, hostVars
<1>. QED
  BY <1>5, <1>6, <1>7, <1>8, <1>9, <1>10, <1>11, <1>12, <1>13, <1>14, <1>15, <1>16
     DEF Next, User, Host, Device, Finished

LEMMA RefineInit == Init => Abstract!Init
  BY DEF Init, Abstract!Init, WorldStatus

\* A step that leaves the worlds alone is invisible.
LEMMA RefineStutter ==
  ASSUME UNCHANGED worldVars
  PROVE  UNCHANGED Abstract!vars
  BY DEF worldVars, Abstract!vars, WorldStatus

\* A thread of init_context starts the solve of a world that is not running.
LEMMA RefineStart ==
  ASSUME IndInv, LimitsOK, NEW w \in Worlds, InitThread(w)
  PROVE  Abstract!Start(w)
<1>. USE DEF InitThread, Running
<1>1. stream # <<>> /\ stream[1] = Head(stream) /\ stream[1].kind = "init_context"
      /\ w \notin ran
  BY DEF IndInv, TypeOK
<1>2. Settled(w)
  BY <1>1 DEF IndInv, WorldsOK, ProgressAt
<1>3. WorldStatus[w] # "running"
  BY <1>2 DEF Settled, Exact, WorldStatus
<1>4. /\ done \in [Worlds -> BOOLEAN] /\ need \in [Worlds -> Nat] /\ cap \in [Worlds -> Nat]
  BY DEF IndInv, TypeOK
<1>5. PICK n \in 1..MaxNeed : need' = [need EXCEPT ![w] = n]
  OBVIOUS
<1>6. Head(stream).cap \in Caps
  <2>1. Head(stream) \in LimitedOps
    BY <1>1, HeadTailProperties DEF LimitsOK
  <2>. QED  BY <2>1 DEF LimitedOps
<1>7. /\ need'[w] >= 1 /\ cap'[w] = Head(stream).cap /\ ~done'[w]
      /\ \A v \in Worlds \ {w} : need'[v] = need[v] /\ cap'[v] = cap[v] /\ done'[v] = done[v]
  BY <1>4, <1>5
<1>8. WorldStatus' = [WorldStatus EXCEPT ![w] = IF Head(stream).cap = 0 THEN "finished"
                                                ELSE "running"]
  <2>1. ASSUME NEW v \in Worlds
        PROVE  WorldStatus'[v] = IF v = w THEN IF Head(stream).cap = 0 THEN "finished"
                                               ELSE "running"
                                 ELSE WorldStatus[v]
    BY <1>7 DEF WorldStatus
  <2>. QED  BY <2>1 DEF WorldStatus
<1>. QED  BY <1>3, <1>5, <1>6, <1>8 DEF Abstract!Start

\* A thread of solve_done that finds its world unfinished is an iteration of it.
LEMMA RefineIterate ==
  ASSUME IndInv, NEW w \in Worlds, SolveDoneThread(w), ~done[w]
  PROVE  Abstract!Iterate(w)
<1>. USE DEF SolveDoneThread, Running
<1>1. stream # <<>> /\ stream[1] = Head(stream) /\ stream[1].kind = "solve_done"
      /\ w \notin ran
  BY DEF IndInv, TypeOK
<1>. DEFINE h == Head(stream)
<1>2. InSolve(w, h.cap, h.it - 1, h.it)
  BY <1>1 DEF IndInv, WorldsOK, ProgressAt
<1>3. /\ done \in [Worlds -> BOOLEAN] /\ need \in [Worlds -> Nat] /\ cap \in [Worlds -> Nat]
      /\ niter \in [Worlds -> Nat] /\ h.it \in Nat
  <2>1. h \in Ops
    BY <1>1, HeadTailProperties DEF IndInv, TypeOK
  <2>. QED  BY <2>1 DEF IndInv, TypeOK, Ops
<1>4. /\ need[w] >= 1 /\ cap[w] = h.cap /\ cap[w] >= 1
      /\ niter[w] = h.it - 1 /\ updates[w] = h.it /\ niter[w] < need[w] /\ niter[w] < cap[w]
  BY <1>2 DEF InSolve
<1>5. Converged(w) \/ niter[w] + 1 = h.cap <=> niter[w] + 1 \in {need[w], cap[w]}
  BY <1>3, <1>4 DEF Converged
<1>6. WorldStatus[w] = "running"
  BY <1>4 DEF WorldStatus
<1>7. niter' = [niter EXCEPT ![w] = @ + 1] /\ UNCHANGED <<need, cap>>
  OBVIOUS
<1>8. done' = [done EXCEPT ![w] = niter[w] + 1 \in {need[w], cap[w]}]
  <2>1. CASE niter[w] + 1 \in {need[w], cap[w]}
    BY <1>5, <2>1
  <2>2. CASE niter[w] + 1 \notin {need[w], cap[w]}
    <3>1. done' = done /\ done[w] = FALSE
      BY <1>3, <1>5, <2>2
    <3>. QED  BY <1>3, <2>2, <3>1
  <2>. QED  BY <2>1, <2>2
<1>9. WorldStatus' = [WorldStatus EXCEPT ![w] =
                        IF niter[w] + 1 \in {need[w], cap[w]} THEN "finished" ELSE "running"]
  <2>1. ASSUME NEW v \in Worlds
        PROVE  WorldStatus'[v] = IF v = w THEN IF niter[w] + 1 \in {need[w], cap[w]}
                                               THEN "finished" ELSE "running"
                                 ELSE WorldStatus[v]
    BY <1>3, <1>4, <1>7, <1>8 DEF WorldStatus
  <2>. QED  BY <2>1 DEF WorldStatus
<1>. QED  BY <1>6, <1>7, <1>9 DEF Abstract!Iterate

LEMMA RefineStep ==
  ASSUME IndInv, LimitsOK, [Next]_vars
  PROVE  [Abstract!Next]_(Abstract!vars)
<1>1. ASSUME NEW w \in Worlds, InitThread(w) PROVE Abstract!Next
  BY <1>1, RefineStart DEF Abstract!Next
<1>2. ASSUME NEW w \in Worlds, SolveDoneThread(w), ~done[w] PROVE Abstract!Next
  BY <1>2, RefineIterate DEF Abstract!Next
<1>3. ASSUME NEW w \in Worlds, SolveDoneThread(w), done[w] PROVE UNCHANGED worldVars
  BY <1>3 DEF SolveDoneThread, worldVars
<1>4. ASSUME NEW w \in Worlds, IterationThread(w) PROVE UNCHANGED Abstract!vars
  BY <1>4 DEF IterationThread, Abstract!vars, WorldStatus
<1>5. ASSUME NEW c \in Caps, BeginSolve(c) \/ Capture(c) PROVE UNCHANGED worldVars
  BY <1>5 DEF BeginSolve, Capture
<1>6. ASSUME Replay \/ Host PROVE UNCHANGED worldVars
  BY <1>6 DEF Replay, Host, FixedIterate, PolledIterate, PolledReadBack, WhileCopy,
              WhileReadBack, worldVars
<1>7. ASSUME Retire \/ ResetNsolving \/ CopyNsolving \/ WhileNode \/ UNCHANGED vars
      PROVE  UNCHANGED worldVars
  BY <1>7 DEF Retire, ResetNsolving, CopyNsolving, WhileNode, vars
<1>8. UNCHANGED worldVars => UNCHANGED Abstract!vars
  BY RefineStutter
<1>9. UNCHANGED worldVars \/ UNCHANGED Abstract!vars \/ Abstract!Next
  BY <1>1, <1>2, <1>3, <1>4, <1>5, <1>6, <1>7 DEF Next, User, Device, Finished
<1>. QED  BY <1>8, <1>9

\* Every step of the pipeline is a step of some world's own solve (a thread of
\* init_context or solve_done), or is invisible to it.
THEOREM Refinement == Spec => Abstract!Init /\ [][Abstract!Next]_(Abstract!vars)
<1>1. IndInv /\ LimitsOK /\ [Next]_vars => [Abstract!Next]_(Abstract!vars)
  BY RefineStep
<1>2. IndInv /\ LimitsOK /\ [Next]_vars => LimitsOK'
  BY StepLimits
<1>. QED  BY <1>1, <1>2, RefineInit, InitLimits, Inductive, PTL DEF Spec
=============================================================================

-------------------------- MODULE StepStreamsProofs --------------------------
(***************************************************************************)
(* Proofs about StepStreams, for any number of iterations and of calls.    *)
(***************************************************************************)
EXTENDS StepStreamsInv, FiniteSetTheorems, SequenceTheorems, WellFoundedInduction, TLAPS

-----------------------------------------------------------------------------
(* What a call asks for.                                                   *)

Launches(S) == [do : {"launch"}, stream : S, op : Ops]
Syncs(S) == [do : {"synchronize"}, stream : S, op : {"none"}]
Requests == Launches(Streams) \cup Syncs(SideStreams)

\* Whatever is given to another stream is waited for later.
Closed(q) ==
  \A i \in 1..Len(q) : q[i].do = "launch" /\ q[i].stream # "main" =>
    \E j \in i + 1..Len(q) : Synchronizes(q[j], q[i].stream)

ClosedPrograms == {q \in Seq(Requests) : Closed(q)}

LEMMA LaunchTyped ==
  ASSUME NEW s, NEW ops \in Seq(Ops)
  PROVE  Launch(s, ops) \in Seq(Launches({s})) /\ Len(Launch(s, ops)) = Len(ops)
BY DEF Launch, Launches

LEMMA MainClosed == Seq(Launches({"main"})) \subseteq ClosedPrograms
<1> SUFFICES ASSUME NEW q \in Seq(Launches({"main"})) PROVE q \in Seq(Requests) /\ Closed(q)
  BY DEF ClosedPrograms
<1>1. \A i \in 1..Len(q) : q[i] \in Launches({"main"})
  OBVIOUS
<1>2. Launches({"main"}) \subseteq Requests
  BY DEF Launches, Requests, Streams
<1>3. q \in Seq(Requests)
  BY <1>2
<1> QED
  BY <1>1, <1>3 DEF Closed, Launches

LEMMA ConcatClosed ==
  ASSUME NEW q \in ClosedPrograms, NEW r \in ClosedPrograms
  PROVE  q \o r \in ClosedPrograms
<1>1. q \in Seq(Requests) /\ r \in Seq(Requests) /\ q \o r \in Seq(Requests)
      /\ Len(q \o r) = Len(q) + Len(r) /\ Len(q) \in Nat /\ Len(r) \in Nat
  BY DEF ClosedPrograms
<1>2. \A i \in 1..Len(q) : (q \o r)[i] = q[i]
  BY <1>1
<1>3. \A i \in 1..Len(r) : (q \o r)[Len(q) + i] = r[i]
  BY <1>1
<1>4. ASSUME NEW i \in 1..Len(q \o r), (q \o r)[i].do = "launch", (q \o r)[i].stream # "main"
      PROVE  \E j \in i + 1..Len(q \o r) : Synchronizes((q \o r)[j], (q \o r)[i].stream)
  <2>1. CASE i <= Len(q)
    <3>1. i \in 1..Len(q) /\ (q \o r)[i] = q[i]
      BY <1>1, <1>2, <2>1
    <3>2. PICK j \in i + 1..Len(q) : Synchronizes(q[j], q[i].stream)
      BY <1>4, <3>1 DEF ClosedPrograms, Closed
    <3>3. j \in 1..Len(q) /\ j \in i + 1..Len(q \o r)
      BY <1>1, <3>1
    <3> QED
      BY <1>2, <3>1, <3>2, <3>3
  <2>2. CASE i > Len(q)
    <3> DEFINE k == i - Len(q)
    <3>1. k \in 1..Len(r) /\ i = Len(q) + k
      BY <1>1, <2>2
    <3>2. (q \o r)[i] = r[k]
      BY <1>3, <3>1
    <3> HIDE DEF k
    <3>3. PICK j \in k + 1..Len(r) : Synchronizes(r[j], r[k].stream)
      BY <1>4, <3>1, <3>2 DEF ClosedPrograms, Closed
    <3>4. j \in 1..Len(r) /\ Len(q) + j \in i + 1..Len(q \o r)
      BY <1>1, <3>1
    <3> QED
      BY <1>3, <3>2, <3>3, <3>4
  <2> QED
    BY <1>1, <2>1, <2>2
<1> QED
  BY <1>1, <1>4 DEF ClosedPrograms, Closed

\* Launches on some streams, then the synchronisations with them.
LEMMA JoinClosed ==
  ASSUME NEW S \in SUBSET Streams, NEW q \in Seq(Launches(S)), NEW p \in Seq(Syncs(SideStreams)),
         \A s \in S : s # "main" => \E j \in 1..Len(p) : p[j].stream = s
  PROVE  q \o p \in ClosedPrograms
<1>1. /\ Len(q \o p) = Len(q) + Len(p) /\ Len(q) \in Nat /\ Len(p) \in Nat
      /\ \A i \in 1..Len(q) : (q \o p)[i] = q[i] /\ q[i] \in Launches(S)
      /\ \A i \in 1..Len(p) : (q \o p)[Len(q) + i] = p[i] /\ p[i] \in Syncs(SideStreams)
  OBVIOUS
<1>2. q \o p \in Seq(Requests)
  <2>1. Launches(S) \subseteq Requests /\ Syncs(SideStreams) \subseteq Requests
    BY DEF Launches, Requests, Syncs
  <2>2. q \in Seq(Requests) /\ p \in Seq(Requests)
    BY <2>1
  <2> QED
    BY <2>2
<1>3. ASSUME NEW i \in 1..Len(q \o p), (q \o p)[i].do = "launch", (q \o p)[i].stream # "main"
      PROVE  \E j \in i + 1..Len(q \o p) : Synchronizes((q \o p)[j], (q \o p)[i].stream)
  <2>1. i \in 1..Len(q)
    <3>1. CASE i > Len(q)
      <4>1. i - Len(q) \in 1..Len(p) /\ i = Len(q) + (i - Len(q))
        BY <1>1, <3>1
      <4>2. (q \o p)[i] \in Syncs(SideStreams)
        BY <1>1, <4>1
      <4> QED
        BY <1>3, <4>2 DEF Syncs
    <3> QED
      BY <1>1, <3>1
  <2>2. (q \o p)[i] = q[i] /\ q[i].stream \in S
    BY <1>1, <2>1 DEF Launches
  <2>3. PICK j \in 1..Len(p) : p[j].stream = q[i].stream
    BY <1>3, <2>2
  <2>4. Synchronizes((q \o p)[Len(q) + j], q[i].stream)
    BY <1>1, <2>3 DEF Synchronizes, Syncs
  <2>5. Len(q) + j \in i + 1..Len(q \o p)
    BY <1>1, <2>1
  <2> QED
    BY <2>2, <2>4, <2>5
<1> QED
  BY <1>2, <1>3 DEF ClosedPrograms, Closed

LEMMA SyncTyped ==
  ASSUME NEW s \in SideStreams
  PROVE  Sync(s) \in Seq(Syncs(SideStreams)) /\ Len(Sync(s)) = 1 /\ Sync(s)[1].stream = s
BY DEF Sync, Syncs

LEMMA KinematicTyped == \A factorize \in BOOLEAN : Kinematic(factorize) \in Seq(Ops)
<1> SUFFICES ASSUME NEW factorize \in BOOLEAN PROVE Kinematic(factorize) \in Seq(Ops)
  OBVIOUS
<1>1. /\ <<"camlight">> \in Seq(Ops) /\ <<"flex">> \in Seq(Ops) /\ <<>> \in Seq(Ops)
      /\ <<"tendon", "crb", "tendon_armature">> \in Seq(Ops) /\ <<"factor_m">> \in Seq(Ops)
  BY DEF Ops
<1> QED
  BY <1>1 DEF Kinematic

LEMMA PositionClosed ==
  ASSUME NEW forks \in BOOLEAN, NEW factorize \in BOOLEAN
  PROVE  /\ Position(forks, factorize) \in ClosedPrograms
         /\ ~ forks => Position(forks, factorize) \in Seq(Launches({"main"}))
<1>1. /\ Kinematic(factorize) \in Seq(Ops) /\ <<"collision">> \in Seq(Ops)
      /\ <<>> \in Seq(Ops) /\ Detection \in Seq(Ops)
  <2>1. <<"collision">> \in Seq(Ops) /\ <<>> \in Seq(Ops)
    BY DEF Ops
  <2>2. Detection = <<>> \/ Detection = <<"collision">>
    BY DEF Detection
  <2> QED
    BY <2>1, <2>2, KinematicTyped
<1>2. CASE ~ forks
  <2>1. Kinematic(factorize) \o Detection \in Seq(Ops)
    BY <1>1
  <2>2. Position(forks, factorize) = Launch("main", Kinematic(factorize) \o Detection)
    BY <1>2 DEF Position
  <2>3. Position(forks, factorize) \in Seq(Launches({"main"}))
    BY <2>1, <2>2, LaunchTyped
  <2> QED
    BY <2>3, MainClosed
<1>3. CASE forks
  <2> DEFINE A == Launch("collision", <<"collision">>)
             B == Launch("secondary", Kinematic(factorize))
             C == Sync("collision")
             D == Sync("secondary")
             S == {"collision", "secondary"}
  <2>1. Position(forks, factorize) = ((A \o B) \o C) \o D
    BY <1>3 DEF Position
  <2>2. A \in Seq(Launches({"collision"})) /\ B \in Seq(Launches({"secondary"}))
    BY <1>1, LaunchTyped
  <2>3. Launches({"collision"}) \subseteq Launches(S) /\ Launches({"secondary"}) \subseteq Launches(S)
    BY DEF Launches
  <2>4. A \o B \in Seq(Launches(S))
    <3> HIDE DEF A, B, S
    <3>1. A \in Seq(Launches(S)) /\ B \in Seq(Launches(S))
      BY <2>2, <2>3
    <3> QED
      BY <3>1
  <2>5. /\ C \in Seq(Syncs(SideStreams)) /\ D \in Seq(Syncs(SideStreams))
        /\ Len(C) = 1 /\ Len(D) = 1 /\ C[1].stream = "collision" /\ D[1].stream = "secondary"
    BY SyncTyped DEF SideStreams
  <2> HIDE DEF A, B, C, D
  <2>6. C \o D \in Seq(Syncs(SideStreams)) /\ Len(C \o D) = 2
        /\ (C \o D)[1] = C[1] /\ (C \o D)[2] = D[1]
    <3> DEFINE T == Syncs(SideStreams)
    <3> HIDE DEF T
    <3>1. C \in Seq(T) /\ D \in Seq(T)
      BY <2>5 DEF T
    <3>2. /\ C \o D \in Seq(T) /\ Len(C \o D) = Len(C) + Len(D)
          /\ \A i \in 1..Len(C) + Len(D) : (C \o D)[i] = IF i <= Len(C) THEN C[i] ELSE D[i - Len(C)]
      BY <3>1, ConcatProperties
    <3>3. (C \o D)[1] = C[1] /\ (C \o D)[2] = D[1]
      BY <2>5, <3>2
    <3> QED
      BY <2>5, <3>2, <3>3 DEF T
  <2>7. (A \o B) \o (C \o D) \in ClosedPrograms
    <3>1. \A s \in S : s # "main" => \E j \in 1..Len(C \o D) : (C \o D)[j].stream = s
      <4>1. 1 \in 1..Len(C \o D) /\ 2 \in 1..Len(C \o D)
        BY <2>6
      <4> QED
        BY <2>5, <2>6, <4>1
    <3>2. S \in SUBSET Streams
      BY DEF Streams
    <3> HIDE DEF S
    <3> QED
      BY <2>4, <2>6, <3>1, <3>2, JoinClosed
  <2>8. ((A \o B) \o C) \o D = (A \o B) \o (C \o D)
    <3>1. Launches(S) \subseteq Requests /\ Syncs(SideStreams) \subseteq Requests
      BY DEF Launches, Requests, Syncs, Streams
    <3>2. A \o B \in Seq(Requests) /\ C \in Seq(Requests) /\ D \in Seq(Requests)
      BY <2>4, <2>5, <3>1
    <3> DEFINE X == A \o B
    <3> HIDE DEF X
    <3>3. X \in Seq(Requests)
      BY <3>2 DEF X
    <3>4. (X \o C) \o D = X \o (C \o D)
      BY <3>2, <3>3, ConcatAssociative, SMTT(30)
    <3> QED
      BY <3>4 DEF X
  <2> QED
    BY <1>3, <2>1, <2>7, <2>8
<1> QED
  BY <1>2, <1>3

\* One iteration, request by request.
Main(op) == [do |-> "launch", stream |-> "main", op |-> op]
Beside == [do |-> "launch", stream |-> "cg", op |-> "prev_grad"]
Await == [do |-> "synchronize", stream |-> "cg", op |-> "none"]

RequestsOfIteration(streams) ==
  IF cg
  THEN IF streams
       THEN <<Main("linesearch"), Beside, Main("update_constraint"), Await,
              Main("update_gradient"), Main("update_search")>>
       ELSE <<Main("linesearch"), Main("prev_grad"), Main("update_constraint"),
              Main("update_gradient"), Main("update_search")>>
  ELSE <<Main("linesearch"), Main("update_constraint"), Main("update_gradient"), Main("update_search")>>

LEMMA Tuples ==
  ASSUME NEW S, NEW a \in S, NEW b \in S, NEW c \in S
  PROVE  /\ <<a>> \in Seq(S) /\ Len(<<a>>) = 1 /\ <<a>>[1] = a
         /\ <<a, b>> \in Seq(S) /\ Len(<<a, b>>) = 2 /\ <<a, b>>[1] = a /\ <<a, b>>[2] = b
         /\ <<a>> \o <<b>> = <<a, b>> /\ <<>> \o <<a>> = <<a>>
<1>1. <<a>> \in Seq(S) /\ <<b>> \in Seq(S) /\ <<a, b>> \in Seq(S)
      /\ Len(<<a>>) = 1 /\ Len(<<b>>) = 1 /\ Len(<<a, b>>) = 2
      /\ <<a>>[1] = a /\ <<b>>[1] = b /\ <<a, b>>[1] = a /\ <<a, b>>[2] = b
  OBVIOUS
<1>2. /\ <<a>> \o <<b>> \in Seq(S) /\ Len(<<a>> \o <<b>>) = 2
      /\ \A i \in 1..2 : (<<a>> \o <<b>>)[i] = IF i <= 1 THEN <<a>>[i] ELSE <<b>>[i - 1]
  BY <1>1, ConcatProperties
<1>3. \A i \in 1..2 : (<<a>> \o <<b>>)[i] = <<a, b>>[i]
  BY <1>1, <1>2
<1>4. <<a>> \o <<b>> = <<a, b>>
  BY <1>1, <1>2, <1>3, SeqEqual
<1> QED
  BY <1>1, <1>4, ConcatEmptySeq

LEMMA StringTuples ==
  /\ <<>> \o <<"update_constraint">> = <<"update_constraint">>
  /\ <<"prev_grad">> \o <<"update_constraint">> = <<"prev_grad", "update_constraint">>
<1>1. "prev_grad" \in Ops /\ "update_constraint" \in Ops
  BY DEF Ops
<1> HIDE DEF Ops
<1> QED
  BY <1>1, Tuples

LEMMA LaunchOne ==
  ASSUME NEW s, NEW a, NEW b
  PROVE  /\ Launch(s, <<a>>) = <<[do |-> "launch", stream |-> s, op |-> a]>>
         /\ Launch(s, <<a, b>>) = <<[do |-> "launch", stream |-> s, op |-> a],
                                    [do |-> "launch", stream |-> s, op |-> b]>>
BY DEF Launch

\* The sequences that an iteration is made of: the last has two elements, the
\* others have one, except that prev_grad and update_constraint may be one.
Five(A, B, C, D, E) == (A \o ((B \o C) \o D)) \o E
Three(A, B, C) == (A \o B) \o C

LEMMA JoinFive ==
  ASSUME NEW S, NEW A \in Seq(S), NEW B \in Seq(S), NEW C \in Seq(S), NEW D \in Seq(S), NEW E \in Seq(S),
         Len(A) = 1, Len(B) = 1, Len(C) = 1, Len(D) = 1, Len(E) = 2
  PROVE  LET q == Five(A, B, C, D, E)
         IN /\ q \in Seq(S) /\ Len(q) = 6
            /\ q[1] = A[1] /\ q[2] = B[1] /\ q[3] = C[1] /\ q[4] = D[1] /\ q[5] = E[1] /\ q[6] = E[2]
<1> DEFINE q == Five(A, B, C, D, E)
           w == B \o C
           x == w \o D
           y == A \o x
<1>1. w \in Seq(S) /\ Len(w) = 2 /\ w[1] = B[1] /\ w[2] = C[1]
  <2>1. /\ w \in Seq(S) /\ Len(w) = Len(B) + Len(C)
        /\ \A i \in 1..Len(B) + Len(C) : w[i] = IF i <= Len(B) THEN B[i] ELSE C[i - Len(B)]
    BY ConcatProperties
  <2> HIDE DEF w
  <2> QED
    BY <2>1
<1>2. x \in Seq(S) /\ Len(x) = 3 /\ x[1] = B[1] /\ x[2] = C[1] /\ x[3] = D[1]
  <2>1. /\ x \in Seq(S) /\ Len(x) = Len(w) + Len(D)
        /\ \A i \in 1..Len(w) + Len(D) : x[i] = IF i <= Len(w) THEN w[i] ELSE D[i - Len(w)]
    BY <1>1, ConcatProperties
  <2> HIDE DEF w, x
  <2> QED
    BY <1>1, <2>1
<1>3. y \in Seq(S) /\ Len(y) = 4 /\ y[1] = A[1] /\ y[2] = B[1] /\ y[3] = C[1] /\ y[4] = D[1]
  <2>1. /\ y \in Seq(S) /\ Len(y) = Len(A) + Len(x)
        /\ \A i \in 1..Len(A) + Len(x) : y[i] = IF i <= Len(A) THEN A[i] ELSE x[i - Len(A)]
    BY <1>2, ConcatProperties
  <2> HIDE DEF x, y
  <2> QED
    BY <1>2, <2>1
<1>4. /\ q \in Seq(S) /\ Len(q) = Len(y) + Len(E)
      /\ \A i \in 1..Len(y) + Len(E) : q[i] = IF i <= Len(y) THEN y[i] ELSE E[i - Len(y)]
  BY <1>3, ConcatProperties DEF Five
<1> HIDE DEF y, q
<1>5. /\ q \in Seq(S) /\ Len(q) = 6
      /\ q[1] = A[1] /\ q[2] = B[1] /\ q[3] = C[1] /\ q[4] = D[1] /\ q[5] = E[1] /\ q[6] = E[2]
  BY <1>3, <1>4
<1> QED
  BY <1>5 DEF q

LEMMA JoinFour ==
  ASSUME NEW S, NEW A \in Seq(S), NEW B \in Seq(S), NEW E \in Seq(S),
         Len(A) = 1, Len(B) = 1, Len(E) = 2
  PROVE  LET q == Three(A, B, E)
         IN /\ q \in Seq(S) /\ Len(q) = 4
            /\ q[1] = A[1] /\ q[2] = B[1] /\ q[3] = E[1] /\ q[4] = E[2]
<1> DEFINE q == Three(A, B, E)
           y == A \o B
<1>1. y \in Seq(S) /\ Len(y) = 2 /\ y[1] = A[1] /\ y[2] = B[1]
  <2>1. /\ y \in Seq(S) /\ Len(y) = Len(A) + Len(B)
        /\ \A i \in 1..Len(A) + Len(B) : y[i] = IF i <= Len(A) THEN A[i] ELSE B[i - Len(A)]
    BY ConcatProperties
  <2> HIDE DEF y
  <2> QED
    BY <2>1
<1>2. /\ q \in Seq(S) /\ Len(q) = Len(y) + Len(E)
      /\ \A i \in 1..Len(y) + Len(E) : q[i] = IF i <= Len(y) THEN y[i] ELSE E[i - Len(y)]
  BY <1>1, ConcatProperties DEF Three
<1> HIDE DEF y, q
<1>3. /\ q \in Seq(S) /\ Len(q) = 4
      /\ q[1] = A[1] /\ q[2] = B[1] /\ q[3] = E[1] /\ q[4] = E[2]
  BY <1>1, <1>2
<1> QED
  BY <1>3 DEF q

LEMMA JoinWithTwo ==
  ASSUME NEW S, NEW A \in Seq(S), NEW B \in Seq(S), NEW E \in Seq(S),
         Len(A) = 1, Len(B) = 2, Len(E) = 2
  PROVE  LET q == Three(A, B, E)
         IN /\ q \in Seq(S) /\ Len(q) = 5
            /\ q[1] = A[1] /\ q[2] = B[1] /\ q[3] = B[2] /\ q[4] = E[1] /\ q[5] = E[2]
<1> DEFINE q == Three(A, B, E)
           y == A \o B
<1>1. y \in Seq(S) /\ Len(y) = 3 /\ y[1] = A[1] /\ y[2] = B[1] /\ y[3] = B[2]
  <2>1. /\ y \in Seq(S) /\ Len(y) = Len(A) + Len(B)
        /\ \A i \in 1..Len(A) + Len(B) : y[i] = IF i <= Len(A) THEN A[i] ELSE B[i - Len(A)]
    BY ConcatProperties
  <2> HIDE DEF y
  <2> QED
    BY <2>1
<1>2. /\ q \in Seq(S) /\ Len(q) = Len(y) + Len(E)
      /\ \A i \in 1..Len(y) + Len(E) : q[i] = IF i <= Len(y) THEN y[i] ELSE E[i - Len(y)]
  BY <1>1, ConcatProperties DEF Three
<1> HIDE DEF y, q
<1>3. /\ q \in Seq(S) /\ Len(q) = 5
      /\ q[1] = A[1] /\ q[2] = B[1] /\ q[3] = B[2] /\ q[4] = E[1] /\ q[5] = E[2]
  BY <1>1, <1>2
<1> QED
  BY <1>3 DEF q

LEMMA IterationAt ==
  ASSUME NEW streams \in BOOLEAN, cg \in BOOLEAN
  PROVE  /\ Iteration(streams) \in Seq(Requests)
         /\ Len(Iteration(streams)) = Len(RequestsOfIteration(streams))
         /\ \A i \in 1..Len(Iteration(streams)) : Iteration(streams)[i] = RequestsOfIteration(streams)[i]
<1> DEFINE A == Launch("main", <<"linesearch">>)
           D == Launch("main", <<"update_gradient", "update_search">>)
           P == Launch("cg", <<"prev_grad">>)
           U == Launch("main", <<"update_constraint">>)
           Y == Sync("cg")
           PU == Launch("main", <<"prev_grad">> \o <<"update_constraint">>)
           N == Launch("main", <<>> \o <<"update_constraint">>)
<1>1. /\ A = <<Main("linesearch")>> /\ D = <<Main("update_gradient"), Main("update_search")>>
      /\ P = <<Beside>> /\ U = <<Main("update_constraint")>>
  BY LaunchOne DEF Main, Beside
<1>2. N = <<Main("update_constraint")>> /\ PU = <<Main("prev_grad"), Main("update_constraint")>>
  <2>1. /\ N = Launch("main", <<"update_constraint">>)
        /\ PU = Launch("main", <<"prev_grad", "update_constraint">>)
    BY StringTuples
  <2> HIDE DEF N, PU
  <2> QED
    BY <2>1, LaunchOne DEF Main
<1>3. Y = <<Await>>
  BY DEF Sync, Await
<1>4. Iteration(streams) = (A \o (IF cg /\ streams THEN (P \o U) \o Y ELSE IF cg THEN PU ELSE N)) \o D
  BY DEF Iteration
<1>5. /\ Main("linesearch") \in Requests /\ Main("prev_grad") \in Requests
      /\ Main("update_constraint") \in Requests /\ Main("update_gradient") \in Requests
      /\ Main("update_search") \in Requests /\ Beside \in Requests /\ Await \in Requests
  BY DEF Main, Beside, Await, Requests, Launches, Syncs, Streams, SideStreams, Ops
<1>6. /\ A \in Seq(Requests) /\ Len(A) = 1 /\ A[1] = Main("linesearch")
      /\ D \in Seq(Requests) /\ Len(D) = 2 /\ D[1] = Main("update_gradient") /\ D[2] = Main("update_search")
      /\ P \in Seq(Requests) /\ Len(P) = 1 /\ P[1] = Beside
      /\ U \in Seq(Requests) /\ Len(U) = 1 /\ U[1] = Main("update_constraint")
      /\ Y \in Seq(Requests) /\ Len(Y) = 1 /\ Y[1] = Await
      /\ N \in Seq(Requests) /\ Len(N) = 1 /\ N[1] = Main("update_constraint")
      /\ PU \in Seq(Requests) /\ Len(PU) = 2 /\ PU[1] = Main("prev_grad") /\ PU[2] = Main("update_constraint")
  <2> HIDE DEF A, D, P, U, Y, PU, N
  <2> QED
    BY <1>1, <1>2, <1>3, <1>5
<1> HIDE DEF A, D, P, U, Y, PU, N
<1>7. CASE cg /\ streams
  <2> DEFINE q == Five(A, P, U, Y, D)
  <2>1. Iteration(streams) = q
    BY <1>4, <1>7 DEF Five
  <2>2. /\ q \in Seq(Requests) /\ Len(q) = 6
        /\ q[1] = A[1] /\ q[2] = P[1] /\ q[3] = U[1] /\ q[4] = Y[1] /\ q[5] = D[1] /\ q[6] = D[2]
    BY <1>6, JoinFive
  <2> HIDE DEF q
  <2>3. RequestsOfIteration(streams) =
          <<Main("linesearch"), Beside, Main("update_constraint"), Await,
            Main("update_gradient"), Main("update_search")>>
    BY <1>7 DEF RequestsOfIteration
  <2> QED
    BY <1>6, <2>1, <2>2, <2>3
<1>8. CASE cg /\ ~ streams
  <2> DEFINE q == Three(A, PU, D)
  <2>1. Iteration(streams) = q
    BY <1>4, <1>8 DEF Three
  <2>2. /\ q \in Seq(Requests) /\ Len(q) = 5
        /\ q[1] = A[1] /\ q[2] = PU[1] /\ q[3] = PU[2] /\ q[4] = D[1] /\ q[5] = D[2]
    BY <1>6, JoinWithTwo
  <2> HIDE DEF q
  <2> QED
    BY <1>6, <1>8, <2>1, <2>2 DEF RequestsOfIteration
<1>9. CASE ~ cg
  <2> DEFINE q == Three(A, N, D)
  <2>1. Iteration(streams) = q
    BY <1>4, <1>9 DEF Three
  <2>2. /\ q \in Seq(Requests) /\ Len(q) = 4
        /\ q[1] = A[1] /\ q[2] = N[1] /\ q[3] = D[1] /\ q[4] = D[2]
    BY <1>6, JoinFour
  <2> HIDE DEF q
  <2> QED
    BY <1>6, <1>9, <2>1, <2>2 DEF RequestsOfIteration
<1> QED
  BY <1>7, <1>8, <1>9

IterationSize(streams) == IF cg THEN (IF streams THEN 6 ELSE 5) ELSE 4

\* The solve is the iteration's requests, over and over.
LEMMA SolveAt ==
  ASSUME NEW streams \in BOOLEAN, cg \in BOOLEAN
  PROVE  LET n == IterationSize(streams)
         IN /\ Solve(streams) \in Seq(Requests) /\ Len(Solve(streams)) = n * Iterations
            /\ \A k \in 0..Iterations - 1 : \A r \in 1..n :
                 /\ n * k + r \in 1..n * Iterations
                 /\ Solve(streams)[n * k + r] = RequestsOfIteration(streams)[r]
            /\ \A i \in 1..n * Iterations : \E k \in 0..Iterations - 1 : \E r \in 1..n : i = n * k + r
<1> DEFINE n == IterationSize(streams)
           once == Iteration(streams)
<1>1. /\ once \in Seq(Requests) /\ Len(once) = n
      /\ \A r \in 1..n : once[r] = RequestsOfIteration(streams)[r]
  BY IterationAt DEF RequestsOfIteration, IterationSize
<1>2. Solve(streams) = [i \in 1..Iterations * n |-> once[((i - 1) % n) + 1]]
  BY <1>1 DEF Solve
<1>3. n \in {4, 5, 6} /\ Iterations \in Nat
  BY BoundsAssumption DEF IterationSize
<1> HIDE DEF n, once
<1>4. ASSUME NEW m \in {4, 5, 6}, n = m
      PROVE  /\ Solve(streams) \in Seq(Requests) /\ Len(Solve(streams)) = m * Iterations
             /\ \A k \in 0..Iterations - 1 : \A r \in 1..m :
                  /\ m * k + r \in 1..m * Iterations
                  /\ Solve(streams)[m * k + r] = RequestsOfIteration(streams)[r]
             /\ \A i \in 1..m * Iterations : \E k \in 0..Iterations - 1 : \E r \in 1..m : i = m * k + r
  <2> DEFINE total == m * Iterations
  <2>1. total \in Nat /\ Iterations * n = total
    <3>1. CASE m = 4
      BY <1>3, <1>4, <3>1
    <3>2. CASE m = 5
      BY <1>3, <1>4, <3>2
    <3>3. CASE m = 6
      BY <1>3, <1>4, <3>3
    <3> QED
      BY <3>1, <3>2, <3>3
  <2>2. ASSUME NEW i \in 1..total
        PROVE  /\ ((i - 1) % m) \in 0..m - 1 /\ ((i - 1) \div m) \in 0..Iterations - 1
               /\ i = m * ((i - 1) \div m) + ((i - 1) % m) + 1
    <3>1. CASE m = 4
      BY <1>3, <3>1
    <3>2. CASE m = 5
      BY <1>3, <3>2
    <3>3. CASE m = 6
      BY <1>3, <3>3
    <3> QED
      BY <3>1, <3>2, <3>3
  <2>3. ASSUME NEW k \in 0..Iterations - 1, NEW r \in 1..m
        PROVE  m * k + r \in 1..total /\ (m * k + r - 1) % m = r - 1
    <3>1. CASE m = 4
      BY <1>3, <3>1
    <3>2. CASE m = 5
      BY <1>3, <3>2
    <3>3. CASE m = 6
      BY <1>3, <3>3
    <3> QED
      BY <3>1, <3>2, <3>3
  <2> HIDE DEF total
  <2>4. Solve(streams) = [i \in 1..total |-> once[((i - 1) % m) + 1]]
    BY <1>2, <1>4, <2>1
  <2>5. \A i \in 1..total : once[((i - 1) % m) + 1] \in Requests
    <3> TAKE i \in 1..total
    <3>1. ((i - 1) % m) + 1 \in 1..Len(once)
      BY <1>1, <1>4, <2>2
    <3> QED
      BY <1>1, <3>1
  <2>6. Solve(streams) \in Seq(Requests) /\ Len(Solve(streams)) = total
    BY <2>1, <2>4, <2>5
  <2>7. ASSUME NEW k \in 0..Iterations - 1, NEW r \in 1..m
        PROVE  Solve(streams)[m * k + r] = RequestsOfIteration(streams)[r]
    <3>1. Solve(streams)[m * k + r] = once[(r - 1) + 1]
      BY <2>3, <2>4
    <3>2. (r - 1) + 1 = r
      OBVIOUS
    <3> QED
      BY <1>1, <1>4, <3>1, <3>2
  <2>8. ASSUME NEW i \in 1..total PROVE \E k \in 0..Iterations - 1 : \E r \in 1..m : i = m * k + r
    <3> DEFINE k == (i - 1) \div m
               r == (i - 1) % m
    <3>1. r \in 0..m - 1 /\ k \in 0..Iterations - 1 /\ i = m * k + r + 1
      BY <2>2
    <3> HIDE DEF k, r
    <3>2. r + 1 \in 1..m /\ i = m * k + (r + 1)
      BY <1>3, <3>1
    <3> QED
      BY <3>1, <3>2
  <2> QED
    BY <2>3, <2>6, <2>7, <2>8 DEF total
<1> QED
  BY <1>3, <1>4 DEF n

\* prev_grad is waited for before the iteration computes its gradient.
LEMMA SolveClosed ==
  ASSUME NEW streams \in BOOLEAN, cg \in BOOLEAN
  PROVE  /\ Solve(streams) \in ClosedPrograms
         /\ ~ (cg /\ streams) => Solve(streams) \in Seq(Launches({"main"}))
<1> DEFINE n == IterationSize(streams)
           q == Solve(streams)
<1>1. /\ q \in Seq(Requests) /\ Len(q) = n * Iterations
      /\ \A k \in 0..Iterations - 1 : \A r \in 1..n :
           n * k + r \in 1..n * Iterations /\ q[n * k + r] = RequestsOfIteration(streams)[r]
      /\ \A i \in 1..n * Iterations : \E k \in 0..Iterations - 1 : \E r \in 1..n : i = n * k + r
  BY SolveAt
<1>2. CASE ~ (cg /\ streams)
  <2>1. \A r \in 1..n : RequestsOfIteration(streams)[r] \in Launches({"main"})
    BY <1>2 DEF IterationSize, RequestsOfIteration, Main, Launches, Ops
  <2> HIDE DEF n, q
  <2>2. \A i \in 1..Len(q) : q[i] \in Launches({"main"})
    <3> TAKE i \in 1..Len(q)
    <3>1. PICK k \in 0..Iterations - 1, r \in 1..n : i = n * k + r
      BY <1>1
    <3>2. q[i] = RequestsOfIteration(streams)[r]
      BY <1>1, <3>1
    <3> QED
      BY <2>1, <3>2
  <2>3. q \in Seq(Launches({"main"}))
    <3>1. q \in [1..Len(q) -> Launches({"main"})] /\ Len(q) \in Nat
      BY <1>1, <2>2
    <3> QED
      BY <3>1
  <2> QED
    BY <2>3, MainClosed DEF q
<1>3. CASE cg /\ streams
  <2>1. n = 6
    BY <1>3 DEF IterationSize
  <2>2. \A r \in 1..6 : /\ RequestsOfIteration(streams)[r].stream # "main"
                            /\ RequestsOfIteration(streams)[r].do = "launch" => r = 2
                       /\ Synchronizes(RequestsOfIteration(streams)[4], RequestsOfIteration(streams)[2].stream)
    BY <1>3 DEF RequestsOfIteration, Main, Beside, Await, Synchronizes
  <2> DEFINE total == 6 * Iterations
  <2>3. /\ q \in Seq(Requests) /\ Len(q) = total /\ total \in Nat
        /\ \A k \in 0..Iterations - 1 : \A r \in 1..6 :
             6 * k + r \in 1..total /\ q[6 * k + r] = RequestsOfIteration(streams)[r]
        /\ \A i \in 1..total : \E k \in 0..Iterations - 1 : \E r \in 1..6 : i = 6 * k + r
    BY <1>1, <2>1, BoundsAssumption
  <2> HIDE DEF n, q, total
  <2>4. ASSUME NEW i \in 1..total, q[i].do = "launch", q[i].stream # "main"
        PROVE  \E j \in i + 1..total : Synchronizes(q[j], q[i].stream)
    <3>1. PICK k \in 0..Iterations - 1, r \in 1..6 : i = 6 * k + r
      BY <2>3
    <3>2. r = 2
      <4>1. q[i] = RequestsOfIteration(streams)[r]
        BY <2>3, <3>1
      <4> QED
        BY <2>2, <2>4, <4>1
    <3> DEFINE j == 6 * k + 4
    <3>3. j \in 1..total /\ i + 1 <= j
      BY <2>3, <3>1, <3>2
    <3>4. q[j] = RequestsOfIteration(streams)[4] /\ q[i] = RequestsOfIteration(streams)[2]
      BY <2>3, <3>1, <3>2
    <3>5. j \in i + 1..total
      BY <2>3, <3>3
    <3> HIDE DEF j
    <3> QED
      BY <2>2, <3>4, <3>5
  <2> QED
    BY <1>3, <2>3, <2>4 DEF ClosedPrograms, Closed, q
<1> QED
  BY <1>2, <1>3

LEMMA MainLaunches ==
  /\ Launch("main", <<"kinematics", "com_pos">>) \in Seq(Launches({"main"}))
  /\ Launch("main", <<"kinematics", "com_pos">>) # <<>>
  /\ Launch("main", <<"make_constraint", "transmission">>) \in Seq(Launches({"main"}))
  /\ Launch("main", <<"dynamics", "init_solve">>) \in Seq(Launches({"main"}))
  /\ Launch("main", <<"integrate">>) \in Seq(Launches({"main"}))
<1>1. /\ <<"kinematics", "com_pos">> \in Seq(Ops) /\ <<"make_constraint", "transmission">> \in Seq(Ops)
      /\ <<"dynamics", "init_solve">> \in Seq(Ops) /\ <<"integrate">> \in Seq(Ops)
  BY DEF Ops
<1>2. Launch("main", <<"kinematics", "com_pos">>) # <<>>
  <2>1. Len(<<"kinematics", "com_pos">>) = 2
    OBVIOUS
  <2>2. Len(Launch("main", <<"kinematics", "com_pos">>)) = 2
    BY <1>1, <2>1, LaunchTyped
  <2> QED
    BY <2>2
<1> QED
  BY <1>1, <1>2, LaunchTyped

LEMMA ConcatMain ==
  ASSUME NEW S, NEW q \in Seq(S), NEW r \in Seq(S)
  PROVE  q \o r \in Seq(S)
BY ConcatProperties

LEMMA NotEmpty ==
  ASSUME NEW S, NEW q \in Seq(S), NEW r \in Seq(S), q # <<>>
  PROVE  q \o r \in Seq(S) /\ q \o r # <<>>
BY ConcatProperties

LEMMA FwdPositionClosed ==
  ASSUME NEW forks \in BOOLEAN, NEW factorize \in BOOLEAN
  PROVE  /\ FwdPosition(forks, factorize) \in ClosedPrograms
         /\ ~ forks => FwdPosition(forks, factorize) \in Seq(Launches({"main"}))
         /\ FwdPosition(forks, factorize) # <<>>
<1> DEFINE A == Launch("main", <<"kinematics", "com_pos">>)
           B == Position(forks, factorize)
           C == Launch("main", <<"make_constraint", "transmission">>)
           M == Seq(Launches({"main"}))
<1>1. A \in M /\ A # <<>> /\ C \in M /\ M \subseteq ClosedPrograms /\ ClosedPrograms \subseteq Seq(Requests)
  BY MainLaunches, MainClosed DEF ClosedPrograms
<1>2. B \in ClosedPrograms /\ (~ forks => B \in M)
  BY PositionClosed
<1>3. FwdPosition(forks, factorize) = (A \o B) \o C
  BY DEF FwdPosition
<1> HIDE DEF A, B, C, M
<1>4. A \in ClosedPrograms /\ C \in ClosedPrograms
  BY <1>1
<1>5. A \o B \in ClosedPrograms /\ (A \o B) \o C \in ClosedPrograms
  BY <1>2, <1>4, ConcatClosed
<1>6. A \o B # <<>> /\ (A \o B) \o C # <<>>
  <2>1. A \in Seq(Requests) /\ B \in Seq(Requests) /\ C \in Seq(Requests) /\ A \o B \in Seq(Requests)
    BY <1>1, <1>2, <1>4, <1>5
  <2> QED
    BY <1>1, <2>1, NotEmpty
<1>7. ~ forks => (A \o B) \o C \in M
  BY <1>1, <1>2, ConcatMain DEF M
<1> QED
  BY <1>3, <1>5, <1>6, <1>7 DEF M

\* A call waits for what it gives to other streams, and without a fork and
\* without a CG solve on a stream it gives them nothing.
LEMMA ProgramClosed ==
  ASSUME Switches, NEW how
  PROVE  /\ Program(how) \in ClosedPrograms /\ Program(how) # <<>>
         /\ ~ Forks(how) /\ ~ (cg /\ HasStreams(how)) => Program(how) \in Seq(Launches({"main"}))
<1> DEFINE forks == Forks(how)
           streams == HasStreams(how)
           M == Seq(Launches({"main"}))
           P == FwdPosition(forks, FALSE)
           Q == Launch("main", <<"dynamics", "init_solve">>)
           R == Solve(streams)
           T == Launch("main", <<"integrate">>)
<1>1. forks \in BOOLEAN /\ streams \in BOOLEAN /\ cg \in BOOLEAN
  BY DEF Switches, Forks, HasStreams
<1> HIDE DEF forks, streams
<1>2. CASE how = "position"
  <2>1. Program(how) = FwdPosition(forks, TRUE)
    BY <1>2 DEF Program, Operations, forks
  <2> QED
    BY <1>1, <2>1, FwdPositionClosed DEF forks
<1>3. CASE how # "position"
  <2>1. Program(how) = ((P \o Q) \o R) \o T
    BY <1>3 DEF Program, Operations, forks, streams
  <2>2. /\ P \in ClosedPrograms /\ P # <<>> /\ (~ forks => P \in M)
        /\ Q \in M /\ T \in M /\ R \in ClosedPrograms /\ (~ (cg /\ streams) => R \in M)
    BY <1>1, FwdPositionClosed, SolveClosed, MainLaunches
  <2>3. M \subseteq ClosedPrograms /\ ClosedPrograms \subseteq Seq(Requests)
    BY MainClosed DEF ClosedPrograms
  <2> HIDE DEF P, Q, R, T, M
  <2>4. P \in ClosedPrograms /\ Q \in ClosedPrograms /\ R \in ClosedPrograms /\ T \in ClosedPrograms
    BY <2>2, <2>3
  <2>5. /\ P \o Q \in ClosedPrograms /\ (P \o Q) \o R \in ClosedPrograms
        /\ ((P \o Q) \o R) \o T \in ClosedPrograms
    BY <2>4, ConcatClosed
  <2>6. P \o Q # <<>> /\ (P \o Q) \o R # <<>> /\ ((P \o Q) \o R) \o T # <<>>
    <3>1. /\ P \in Seq(Requests) /\ Q \in Seq(Requests) /\ R \in Seq(Requests) /\ T \in Seq(Requests)
          /\ P \o Q \in Seq(Requests) /\ (P \o Q) \o R \in Seq(Requests)
      BY <2>3, <2>4, <2>5
    <3> QED
      BY <2>2, <3>1, NotEmpty
  <2>7. ~ forks /\ ~ (cg /\ streams) => ((P \o Q) \o R) \o T \in M
    BY <2>2, ConcatMain DEF M
  <2> QED
    BY <2>1, <2>5, <2>6, <2>7 DEF M, forks, streams
<1> QED
  BY <1>2, <1>3

-----------------------------------------------------------------------------
(* Programs, and what they read and write.                                 *)

LEMMA SamePrograms ==
  ASSUME UNCHANGED config
  PROVE  /\ \A how \in Modes : Program(how)' = Program(how)
         /\ UNCHANGED mode => Program(mode)' = Program(mode)
         /\ Items' = Items /\ Astray' = Astray /\ (Switches => Switches')
         /\ \A op \in Ops : Reads(op)' = Reads(op)
<1>1. UNCHANGED <<created, has_flex, cg, detects, graph_mode, single_stream>>
  BY DEF config
<1>2. \A how \in Modes : Program(how)' = Program(how)
  BY <1>1 DEF Program, Operations, Forks, HasStreams, FwdPosition, Position, Kinematic, Detection,
              Launch, Sync, Solve, Iteration
<1>3. UNCHANGED mode => Program(mode)' = Program(mode)
  BY <1>1 DEF Program, Operations, Forks, HasStreams, FwdPosition, Position, Kinematic, Detection,
              Launch, Sync, Solve, Iteration
<1>4. \A op : Reads(op)' = Reads(op)
  BY <1>1 DEF Reads
<1>5. Items' = Items
  BY <1>4 DEF Items
<1>6. Astray' = Astray
  BY <1>4 DEF Astray
<1>7. Switches => Switches'
  BY <1>1 DEF Switches
<1> QED
  BY <1>2, <1>3, <1>4, <1>5, <1>6, <1>7

LEMMA TypedPrograms ==
  ASSUME TypesOK
  PROVE  /\ Switches /\ Program(mode) \in ClosedPrograms /\ Program(mode) \in Seq(Requests)
         /\ Len(Program(mode)) \in Nat \ {0} /\ pc \in Nat
         /\ pc > 0 => Current \in Requests /\ pc \in 1..Len(Program(mode))
         /\ \A how \in Modes : 1 \in 0..Len(Program(how))
<1>1. Switches
  BY DEF TypesOK, Switches
<1>2. \A how : Program(how) \in ClosedPrograms /\ Program(how) # <<>>
  BY <1>1, ProgramClosed
<1>3. \A how : Program(how) \in Seq(Requests) /\ Len(Program(how)) \in Nat \ {0}
  BY <1>2 DEF ClosedPrograms
<1>4. pc \in 0..Len(Program(mode))
  BY DEF TypesOK
<1> QED
  BY <1>1, <1>2, <1>3, <1>4 DEF Current

LEMMA ArraysOf == \A op \in Ops : Reads(op) \subseteq Arrays /\ Writes(op) \subseteq Arrays
BY DEF Ops, Reads, Writes, Arrays

\* Advancing past a request that is no synchronisation with s, or that is not
\* the last, keeps the synchronisation with s ahead.
LEMMA AheadStep ==
  ASSUME TypesOK, pc > 0, UNCHANGED config, UNCHANGED mode, Advance, NEW s,
         NEW j \in pc + 1..Len(Program(mode)), Synchronizes(Program(mode)[j], s)
  PROVE  /\ pc' > 0
         /\ \E k \in pc'..Len(Program(mode)') : Synchronizes(Program(mode)'[k], s)
<1>1. /\ Len(Program(mode)) \in Nat /\ pc \in 1..Len(Program(mode)) /\ pc \in Nat
      /\ Program(mode)' = Program(mode)
  BY TypedPrograms, SamePrograms
<1>2. pc' = pc + 1 /\ j \in pc'..Len(Program(mode))
  BY <1>1 DEF Advance
<1> QED
  BY <1>1, <1>2

LEMMA AdvanceTypes ==
  ASSUME TypesOK, pc > 0, UNCHANGED config, UNCHANGED mode, Advance
  PROVE  pc' \in 0..Len(Program(mode)') /\ Program(mode)' = Program(mode)
BY TypedPrograms, SamePrograms DEF Advance

\* What is counted is finite.
LEMMA CountTypes ==
  /\ \A n \in Nat : \A S \in SUBSET (1..n) : Cardinality(S) \in Nat
  /\ \A seq, op, n, a : Len(seq) \in Nat => WritesBefore(seq, op, n, a) \in Nat
<1>1. ASSUME NEW n \in Nat, NEW S \in SUBSET (1..n) PROVE Cardinality(S) \in Nat
  <2>1. IsFiniteSet(1..n)
    BY FS_Interval
  <2>2. IsFiniteSet(S)
    BY <2>1, FS_Subset
  <2> QED
    BY <2>2, FS_CardinalityType
<1>2. ASSUME NEW seq, NEW op, NEW n, NEW a, Len(seq) \in Nat PROVE WritesBefore(seq, op, n, a) \in Nat
  <2>1. {j \in 1..Len(seq) : a \in Writes(seq[j].op) /\ Cardinality({i \in 1..j : seq[i].op = op}) < n}
          \in SUBSET (1..Len(seq))
    OBVIOUS
  <2> QED
    BY <1>1, <1>2, <2>1 DEF WritesBefore
<1> QED
  BY <1>1, <1>2

LEMMA SequentialClosed ==
  ASSUME Switches, NEW how
  PROVE  Sequential(how) \in Seq(Launches({"main"})) /\ Len(Sequential(how)) \in Nat
<1> DEFINE M == Seq(Launches({"main"}))
           P == FwdPosition(FALSE, FALSE)
           Q == Launch("main", <<"dynamics", "init_solve">>)
           R == Solve(FALSE)
           T == Launch("main", <<"integrate">>)
<1>1. CASE how = "position"
  <2>1. Sequential(how) = FwdPosition(FALSE, TRUE)
    BY <1>1 DEF Sequential, Operations
  <2>2. FwdPosition(FALSE, TRUE) \in M
    BY FwdPositionClosed
  <2>3. Sequential(how) \in M
    BY <2>1, <2>2
  <2> HIDE DEF Sequential
  <2> QED
    BY <2>3
<1>2. CASE how # "position"
  <2>1. Sequential(how) = ((P \o Q) \o R) \o T
    BY <1>2 DEF Sequential, Operations
  <2>2. P \in M /\ Q \in M /\ T \in M /\ R \in M
    BY FwdPositionClosed, SolveClosed, MainLaunches DEF Switches
  <2> HIDE DEF P, Q, R, T
  <2>3. ((P \o Q) \o R) \o T \in M
    BY <2>2, ConcatMain
  <2> QED
    BY <2>1, <2>3
<1> QED
  BY <1>1, <1>2

-----------------------------------------------------------------------------
(* Counting places.                                                        *)

LEMMA PlacesFinite ==
  ASSUME NEW n \in Nat, NEW T \in SUBSET (1..n)
  PROVE  IsFiniteSet(T) /\ Cardinality(T) \in Nat
<1>1. 1 \in Int /\ n \in Int
  OBVIOUS
<1>2. IsFiniteSet(1..n)
  BY <1>1, FS_Interval
<1>3. IsFiniteSet(T)
  BY <1>2, FS_Subset
<1> QED
  BY <1>3, FS_CardinalityType

Shift(m, T) == {m + t : t \in T}

\* Places of the first and of the second part of a concatenation.
Both(m, S, T) == S \cup Shift(m, T)

LEMMA ShiftCount ==
  ASSUME NEW m \in Nat, NEW n \in Nat, NEW T \in SUBSET (1..n)
  PROVE  /\ IsFiniteSet(Shift(m, T)) /\ Cardinality(Shift(m, T)) = Cardinality(T)
<1>1. IsFiniteSet(T)
  BY PlacesFinite
<1> DEFINE f == [t \in T |-> m + t]
<1>2. f \in Bijection(T, Shift(m, T))
  <2>1. f \in [T -> Shift(m, T)]
    BY DEF Shift
  <2>2. \A x, y \in T : f[x] = f[y] => x = y
    OBVIOUS
  <2>3. \A y \in Shift(m, T) : \E x \in T : f[x] = y
    BY DEF Shift
  <2> HIDE DEF f
  <2> QED
    BY <2>1, <2>2, <2>3 DEF Bijection, Injection, Surjection, IsInjective
<1>3. ExistsBijection(T, Shift(m, T))
  BY <1>2 DEF ExistsBijection
<1> QED
  BY <1>1, <1>3, FS_Bijection

\* The places of a concatenation are counted part by part.
LEMMA JoinCount ==
  ASSUME NEW m \in Nat, NEW n \in Nat, NEW S \in SUBSET (1..m), NEW T \in SUBSET (1..n)
  PROVE  Cardinality(Both(m, S, T)) = Cardinality(S) + Cardinality(T)
<1>1. IsFiniteSet(S) /\ Cardinality(S) \in Nat
  BY PlacesFinite
<1>2. IsFiniteSet(Shift(m, T)) /\ Cardinality(Shift(m, T)) = Cardinality(T) /\ Cardinality(T) \in Nat
  BY ShiftCount, PlacesFinite
<1>3. S \cap Shift(m, T) = {}
  BY DEF Shift
<1>4. Cardinality(Both(m, S, T)) =
        Cardinality(S) + Cardinality(Shift(m, T)) - Cardinality(S \cap Shift(m, T))
  BY <1>1, <1>2, FS_Union DEF Both
<1>5. Cardinality(S \cap Shift(m, T)) = 0
  BY <1>3, FS_EmptySet
<1> QED
  BY <1>1, <1>2, <1>4, <1>5 DEF Both

\* A smaller set of places counts less.
LEMMA SubsetCount ==
  ASSUME NEW n \in Nat, NEW T \in SUBSET (1..n), NEW S \in SUBSET T
  PROVE  Cardinality(S) <= Cardinality(T) /\ (S # T => Cardinality(S) < Cardinality(T))
<1>1. IsFiniteSet(T) /\ Cardinality(T) \in Nat
  BY PlacesFinite
<1>2. S \in SUBSET (1..n)
  OBVIOUS
<1>3. Cardinality(S) \in Nat
  BY <1>2, PlacesFinite
<1>4. Cardinality(S) <= Cardinality(T) /\ (Cardinality(T) = Cardinality(S) => T = S)
  BY <1>1, FS_Subset
<1> QED
  BY <1>1, <1>3, <1>4

-----------------------------------------------------------------------------
(* The places of launches and of writes in a program.                      *)

Occurs(q, op) == {j \in 1..Len(q) : q[j].do = "launch" /\ q[j].op = op}
WritesOf(q, a) == {j \in 1..Len(q) : q[j].do = "launch" /\ a \in Writes(q[j].op)}
Upto(S, i) == {j \in S : j <= i}
Below(S, i) == {j \in S : j < i}

\* The writes of a before the n-th launch of op.
Sooner(q, op, n, a) == {j \in WritesOf(q, a) : Cardinality(Upto(Occurs(q, op), j)) < n}

LEMMA PlaceTypes ==
  ASSUME NEW q \in Seq(Requests)
  PROVE  /\ Len(q) \in Nat
         /\ \A op \in Ops : Occurs(q, op) \in SUBSET (1..Len(q)) /\ Cardinality(Occurs(q, op)) \in Nat
         /\ \A a \in Arrays : WritesOf(q, a) \in SUBSET (1..Len(q)) /\ Cardinality(WritesOf(q, a)) \in Nat
         /\ \A op \in Ops : \A i \in Nat :
              /\ Upto(Occurs(q, op), i) \in SUBSET (1..Len(q))
              /\ Cardinality(Upto(Occurs(q, op), i)) \in Nat
              /\ Cardinality(Upto(Occurs(q, op), i)) <= Cardinality(Occurs(q, op))
         /\ \A a \in Arrays : \A i \in Nat :
              Below(WritesOf(q, a), i) \in SUBSET (1..Len(q)) /\ Cardinality(Below(WritesOf(q, a), i)) \in Nat
         /\ \A op \in Ops : \A n \in Nat : \A a \in Arrays :
              Sooner(q, op, n, a) \in SUBSET (1..Len(q)) /\ Cardinality(Sooner(q, op, n, a)) \in Nat
<1>1. Len(q) \in Nat
  OBVIOUS
<1>2. \A S \in SUBSET (1..Len(q)) : Cardinality(S) \in Nat
  BY <1>1, PlacesFinite
<1>3. \A op \in Ops : Occurs(q, op) \in SUBSET (1..Len(q))
  BY DEF Occurs
<1>4. \A a \in Arrays : WritesOf(q, a) \in SUBSET (1..Len(q))
  BY DEF WritesOf
<1>5. ASSUME NEW op \in Ops, NEW i \in Nat
      PROVE  /\ Upto(Occurs(q, op), i) \in SUBSET (1..Len(q))
             /\ Cardinality(Upto(Occurs(q, op), i)) <= Cardinality(Occurs(q, op))
  <2>1. Upto(Occurs(q, op), i) \in SUBSET Occurs(q, op)
    BY DEF Upto
  <2> QED
    BY <1>1, <1>3, <2>1, SubsetCount
<1>6. \A a \in Arrays : \A i \in Nat : Below(WritesOf(q, a), i) \in SUBSET (1..Len(q))
  BY <1>4 DEF Below
<1>7. \A op \in Ops : \A n \in Nat : \A a \in Arrays : Sooner(q, op, n, a) \in SUBSET (1..Len(q))
  BY <1>4 DEF Sooner
<1> QED
  BY <1>1, <1>2, <1>3, <1>4, <1>5, <1>6, <1>7

LEMMA ConcatElements ==
  ASSUME NEW q \in Seq(Requests), NEW r \in Seq(Requests)
  PROVE  /\ q \o r \in Seq(Requests) /\ Len(q \o r) = Len(q) + Len(r) /\ Len(q) \in Nat /\ Len(r) \in Nat
         /\ \A i \in 1..Len(q) : i \in 1..Len(q \o r) /\ (q \o r)[i] = q[i]
         /\ \A i \in 1..Len(r) : Len(q) + i \in 1..Len(q \o r) /\ (q \o r)[Len(q) + i] = r[i]
         /\ \A i \in 1..Len(q \o r) : i \in 1..Len(q) \/ \E k \in 1..Len(r) : i = Len(q) + k
<1>1. /\ q \o r \in Seq(Requests) /\ Len(q \o r) = Len(q) + Len(r) /\ Len(q) \in Nat /\ Len(r) \in Nat
  OBVIOUS
<1>2. \A i \in 1..Len(q) : i \in 1..Len(q \o r) /\ (q \o r)[i] = q[i]
  BY <1>1
<1>3. \A i \in 1..Len(r) : Len(q) + i \in 1..Len(q \o r) /\ (q \o r)[Len(q) + i] = r[i]
  BY <1>1
<1>4. ASSUME NEW i \in 1..Len(q \o r), i \notin 1..Len(q) PROVE \E k \in 1..Len(r) : i = Len(q) + k
  <2>1. i - Len(q) \in 1..Len(r) /\ i = Len(q) + (i - Len(q))
    BY <1>1, <1>4
  <2> QED
    BY <2>1
<1> QED
  BY <1>1, <1>2, <1>3, <1>4

\* The places of a concatenation are those of its parts.
LEMMA PlacesJoin ==
  ASSUME NEW q \in Seq(Requests), NEW r \in Seq(Requests)
  PROVE  /\ \A op \in Ops : Occurs(q \o r, op) = Both(Len(q), Occurs(q, op), Occurs(r, op))
         /\ \A a \in Arrays : WritesOf(q \o r, a) = Both(Len(q), WritesOf(q, a), WritesOf(r, a))
<1> DEFINE m == Len(q)  n == Len(r)  c == q \o r
<1>1. /\ Len(c) = m + n /\ m \in Nat /\ n \in Nat
      /\ \A i \in 1..m : i \in 1..Len(c) /\ c[i] = q[i]
      /\ \A i \in 1..n : m + i \in 1..Len(c) /\ c[m + i] = r[i]
      /\ \A i \in 1..Len(c) : i \in 1..m \/ \E k \in 1..n : i = m + k
  BY ConcatElements
<1> HIDE DEF c
<1>2. ASSUME NEW op \in Ops PROVE Occurs(c, op) = Both(m, Occurs(q, op), Occurs(r, op))
  <2>1. ASSUME NEW i \in Occurs(c, op) PROVE i \in Occurs(q, op) \cup Shift(m, Occurs(r, op))
    <3>1. CASE i \in 1..m
      BY <1>1, <3>1 DEF Occurs
    <3>2. ASSUME NEW k \in 1..n, i = m + k PROVE i \in Shift(m, Occurs(r, op))
      <4>1. k \in Occurs(r, op)
        BY <1>1, <3>2 DEF Occurs
      <4> QED
        BY <3>2, <4>1 DEF Shift
    <3>3. i \in 1..Len(c)
      BY DEF Occurs
    <3> QED
      BY <1>1, <3>1, <3>2, <3>3
  <2>2. \A i \in Occurs(q, op) : i \in Occurs(c, op)
    BY <1>1 DEF Occurs
  <2>3. \A i \in Shift(m, Occurs(r, op)) : i \in Occurs(c, op)
    BY <1>1 DEF Occurs, Shift
  <2> QED
    BY <2>1, <2>2, <2>3 DEF Both
<1>3. ASSUME NEW a \in Arrays PROVE WritesOf(c, a) = Both(m, WritesOf(q, a), WritesOf(r, a))
  <2>1. ASSUME NEW i \in WritesOf(c, a) PROVE i \in WritesOf(q, a) \cup Shift(m, WritesOf(r, a))
    <3>1. CASE i \in 1..m
      BY <1>1, <3>1 DEF WritesOf
    <3>2. ASSUME NEW k \in 1..n, i = m + k PROVE i \in Shift(m, WritesOf(r, a))
      <4>1. k \in WritesOf(r, a)
        BY <1>1, <3>2 DEF WritesOf
      <4> QED
        BY <3>2, <4>1 DEF Shift
    <3>3. i \in 1..Len(c)
      BY DEF WritesOf
    <3> QED
      BY <1>1, <3>1, <3>2, <3>3
  <2>2. \A i \in WritesOf(q, a) : i \in WritesOf(c, a)
    BY <1>1 DEF WritesOf
  <2>3. \A i \in Shift(m, WritesOf(r, a)) : i \in WritesOf(c, a)
    BY <1>1 DEF WritesOf, Shift
  <2> QED
    BY <2>1, <2>2, <2>3 DEF Both
<1> QED
  BY <1>2, <1>3 DEF c

LEMMA SplitPlaces ==
  ASSUME NEW m \in Nat, NEW n \in Nat, NEW S \in SUBSET (1..m), NEW T \in SUBSET (1..n)
  PROVE  /\ \A i \in 1..m : /\ Upto(Both(m, S, T), i) = Upto(S, i)
                            /\ Below(Both(m, S, T), i) = Below(S, i)
         /\ \A i \in 1..n : /\ Upto(Both(m, S, T), m + i) = Both(m, S, Upto(T, i))
                            /\ Below(Both(m, S, T), m + i) = Both(m, S, Below(T, i))
<1>1. \A j \in S : j \in 1..m
  OBVIOUS
<1>2. \A t \in T : t \in 1..n
  OBVIOUS
<1>3. ASSUME NEW i \in 1..m
      PROVE  Upto(Both(m, S, T), i) = Upto(S, i) /\ Below(Both(m, S, T), i) = Below(S, i)
  BY <1>2 DEF Upto, Below, Shift, Both
<1>4. ASSUME NEW i \in 1..n
      PROVE  /\ Upto(Both(m, S, T), m + i) = Both(m, S, Upto(T, i))
             /\ Below(Both(m, S, T), m + i) = Both(m, S, Below(T, i))
  <2>1. \A j \in S : j <= m + i /\ j < m + i
    BY <1>1
  <2>2. \A t \in T : (m + t <= m + i <=> t <= i) /\ (m + t < m + i <=> t < i)
    BY <1>2
  <2> QED
    BY <2>1, <2>2 DEF Upto, Below, Shift, Both
<1> QED
  BY <1>3, <1>4

\* The number of a launch among those of its name.
Number(q, p) == Cardinality(Upto(Occurs(q, q[p].op), p))

\* A launch of q finds the writes that it would find in r.
FindsAsIn(q, r, p) ==
  \A a \in Ordered(q[p].op) :
    Cardinality(Below(WritesOf(q, a), p)) = Cardinality(Sooner(r, q[p].op, Number(q, p), a))

Launched(q) == {p \in 1..Len(q) : q[p].do = "launch"}

Matches(q, r) ==
  /\ \A op \in Ops : Cardinality(Occurs(q, op)) = Cardinality(Occurs(r, op))
  /\ \A a \in Arrays : Cardinality(WritesOf(q, a)) = Cardinality(WritesOf(r, a))
  /\ \A p \in Launched(q) : FindsAsIn(q, r, p)

LEMMA LaunchedOps ==
  ASSUME NEW q \in Seq(Requests), NEW p \in Launched(q)
  PROVE  /\ q[p].op \in Ops /\ Ordered(q[p].op) \subseteq Arrays
         /\ p \in Occurs(q, q[p].op) /\ Number(q, p) \in Nat \ {0}
         /\ Number(q, p) <= Cardinality(Occurs(q, q[p].op))
<1>1. p \in 1..Len(q) /\ q[p] \in Requests /\ q[p].do = "launch" /\ Len(q) \in Nat
  BY DEF Launched
<1>2. q[p].op \in Ops
  BY <1>1 DEF Requests, Launches, Syncs
<1>3. Ordered(q[p].op) \subseteq Arrays
  BY <1>2, ArraysOf DEF Ordered
<1>4. p \in Occurs(q, q[p].op)
  BY <1>1 DEF Occurs
<1> DEFINE op == q[p].op
           U == Upto(Occurs(q, op), p)
<1>5. U \in SUBSET (1..Len(q)) /\ Cardinality(U) \in Nat /\ Cardinality(U) <= Cardinality(Occurs(q, op))
  BY <1>1, <1>2, PlaceTypes, SMTT(30)
<1>6. {} \in SUBSET U /\ U # {}
  BY <1>1, <1>4 DEF Upto
<1>7. Cardinality({}) < Cardinality(U) /\ Cardinality({}) = 0
  BY <1>1, <1>5, <1>6, SubsetCount, FS_EmptySet
<1> QED
  BY <1>2, <1>3, <1>4, <1>5, <1>7 DEF Number

LEMMA SoonerJoin ==
  ASSUME NEW q \in Seq(Requests), NEW r \in Seq(Requests), NEW op \in Ops, NEW a \in Arrays, NEW n \in Nat
  PROVE  LET c == Cardinality(Occurs(q, op))
         IN /\ n <= c => Sooner(q \o r, op, n, a) = Sooner(q, op, n, a)
            /\ n > 0 => Sooner(q \o r, op, c + n, a)
                          = Both(Len(q), WritesOf(q, a), Sooner(r, op, n, a))
<1> DEFINE m == Len(q)  k == Len(r)
           c == Cardinality(Occurs(q, op))
           S == Occurs(q, op)  T == Occurs(r, op)
           V == WritesOf(q, a)  W == WritesOf(r, a)
           num(j) == Cardinality(Upto(Occurs(q \o r, op), j))
<1>1. /\ m \in Nat /\ k \in Nat /\ S \in SUBSET (1..m) /\ T \in SUBSET (1..k)
      /\ V \in SUBSET (1..m) /\ W \in SUBSET (1..k) /\ c \in Nat
      /\ \A i \in Nat : Cardinality(Upto(S, i)) \in Nat /\ Cardinality(Upto(S, i)) <= c
      /\ \A i \in Nat : Cardinality(Upto(T, i)) \in Nat /\ Upto(T, i) \in SUBSET (1..k)
  BY PlaceTypes
<1>2. Occurs(q \o r, op) = Both(m, S, T) /\ WritesOf(q \o r, a) = Both(m, V, W)
  BY PlacesJoin
<1>10. \A j : num(j) = Cardinality(Upto(Both(m, S, T), j)) /\ c = Cardinality(S)
  BY <1>2
<1> HIDE DEF m, k, c, S, T, V, W, num
<1>11. /\ \A i \in 1..m : Upto(Both(m, S, T), i) = Upto(S, i)
       /\ \A i \in 1..k : Upto(Both(m, S, T), m + i) = Both(m, S, Upto(T, i))
  <2>1. m \in Nat
    BY <1>1
  <2>2. k \in Nat
    BY <1>1
  <2>3. S \in SUBSET (1..m)
    BY <1>1
  <2>4. T \in SUBSET (1..k)
    BY <1>1
  <2> QED
    BY <2>1, <2>2, <2>3, <2>4, SplitPlaces
<1>3. ASSUME NEW j \in 1..m PROVE num(j) = Cardinality(Upto(S, j))
  <2>1. Upto(Both(m, S, T), j) = Upto(S, j)
    BY <1>11
  <2> QED
    BY <1>10, <2>1
<1>4. ASSUME NEW j \in 1..k PROVE num(m + j) = c + Cardinality(Upto(T, j))
  <2>1. Upto(Both(m, S, T), m + j) = Both(m, S, Upto(T, j))
    BY <1>11
  <2>2. Upto(T, j) \in SUBSET (1..k)
    BY <1>1
  <2>3. Cardinality(Both(m, S, Upto(T, j))) = Cardinality(S) + Cardinality(Upto(T, j))
    <3>1. m \in Nat /\ k \in Nat /\ S \in SUBSET (1..m)
      BY <1>1
    <3> QED
      BY <2>2, <3>1, JoinCount
  <2> QED
    BY <1>10, <2>1, <2>3
<1>5. Sooner(q \o r, op, n, a) = {j \in Both(m, V, W) : num(j) < n}
  BY <1>2 DEF Sooner, num, V, W, m
<1>6. Sooner(q \o r, op, c + n, a) = {j \in Both(m, V, W) : num(j) < c + n}
  BY <1>2 DEF Sooner, num, V, W, m
<1>7. /\ Sooner(q, op, n, a) = {j \in V : Cardinality(Upto(S, j)) < n}
      /\ Sooner(r, op, n, a) = {j \in W : Cardinality(Upto(T, j)) < n}
  BY DEF Sooner, V, W, S, T
<1>8. ASSUME n <= c PROVE Sooner(q \o r, op, n, a) = Sooner(q, op, n, a)
  <2>1. \A j \in W : ~ (num(m + j) < n)
    <3> TAKE j \in W
    <3>1. j \in 1..k /\ j \in Nat
      BY <1>1
    <3> DEFINE e == Cardinality(Upto(T, j))
    <3>2. num(m + j) = c + e
      BY <1>4, <3>1
    <3>3. e \in Nat /\ c \in Nat
      BY <1>1, <3>1
    <3> HIDE DEF e
    <3> QED
      BY <1>8, <3>2, <3>3
  <2>2. \A j \in V : num(j) = Cardinality(Upto(S, j))
    BY <1>1, <1>3
  <2> QED
    BY <1>5, <1>7, <2>1, <2>2 DEF Shift, Both
<1>9. ASSUME n > 0 PROVE Sooner(q \o r, op, c + n, a) = Both(m, V, Sooner(r, op, n, a))
  <2>1. \A j \in W : num(m + j) < c + n <=> Cardinality(Upto(T, j)) < n
    <3> TAKE j \in W
    <3>1. j \in 1..k /\ j \in Nat
      BY <1>1
    <3>2. num(m + j) = c + Cardinality(Upto(T, j)) /\ Cardinality(Upto(T, j)) \in Nat
      BY <1>1, <1>4, <3>1
    <3>3. ASSUME NEW x \in Nat PROVE c + x < c + n <=> x < n
      BY <1>1
    <3> QED
      BY <3>2, <3>3
  <2>2. \A j \in V : num(j) < c + n
    <3> TAKE j \in V
    <3>1. j \in 1..m /\ j \in Nat
      BY <1>1
    <3>2. num(j) = Cardinality(Upto(S, j)) /\ Cardinality(Upto(S, j)) \in Nat /\ Cardinality(Upto(S, j)) <= c
      BY <1>1, <1>3, <3>1
    <3> QED
      BY <1>1, <1>9, <3>2
  <2> QED
    BY <1>6, <1>7, <2>1, <2>2 DEF Shift, Both
<1> QED
  BY <1>8, <1>9 DEF c, V, m

-----------------------------------------------------------------------------
(* A program that finds what the sequential one finds.                     *)

LEMMA CountBoth ==
  ASSUME NEW m \in Nat, NEW n \in Nat, NEW S \in SUBSET (1..m), NEW T \in SUBSET (1..n)
  PROVE  /\ \A i \in 1..m : /\ Cardinality(Upto(Both(m, S, T), i)) = Cardinality(Upto(S, i))
                            /\ Cardinality(Below(Both(m, S, T), i)) = Cardinality(Below(S, i))
         /\ \A i \in 1..n :
              /\ Cardinality(Upto(Both(m, S, T), m + i)) = Cardinality(S) + Cardinality(Upto(T, i))
              /\ Cardinality(Below(Both(m, S, T), m + i)) = Cardinality(S) + Cardinality(Below(T, i))
<1>1. \A i \in 1..m : /\ Upto(Both(m, S, T), i) = Upto(S, i) /\ Below(Both(m, S, T), i) = Below(S, i)
  BY SplitPlaces
<1>2. ASSUME NEW i \in 1..n
      PROVE  /\ Cardinality(Upto(Both(m, S, T), m + i)) = Cardinality(S) + Cardinality(Upto(T, i))
             /\ Cardinality(Below(Both(m, S, T), m + i)) = Cardinality(S) + Cardinality(Below(T, i))
  <2>1. /\ Upto(Both(m, S, T), m + i) = Both(m, S, Upto(T, i))
        /\ Below(Both(m, S, T), m + i) = Both(m, S, Below(T, i))
    BY SplitPlaces
  <2>2. Upto(T, i) \in SUBSET (1..n) /\ Below(T, i) \in SUBSET (1..n)
    BY DEF Upto, Below
  <2>3. Cardinality(Both(m, S, Upto(T, i))) = Cardinality(S) + Cardinality(Upto(T, i))
    BY <2>2, JoinCount
  <2>4. Cardinality(Both(m, S, Below(T, i))) = Cardinality(S) + Cardinality(Below(T, i))
    BY <2>2, JoinCount
  <2> QED
    BY <2>1, <2>3, <2>4
<1> QED
  BY <1>1, <1>2

\* The places before one of a concatenation.
LEMMA CountJoin ==
  ASSUME NEW q \in Seq(Requests), NEW z \in Seq(Requests)
  PROVE  /\ \A op \in Ops :
              /\ \A i \in 1..Len(q) :
                   Cardinality(Upto(Occurs(q \o z, op), i)) = Cardinality(Upto(Occurs(q, op), i))
              /\ \A i \in 1..Len(z) :
                   Cardinality(Upto(Occurs(q \o z, op), Len(q) + i))
                     = Cardinality(Occurs(q, op)) + Cardinality(Upto(Occurs(z, op), i))
         /\ \A a \in Arrays :
              /\ \A i \in 1..Len(q) :
                   Cardinality(Below(WritesOf(q \o z, a), i)) = Cardinality(Below(WritesOf(q, a), i))
              /\ \A i \in 1..Len(z) :
                   Cardinality(Below(WritesOf(q \o z, a), Len(q) + i))
                     = Cardinality(WritesOf(q, a)) + Cardinality(Below(WritesOf(z, a), i))
<1>1. Len(q) \in Nat /\ Len(z) \in Nat
  OBVIOUS
<1> DEFINE m == Len(q)  n == Len(z)
<1> HIDE DEF m, n
<1>2. ASSUME NEW op \in Ops
      PROVE  /\ Occurs(q, op) \in SUBSET (1..m) /\ Occurs(z, op) \in SUBSET (1..n)
             /\ Occurs(q \o z, op) = Both(m, Occurs(q, op), Occurs(z, op))
  BY PlaceTypes, PlacesJoin DEF m, n
<1>3. ASSUME NEW a \in Arrays
      PROVE  /\ WritesOf(q, a) \in SUBSET (1..m) /\ WritesOf(z, a) \in SUBSET (1..n)
             /\ WritesOf(q \o z, a) = Both(m, WritesOf(q, a), WritesOf(z, a))
  BY PlaceTypes, PlacesJoin DEF m, n
<1>4. m \in Nat /\ n \in Nat
  BY <1>1 DEF m, n
<1>5. ASSUME NEW op \in Ops
      PROVE  /\ \A i \in 1..m :
                  Cardinality(Upto(Occurs(q \o z, op), i)) = Cardinality(Upto(Occurs(q, op), i))
             /\ \A i \in 1..n :
                  Cardinality(Upto(Occurs(q \o z, op), m + i))
                    = Cardinality(Occurs(q, op)) + Cardinality(Upto(Occurs(z, op), i))
  <2> DEFINE S == Occurs(q, op)  T == Occurs(z, op)
  <2>1. /\ S \in SUBSET (1..m) /\ T \in SUBSET (1..n)
        /\ Occurs(q \o z, op) = Both(m, S, T)
    BY <1>2
  <2> HIDE DEF S, T
  <2>2. /\ \A i \in 1..m : Cardinality(Upto(Both(m, S, T), i)) = Cardinality(Upto(S, i))
        /\ \A i \in 1..n : Cardinality(Upto(Both(m, S, T), m + i)) = Cardinality(S) + Cardinality(Upto(T, i))
    BY <1>4, <2>1, CountBoth
  <2> QED
    BY <2>1, <2>2 DEF S, T
<1>6. ASSUME NEW a \in Arrays
      PROVE  /\ \A i \in 1..m :
                  Cardinality(Below(WritesOf(q \o z, a), i)) = Cardinality(Below(WritesOf(q, a), i))
             /\ \A i \in 1..n :
                  Cardinality(Below(WritesOf(q \o z, a), m + i))
                    = Cardinality(WritesOf(q, a)) + Cardinality(Below(WritesOf(z, a), i))
  <2> DEFINE S == WritesOf(q, a)  T == WritesOf(z, a)
  <2>1. /\ S \in SUBSET (1..m) /\ T \in SUBSET (1..n)
        /\ WritesOf(q \o z, a) = Both(m, S, T)
    BY <1>3
  <2> HIDE DEF S, T
  <2>2. /\ \A i \in 1..m : Cardinality(Below(Both(m, S, T), i)) = Cardinality(Below(S, i))
        /\ \A i \in 1..n : Cardinality(Below(Both(m, S, T), m + i)) = Cardinality(S) + Cardinality(Below(T, i))
    BY <1>4, <2>1, CountBoth
  <2> QED
    BY <2>1, <2>2 DEF S, T
<1> QED
  BY <1>5, <1>6 DEF m, n

\* Where the launches of a concatenation are, and what is before them.
LEMMA FirstPlace ==
  ASSUME NEW q \in Seq(Requests), NEW z \in Seq(Requests), NEW p \in Launched(q)
  PROVE  /\ p \in Launched(q \o z) /\ (q \o z)[p] = q[p] /\ Number(q \o z, p) = Number(q, p)
         /\ \A a \in Arrays : Cardinality(Below(WritesOf(q \o z, a), p)) = Cardinality(Below(WritesOf(q, a), p))
<1>1. p \in 1..Len(q) /\ q[p].do = "launch" /\ p \in 1..Len(q \o z) /\ (q \o z)[p] = q[p]
  BY ConcatElements DEF Launched
<1>2. p \in Launched(q \o z)
  BY <1>1 DEF Launched
<1>3. q[p].op \in Ops
  BY LaunchedOps
<1>4. Cardinality(Upto(Occurs(q \o z, q[p].op), p)) = Cardinality(Upto(Occurs(q, q[p].op), p))
  BY <1>1, <1>3, CountJoin
<1>5. \A a \in Arrays : Cardinality(Below(WritesOf(q \o z, a), p)) = Cardinality(Below(WritesOf(q, a), p))
  BY <1>1, CountJoin
<1> QED
  BY <1>1, <1>2, <1>4, <1>5 DEF Number

LEMMA SecondPlace ==
  ASSUME NEW q \in Seq(Requests), NEW z \in Seq(Requests), NEW k \in Launched(z)
  PROVE  /\ Len(q) + k \in Launched(q \o z) /\ (q \o z)[Len(q) + k] = z[k]
         /\ Number(q \o z, Len(q) + k) = Cardinality(Occurs(q, z[k].op)) + Number(z, k)
         /\ \A a \in Arrays : Cardinality(Below(WritesOf(q \o z, a), Len(q) + k))
                                = Cardinality(WritesOf(q, a)) + Cardinality(Below(WritesOf(z, a), k))
<1>1. /\ k \in 1..Len(z) /\ z[k].do = "launch"
      /\ Len(q) + k \in 1..Len(q \o z) /\ (q \o z)[Len(q) + k] = z[k]
  BY ConcatElements DEF Launched
<1>2. Len(q) + k \in Launched(q \o z)
  BY <1>1 DEF Launched
<1>3. z[k].op \in Ops
  BY LaunchedOps
<1>4. Cardinality(Upto(Occurs(q \o z, z[k].op), Len(q) + k))
        = Cardinality(Occurs(q, z[k].op)) + Cardinality(Upto(Occurs(z, z[k].op), k))
  BY <1>1, <1>3, CountJoin
<1>5. \A a \in Arrays : Cardinality(Below(WritesOf(q \o z, a), Len(q) + k))
                          = Cardinality(WritesOf(q, a)) + Cardinality(Below(WritesOf(z, a), k))
  BY <1>1, CountJoin
<1> QED
  BY <1>1, <1>2, <1>4, <1>5 DEF Number

\* What comes first finds what it found.
LEMMA FirstFinds ==
  ASSUME NEW q \in Seq(Requests), NEW z \in Seq(Requests), NEW r \in Seq(Requests), NEW y \in Seq(Requests),
         Matches(q, r), NEW p \in Launched(q)
  PROVE  FindsAsIn(q \o z, r \o y, p)
<1> DEFINE op == q[p].op
           n == Number(q, p)
<1>1. /\ op \in Ops /\ Ordered(op) \subseteq Arrays /\ n \in Nat
      /\ n <= Cardinality(Occurs(q, op)) /\ Cardinality(Occurs(q, op)) = Cardinality(Occurs(r, op))
  BY LaunchedOps DEF Matches
<1>2. /\ (q \o z)[p].op = op /\ Number(q \o z, p) = n
      /\ \A a \in Arrays : Cardinality(Below(WritesOf(q \o z, a), p)) = Cardinality(Below(WritesOf(q, a), p))
  BY FirstPlace
<1>3. \A a \in Ordered(op) : Cardinality(Below(WritesOf(q, a), p)) = Cardinality(Sooner(r, op, n, a))
  BY DEF Matches, FindsAsIn
<1>4. \A a \in Arrays : Sooner(r \o y, op, n, a) = Sooner(r, op, n, a)
  BY <1>1, SoonerJoin
<1> HIDE DEF op, n
<1> QED
  BY <1>1, <1>2, <1>3, <1>4 DEF FindsAsIn

\* What comes second finds the writes of the first as well.
LEMMA SecondFinds ==
  ASSUME NEW q \in Seq(Requests), NEW z \in Seq(Requests), NEW r \in Seq(Requests), NEW y \in Seq(Requests),
         \A op \in Ops : Cardinality(Occurs(q, op)) = Cardinality(Occurs(r, op)),
         \A a \in Arrays : Cardinality(WritesOf(q, a)) = Cardinality(WritesOf(r, a)),
         Matches(z, y), NEW k \in Launched(z)
  PROVE  FindsAsIn(q \o z, r \o y, Len(q) + k)
<1> DEFINE op == z[k].op
           n == Number(z, k)
           p == Len(q) + k
<1>1. op \in Ops /\ Ordered(op) \subseteq Arrays /\ n \in Nat /\ n > 0
  BY LaunchedOps
<1>2. /\ (q \o z)[p].op = op /\ Number(q \o z, p) = Cardinality(Occurs(r, op)) + n
      /\ \A a \in Arrays : Cardinality(Below(WritesOf(q \o z, a), p))
                             = Cardinality(WritesOf(r, a)) + Cardinality(Below(WritesOf(z, a), k))
  <2>1. /\ (q \o z)[p].op = op /\ Number(q \o z, p) = Cardinality(Occurs(q, op)) + n
        /\ \A a \in Arrays : Cardinality(Below(WritesOf(q \o z, a), p))
                               = Cardinality(WritesOf(q, a)) + Cardinality(Below(WritesOf(z, a), k))
    BY SecondPlace
  <2>2. /\ Cardinality(Occurs(q, op)) = Cardinality(Occurs(r, op))
        /\ \A a \in Arrays : Cardinality(WritesOf(q, a)) = Cardinality(WritesOf(r, a))
    BY <1>1
  <2> HIDE DEF op, n, p
  <2> QED
    BY <2>1, <2>2
<1>3. \A a \in Ordered(op) : Cardinality(Below(WritesOf(z, a), k)) = Cardinality(Sooner(y, op, n, a))
  BY DEF Matches, FindsAsIn
<1>4. ASSUME NEW a \in Arrays
      PROVE  Cardinality(Sooner(r \o y, op, Cardinality(Occurs(r, op)) + n, a))
               = Cardinality(WritesOf(r, a)) + Cardinality(Sooner(y, op, n, a))
  <2> DEFINE X == Sooner(y, op, n, a)
  <2>1. Sooner(r \o y, op, Cardinality(Occurs(r, op)) + n, a) = Both(Len(r), WritesOf(r, a), X)
    BY <1>1, SoonerJoin
  <2>2. /\ WritesOf(r, a) \in SUBSET (1..Len(r)) /\ X \in SUBSET (1..Len(y))
        /\ Len(r) \in Nat /\ Len(y) \in Nat
    BY <1>1, PlaceTypes
  <2> DEFINE W == WritesOf(r, a)  i == Len(r)  j == Len(y)
  <2>3. W \in SUBSET (1..i) /\ X \in SUBSET (1..j) /\ i \in Nat /\ j \in Nat
    BY <2>2
  <2>4. Cardinality(Both(i, W, X)) = Cardinality(W) + Cardinality(X)
    <3> HIDE DEF X, W, i, j
    <3> QED
      BY <2>3, JoinCount
  <2> QED
    BY <2>1, <2>4
<1> HIDE DEF op, n, p
<1>5. FindsAsIn(q \o z, r \o y, p)
  BY <1>1, <1>2, <1>3, <1>4 DEF FindsAsIn
<1> QED
  BY <1>5 DEF p

LEMMA JoinTotals ==
  ASSUME NEW q \in Seq(Requests), NEW z \in Seq(Requests)
  PROVE  /\ \A op \in Ops : Cardinality(Occurs(q \o z, op)) = Cardinality(Occurs(q, op)) + Cardinality(Occurs(z, op))
         /\ \A a \in Arrays : Cardinality(WritesOf(q \o z, a)) = Cardinality(WritesOf(q, a)) + Cardinality(WritesOf(z, a))
<1>1. Len(q) \in Nat /\ Len(z) \in Nat
  OBVIOUS
<1>2. ASSUME NEW op \in Ops
      PROVE  Cardinality(Occurs(q \o z, op)) = Cardinality(Occurs(q, op)) + Cardinality(Occurs(z, op))
  <2>1. Occurs(q, op) \in SUBSET (1..Len(q)) /\ Occurs(z, op) \in SUBSET (1..Len(z))
    BY PlaceTypes
  <2>2. Occurs(q \o z, op) = Both(Len(q), Occurs(q, op), Occurs(z, op))
    BY PlacesJoin
  <2> QED
    BY <1>1, <2>1, <2>2, JoinCount, ZenonT(60)
<1>3. ASSUME NEW a \in Arrays
      PROVE  Cardinality(WritesOf(q \o z, a)) = Cardinality(WritesOf(q, a)) + Cardinality(WritesOf(z, a))
  <2>1. WritesOf(q, a) \in SUBSET (1..Len(q)) /\ WritesOf(z, a) \in SUBSET (1..Len(z))
    BY PlaceTypes
  <2>2. WritesOf(q \o z, a) = Both(Len(q), WritesOf(q, a), WritesOf(z, a))
    BY PlacesJoin
  <2> QED
    BY <1>1, <2>1, <2>2, JoinCount, ZenonT(60)
<1> QED
  BY <1>2, <1>3

LEMMA LaunchedJoin ==
  ASSUME NEW q \in Seq(Requests), NEW z \in Seq(Requests), NEW p \in Launched(q \o z)
  PROVE  p \in Launched(q) \/ \E k \in Launched(z) : p = Len(q) + k
<1>1. p \in 1..Len(q \o z) /\ (q \o z)[p].do = "launch"
  BY DEF Launched
<1>2. CASE p \in 1..Len(q)
  BY <1>1, <1>2, ConcatElements DEF Launched
<1>3. ASSUME NEW k \in 1..Len(z), p = Len(q) + k PROVE k \in Launched(z)
  BY <1>1, <1>3, ConcatElements DEF Launched
<1> QED
  BY <1>1, <1>2, <1>3, ConcatElements

LEMMA ConcatMatches ==
  ASSUME NEW q \in Seq(Requests), NEW z \in Seq(Requests), NEW r \in Seq(Requests), NEW y \in Seq(Requests),
         Matches(q, r), Matches(z, y)
  PROVE  Matches(q \o z, r \o y)
<1>1. /\ \A op \in Ops : Cardinality(Occurs(q, op)) = Cardinality(Occurs(r, op))
                         /\ Cardinality(Occurs(z, op)) = Cardinality(Occurs(y, op))
      /\ \A a \in Arrays : Cardinality(WritesOf(q, a)) = Cardinality(WritesOf(r, a))
                           /\ Cardinality(WritesOf(z, a)) = Cardinality(WritesOf(y, a))
  BY DEF Matches
<1>2. \A op \in Ops : Cardinality(Occurs(q \o z, op)) = Cardinality(Occurs(r \o y, op))
  BY <1>1, JoinTotals
<1>3. \A a \in Arrays : Cardinality(WritesOf(q \o z, a)) = Cardinality(WritesOf(r \o y, a))
  BY <1>1, JoinTotals
<1>4. ASSUME NEW p \in Launched(q \o z) PROVE FindsAsIn(q \o z, r \o y, p)
  <2>1. CASE p \in Launched(q)
    BY <2>1, FirstFinds
  <2>2. ASSUME NEW k \in Launched(z), p = Len(q) + k PROVE FindsAsIn(q \o z, r \o y, p)
    BY <1>1, <2>2, SecondFinds
  <2> QED
    BY <2>1, <2>2, LaunchedJoin
<1> QED
  BY <1>2, <1>3, <1>4 DEF Matches

\* Two parts that find nothing of each other may change places.
Apart(q, z) ==
  /\ \A op \in Ops : Occurs(q, op) = {} \/ Occurs(z, op) = {}
  /\ \A p \in Launched(q) : \A a \in Ordered(q[p].op) : WritesOf(z, a) = {}
  /\ \A p \in Launched(z) : \A a \in Ordered(z[p].op) : WritesOf(q, a) = {}
LEMMA Nothing ==
  ASSUME NEW q \in Seq(Requests)
  PROVE  /\ \A op \in Ops : Cardinality(Occurs(q, op)) = 0 <=> Occurs(q, op) = {}
         /\ \A a \in Arrays : Cardinality(WritesOf(q, a)) = 0 <=> WritesOf(q, a) = {}
<1>1. ASSUME NEW S \in SUBSET (1..Len(q)) PROVE Cardinality(S) = 0 <=> S = {}
  <2>1. Len(q) \in Nat
    OBVIOUS
  <2>2. IsFiniteSet(S)
    BY <2>1, PlacesFinite
  <2> QED
    BY <2>2, FS_EmptySet
<1>2. /\ \A op \in Ops : Occurs(q, op) \in SUBSET (1..Len(q))
      /\ \A a \in Arrays : WritesOf(q, a) \in SUBSET (1..Len(q))
  BY PlaceTypes
<1> QED
  BY <1>1, <1>2

LEMMA SwapMatches ==
  ASSUME NEW q \in Seq(Requests), NEW z \in Seq(Requests), NEW r \in Seq(Requests), NEW y \in Seq(Requests),
         Matches(q, y), Matches(z, r), Apart(q, z)
  PROVE  Matches(q \o z, r \o y)
<1>1. /\ \A op \in Ops : /\ Cardinality(Occurs(q, op)) = Cardinality(Occurs(y, op))
                         /\ Cardinality(Occurs(z, op)) = Cardinality(Occurs(r, op))
                         /\ Cardinality(Occurs(q, op)) \in Nat /\ Cardinality(Occurs(z, op)) \in Nat
      /\ \A a \in Arrays : /\ Cardinality(WritesOf(q, a)) = Cardinality(WritesOf(y, a))
                           /\ Cardinality(WritesOf(z, a)) = Cardinality(WritesOf(r, a))
                           /\ Cardinality(WritesOf(q, a)) \in Nat /\ Cardinality(WritesOf(z, a)) \in Nat
  BY PlaceTypes DEF Matches
<1>2. \A op \in Ops : Cardinality(Occurs(q \o z, op)) = Cardinality(Occurs(r \o y, op))
  BY <1>1, JoinTotals
<1>3. \A a \in Arrays : Cardinality(WritesOf(q \o z, a)) = Cardinality(WritesOf(r \o y, a))
  BY <1>1, JoinTotals
<1>4. ASSUME NEW p \in Launched(q) PROVE FindsAsIn(q \o z, r \o y, p)
  <2> DEFINE op == q[p].op
             n == Number(q, p)
  <2>1. op \in Ops /\ Ordered(op) \subseteq Arrays /\ n \in Nat /\ n > 0 /\ p \in Occurs(q, op)
    BY LaunchedOps
  <2>2. /\ (q \o z)[p].op = op /\ Number(q \o z, p) = n
        /\ \A a \in Arrays : Cardinality(Below(WritesOf(q \o z, a), p)) = Cardinality(Below(WritesOf(q, a), p))
    BY FirstPlace
  <2>3. \A a \in Ordered(op) : Cardinality(Below(WritesOf(q, a), p)) = Cardinality(Sooner(y, op, n, a))
    BY DEF Matches, FindsAsIn
  <2>4. Cardinality(Occurs(r, op)) = 0
    <3>1. Occurs(z, op) = {}
      BY <2>1 DEF Apart
    <3> QED
      BY <1>1, <2>1, <3>1, Nothing
  <2>5. ASSUME NEW a \in Ordered(op)
        PROVE  Cardinality(Sooner(r \o y, op, n, a)) = Cardinality(Sooner(y, op, n, a))
    <3> DEFINE X == Sooner(y, op, n, a)
    <3>1. a \in Arrays /\ WritesOf(z, a) = {}
      BY <2>1 DEF Apart
    <3>2. Cardinality(WritesOf(r, a)) = 0
      BY <1>1, <3>1, Nothing
    <3>3. Sooner(r \o y, op, 0 + n, a) = Both(Len(r), WritesOf(r, a), X)
      BY <2>1, <2>4, <3>1, SoonerJoin
    <3>4. /\ WritesOf(r, a) \in SUBSET (1..Len(r)) /\ X \in SUBSET (1..Len(y))
          /\ Len(r) \in Nat /\ Len(y) \in Nat /\ Cardinality(X) \in Nat
      BY <2>1, <3>1, PlaceTypes
    <3>5. Cardinality(Both(Len(r), WritesOf(r, a), X)) = Cardinality(WritesOf(r, a)) + Cardinality(X)
      BY <3>4, JoinCount
    <3>6. 0 + n = n
      BY <2>1
    <3> HIDE DEF X, n, op
    <3> QED
      BY <3>2, <3>3, <3>4, <3>5, <3>6 DEF X
  <2> HIDE DEF op, n
  <2> QED
    BY <2>1, <2>2, <2>3, <2>5 DEF FindsAsIn
<1>5. ASSUME NEW k \in Launched(z) PROVE FindsAsIn(q \o z, r \o y, Len(q) + k)
  <2> DEFINE op == z[k].op
             n == Number(z, k)
             p == Len(q) + k
  <2>1. /\ op \in Ops /\ Ordered(op) \subseteq Arrays /\ n \in Nat /\ k \in Occurs(z, op)
        /\ n <= Cardinality(Occurs(z, op))
    BY LaunchedOps
  <2>2. Cardinality(Occurs(q, op)) = 0
    <3>1. Occurs(q, op) = {}
      BY <2>1 DEF Apart
    <3> QED
      BY <2>1, <3>1, Nothing
  <2>3. /\ (q \o z)[p].op = op /\ Number(q \o z, p) = n
        /\ \A a \in Arrays : Cardinality(Below(WritesOf(q \o z, a), p))
                               = Cardinality(WritesOf(q, a)) + Cardinality(Below(WritesOf(z, a), k))
    <3>1. /\ (q \o z)[p].op = op /\ Number(q \o z, p) = 0 + n
          /\ \A a \in Arrays : Cardinality(Below(WritesOf(q \o z, a), p))
                                 = Cardinality(WritesOf(q, a)) + Cardinality(Below(WritesOf(z, a), k))
      BY <2>2, SecondPlace
    <3>2. 0 + n = n
      BY <2>1
    <3> QED
      BY <3>1, <3>2
  <2>4. \A a \in Ordered(op) : Cardinality(Below(WritesOf(z, a), k)) = Cardinality(Sooner(r, op, n, a))
    BY DEF Matches, FindsAsIn
  <2>5. \A a \in Ordered(op) : Cardinality(WritesOf(q, a)) = 0
    <3> TAKE a \in Ordered(op)
    <3>1. WritesOf(q, a) = {} /\ a \in Arrays
      BY <2>1 DEF Apart
    <3> QED
      BY <3>1, Nothing
  <2>6. \A a \in Arrays : Sooner(r \o y, op, n, a) = Sooner(r, op, n, a)
    BY <1>1, <2>1, SoonerJoin
  <2>7. \A a \in Ordered(op) : Cardinality(Below(WritesOf(z, a), k)) \in Nat
    BY <2>1, PlaceTypes DEF Launched
  <2> HIDE DEF op, n, p
  <2>8. FindsAsIn(q \o z, r \o y, p)
    BY <2>1, <2>3, <2>4, <2>5, <2>6, <2>7 DEF FindsAsIn
  <2> QED
    BY <2>8 DEF p
<1>6. ASSUME NEW p \in Launched(q \o z) PROVE FindsAsIn(q \o z, r \o y, p)
  BY <1>4, <1>5, LaunchedJoin
<1> QED
  BY <1>2, <1>3, <1>6 DEF Matches

\* Two programs with the same launches, on whatever streams.
LEMMA SameMatches ==
  ASSUME NEW q \in Seq(Requests), NEW r \in Seq(Requests), Len(q) = Len(r),
         \A i \in 1..Len(q) : q[i].do = r[i].do /\ q[i].op = r[i].op
  PROVE  Matches(q, r)
<1>1. \A op \in Ops : Occurs(q, op) = Occurs(r, op)
  BY DEF Occurs
<1>2. \A a \in Arrays : WritesOf(q, a) = WritesOf(r, a)
  BY DEF WritesOf
<1>3. ASSUME NEW p \in Launched(q) PROVE FindsAsIn(q, r, p)
  <2> DEFINE op == q[p].op
             O == Occurs(r, op)
             before(j) == Cardinality(Upto(O, j))
  <2>1. op \in Ops /\ Ordered(op) \subseteq Arrays /\ p \in O /\ O \in SUBSET (1..Len(r)) /\ Len(r) \in Nat
        /\ p \in Nat /\ Number(q, p) = before(p)
    BY <1>1, LaunchedOps, PlaceTypes, SMTT(30) DEF Launched, Number
  <2>2. ASSUME NEW j \in 1..Len(r) PROVE before(j) < before(p) <=> j < p
    <3>0. j \in Nat /\ p \in Nat /\ op \in Ops
      BY <2>1
    <3>1. /\ Upto(O, j) \in SUBSET (1..Len(r)) /\ Upto(O, p) \in SUBSET (1..Len(r))
          /\ before(j) \in Nat /\ before(p) \in Nat
      <4> HIDE DEF op
      <4> QED
        BY <3>0, PlaceTypes
    <3>2. CASE j < p
      <4>1. Upto(O, j) \in SUBSET Upto(O, p) /\ Upto(O, j) # Upto(O, p)
        BY <2>1, <3>2 DEF Upto
      <4> QED
        BY <2>1, <3>1, <3>2, <4>1, SubsetCount
    <3>3. CASE ~ (j < p)
      <4>1. Upto(O, p) \in SUBSET Upto(O, j)
        BY <2>1, <3>3 DEF Upto
      <4>2. before(p) <= before(j)
        BY <2>1, <3>1, <4>1, SubsetCount
      <4> QED
        BY <3>1, <3>3, <4>2
    <3> QED
      BY <3>2, <3>3
  <2>3. ASSUME NEW a \in Ordered(op)
        PROVE  Below(WritesOf(q, a), p) = Sooner(r, op, Number(q, p), a)
    <3>1. a \in Arrays
      BY <2>1
    <3>2. WritesOf(q, a) = WritesOf(r, a) /\ WritesOf(r, a) \in SUBSET (1..Len(r))
      BY <1>2, <3>1, PlaceTypes
    <3>3. Sooner(r, op, Number(q, p), a) = {j \in WritesOf(r, a) : before(j) < before(p)}
      BY <2>1 DEF Sooner
    <3> HIDE DEF before, O
    <3> QED
      BY <2>2, <3>2, <3>3 DEF Below
  <2> QED
    BY <2>3 DEF FindsAsIn
<1> QED
  BY <1>1, <1>2, <1>3 DEF Matches

\* A synchronisation launches nothing.
LEMMA SyncMatches ==
  ASSUME NEW q \in Seq(Requests), NEW r \in Seq(Requests), Matches(q, r), NEW s \in SideStreams
  PROVE  q \o Sync(s) \in Seq(Requests) /\ Matches(q \o Sync(s), r)
<1> DEFINE z == Sync(s)
<1>1. z \in Seq(Requests) /\ Len(z) = 1 /\ z[1].do = "synchronize"
  BY DEF Sync, Requests, Syncs
<1>2. <<>> \in Seq(Requests) /\ r \o <<>> = r
  BY ConcatEmptySeq
<1> HIDE DEF z
<1>3. Matches(z, <<>>)
  <2>1. \A op \in Ops : Occurs(z, op) = {} /\ Occurs(<<>>, op) = {}
    BY <1>1 DEF Occurs
  <2>2. \A a \in Arrays : WritesOf(z, a) = {} /\ WritesOf(<<>>, a) = {}
    BY <1>1 DEF WritesOf
  <2>3. Launched(z) = {}
    BY <1>1 DEF Launched
  <2> QED
    BY <2>1, <2>2, <2>3 DEF Matches
<1>4. Matches(q \o z, r \o <<>>)
  BY <1>1, <1>2, <1>3, ConcatMatches
<1>5. q \o z \in Seq(Requests)
  BY <1>1
<1> QED
  BY <1>2, <1>4, <1>5 DEF z

-----------------------------------------------------------------------------
(* A program whose streams do not disturb each other.                      *)

Peaceful(q) ==
  \A p \in Launched(q) : \A t \in SideStreams \ {q[p].stream} : \A x \in Ops :
    Outstanding(q, p, t, x) => Independent(q[p].op, x)

LEMMA FirstOutstanding ==
  ASSUME NEW q \in Seq(Requests), NEW z \in Seq(Requests), NEW p \in 1..Len(q), NEW t, NEW x,
         Outstanding(q \o z, p, t, x)
  PROVE  Outstanding(q, p, t, x)
<1> DEFINE c == q \o z
<1>1. \A i \in 1..Len(q) : c[i] = q[i]
  BY ConcatElements
<1>2. Len(q) \in Nat
  OBVIOUS
<1> HIDE DEF c
<1>3. PICK i \in 1..p - 1 : /\ c[i].do = "launch" /\ c[i].stream = t /\ c[i].op = x
                            /\ \A m \in i + 1..p - 1 : ~ Synchronizes(c[m], t)
  BY DEF Outstanding, c
<1>4. i \in 1..Len(q) /\ \A m \in i + 1..p - 1 : m \in 1..Len(q)
  BY <1>2
<1> QED
  BY <1>1, <1>3, <1>4 DEF Outstanding

\* What the first part has launched, it has waited for.
LEMMA SecondOutstanding ==
  ASSUME NEW q \in ClosedPrograms, NEW z \in Seq(Requests), NEW k \in 1..Len(z), NEW t \in SideStreams, NEW x,
         Outstanding(q \o z, Len(q) + k, t, x)
  PROVE  Outstanding(z, k, t, x)
<1> DEFINE c == q \o z
           n == Len(q)
<1>1. q \in Seq(Requests) /\ Closed(q) /\ t # "main"
  BY DEF ClosedPrograms, SideStreams
<1>2. /\ \A i \in 1..n : c[i] = q[i]
      /\ \A i \in 1..Len(z) : c[n + i] = z[i]
      /\ n \in Nat /\ Len(z) \in Nat
  BY <1>1, ConcatElements
<1>3. PICK i \in 1..n + k - 1 : /\ c[i].do = "launch" /\ c[i].stream = t /\ c[i].op = x
                                /\ \A m \in i + 1..n + k - 1 : ~ Synchronizes(c[m], t)
  <2> DEFINE end == n + k
  <2>1. Outstanding(c, end, t, x)
    OBVIOUS
  <2> HIDE DEF c, end
  <2>2. \E i \in 1..end - 1 : /\ c[i].do = "launch" /\ c[i].stream = t /\ c[i].op = x
                              /\ \A m \in i + 1..end - 1 : ~ Synchronizes(c[m], t)
    BY <2>1 DEF Outstanding
  <2> USE DEF end
  <2> QED
    BY <2>2
<1>6. \A j \in 1..n : q[j].do = "launch" /\ q[j].stream # "main" =>
                        \E m \in j + 1..n : Synchronizes(q[m], q[j].stream)
  BY <1>1 DEF Closed
<1> HIDE DEF c, n
<1>4. ~ (i \in 1..n)
  <2> SUFFICES ASSUME i \in 1..n PROVE FALSE
    OBVIOUS
  <2>1. PICK m \in i + 1..n : Synchronizes(q[m], t)
    BY <1>1, <1>2, <1>3, <1>6
  <2>2. m \in i + 1..n + k - 1 /\ m \in 1..n
    BY <1>2
  <2> QED
    BY <1>2, <1>3, <2>1, <2>2
<1> DEFINE h == i - n
<1>5. h \in 1..k - 1 /\ i = n + h
  BY <1>2, <1>4
<1> HIDE DEF h
<1>7. z[h].do = "launch" /\ z[h].stream = t /\ z[h].op = x
  <2>1. h \in 1..Len(z)
    BY <1>2, <1>5
  <2>2. c[i] = z[h]
    BY <1>2, <1>5, <2>1
  <2> QED
    BY <1>3, <2>2
<1>8. ASSUME NEW m \in h + 1..k - 1 PROVE ~ Synchronizes(z[m], t)
  <2>1. n + m \in i + 1..n + k - 1 /\ m \in 1..Len(z)
    BY <1>2, <1>5
  <2> QED
    BY <1>2, <1>3, <2>1
<1> QED
  BY <1>5, <1>7, <1>8 DEF Outstanding

LEMMA ConcatPeaceful ==
  ASSUME NEW q \in ClosedPrograms, NEW z \in Seq(Requests), Peaceful(q), Peaceful(z)
  PROVE  Peaceful(q \o z)
<1>1. q \in Seq(Requests)
  BY DEF ClosedPrograms
<1> DEFINE c == q \o z
<1>2. SUFFICES ASSUME NEW p \in Launched(c), NEW t \in SideStreams \ {c[p].stream}, NEW x \in Ops,
                      Outstanding(c, p, t, x)
               PROVE  Independent(c[p].op, x)
  BY DEF Peaceful
<1>3. CASE p \in Launched(q)
  <2>1. c[p] = q[p] /\ p \in 1..Len(q)
    BY <1>1, <1>3, ConcatElements DEF Launched
  <2>2. Outstanding(q, p, t, x)
    BY <1>1, <1>2, <2>1, FirstOutstanding
  <2> HIDE DEF c
  <2> QED
    BY <1>3, <2>1, <2>2 DEF Peaceful
<1>4. ASSUME NEW k \in Launched(z), p = Len(q) + k PROVE Independent(c[p].op, x)
  <2>1. c[p] = z[k] /\ k \in 1..Len(z)
    BY <1>1, <1>4, ConcatElements DEF Launched
  <2>2. Outstanding(z, k, t, x)
    BY <1>2, <1>4, <2>1, SecondOutstanding
  <2> HIDE DEF c
  <2> QED
    BY <1>4, <2>1, <2>2 DEF Peaceful
<1> QED
  BY <1>1, <1>3, <1>4, LaunchedJoin

LEMMA SyncPeaceful ==
  ASSUME NEW q \in Seq(Requests), Peaceful(q), NEW s \in SideStreams
  PROVE  Peaceful(q \o Sync(s))
<1> DEFINE z == Sync(s)
           c == q \o z
<1>1. z \in Seq(Requests) /\ Len(z) = 1 /\ z[1].do = "synchronize"
  BY DEF Sync, Requests, Syncs
<1>2. Launched(z) = {}
  BY <1>1 DEF Launched
<1> HIDE DEF z
<1>3. ASSUME NEW p \in Launched(c), NEW t \in SideStreams \ {c[p].stream}, NEW x \in Ops,
             Outstanding(c, p, t, x)
      PROVE  Independent(c[p].op, x)
  <2>1. p \in Launched(q)
    BY <1>1, <1>2, LaunchedJoin
  <2>2. c[p] = q[p] /\ p \in 1..Len(q)
    BY <1>1, <2>1, ConcatElements DEF Launched
  <2>3. Outstanding(q, p, t, x)
    BY <1>1, <1>3, <2>2, FirstOutstanding
  <2> HIDE DEF c
  <2> QED
    BY <2>1, <2>2, <2>3 DEF Peaceful
<1>4. Peaceful(c)
  BY <1>3 DEF Peaceful
<1> QED
  BY <1>4 DEF z

\* The program q does the work of r, on several streams.
Faithful(q, r) == q \in ClosedPrograms /\ r \in Seq(Requests) /\ Matches(q, r) /\ Peaceful(q)

LEMMA ConcatFaithful ==
  ASSUME NEW q, NEW z, NEW r, NEW y, Faithful(q, r), Faithful(z, y)
  PROVE  Faithful(q \o z, r \o y)
<1>1. /\ q \in ClosedPrograms /\ z \in ClosedPrograms /\ q \in Seq(Requests) /\ z \in Seq(Requests)
      /\ r \in Seq(Requests) /\ y \in Seq(Requests)
      /\ Matches(q, r) /\ Matches(z, y) /\ Peaceful(q) /\ Peaceful(z)
  BY DEF Faithful, ClosedPrograms
<1>2. r \o y \in Seq(Requests)
  BY <1>1
<1>3. q \o z \in ClosedPrograms
  BY <1>1, ConcatClosed
<1>4. Matches(q \o z, r \o y)
  BY <1>1, ConcatMatches
<1>5. Peaceful(q \o z)
  BY <1>1, ConcatPeaceful
<1> QED
  BY <1>2, <1>3, <1>4, <1>5 DEF Faithful

LEMMA MainFaithful ==
  ASSUME NEW q \in Seq(Launches({"main"}))
  PROVE  Faithful(q, q)
<1>1. q \in ClosedPrograms /\ q \in Seq(Requests)
  BY MainClosed DEF ClosedPrograms
<1>2. Matches(q, q)
  BY <1>1, SameMatches
<1>3. ASSUME NEW p \in Launched(q), NEW t \in SideStreams, NEW x, Outstanding(q, p, t, x) PROVE FALSE
  <2>1. PICK i \in 1..p - 1 : q[i].stream = t
    BY <1>3 DEF Outstanding
  <2>2. Len(q) \in Nat /\ p \in 1..Len(q)
    BY DEF Launched
  <2>3. i \in 1..Len(q)
    BY <2>2
  <2>4. q[i] \in Launches({"main"})
    BY <2>3
  <2> QED
    BY <2>1, <2>4 DEF Launches, SideStreams
<1>4. Peaceful(q)
  BY <1>3 DEF Peaceful
<1> QED
  BY <1>1, <1>2, <1>4 DEF Faithful

-----------------------------------------------------------------------------
(* fwd_position and the solve do the work of the sequential order.         *)

LEMMA LaunchAt ==
  ASSUME NEW s \in Streams, NEW ops \in Seq(Ops)
  PROVE  /\ Launch(s, ops) \in Seq(Requests) /\ Len(Launch(s, ops)) = Len(ops)
         /\ \A i \in 1..Len(ops) : /\ Launch(s, ops)[i].do = "launch" /\ Launch(s, ops)[i].stream = s
                                   /\ Launch(s, ops)[i].op = ops[i]
<1>1. Launch(s, ops) \in Seq(Launches({s})) /\ Len(Launch(s, ops)) = Len(ops)
  BY LaunchTyped
<1>2. Launches({s}) \subseteq Requests
  BY DEF Launches, Requests
<1>3. Launch(s, ops) \in Seq(Requests)
  <2> DEFINE S == Launches({s})  q == Launch(s, ops)
  <2>1. q \in Seq(S) /\ S \subseteq Requests
    BY <1>1, <1>2
  <2> HIDE DEF S, q
  <2>2. q \in Seq(Requests)
    BY <2>1
  <2> QED
    BY <2>2 DEF q
<1> QED
  BY <1>1, <1>3 DEF Launch

LEMMA LaunchConcat ==
  ASSUME NEW s \in Streams, NEW x \in Seq(Ops), NEW y \in Seq(Ops)
  PROVE  Launch(s, x \o y) = Launch(s, x) \o Launch(s, y)
<1>1. /\ x \o y \in Seq(Ops) /\ Len(x \o y) = Len(x) + Len(y) /\ Len(x) \in Nat /\ Len(y) \in Nat
      /\ \A i \in 1..Len(x) + Len(y) : (x \o y)[i] = IF i <= Len(x) THEN x[i] ELSE y[i - Len(x)]
  BY ConcatProperties
<1> DEFINE L(i) == [do |-> "launch", stream |-> s, op |-> (x \o y)[i]]
<1>2. Launch(s, x \o y) = [i \in 1..Len(x) + Len(y) |-> L(i)]
  BY <1>1 DEF Launch
<1>3. /\ Launch(s, x) \in Seq(Requests) /\ Launch(s, y) \in Seq(Requests)
      /\ Len(Launch(s, x)) = Len(x) /\ Len(Launch(s, y)) = Len(y)
      /\ Launch(s, x \o y) \in Seq(Requests) /\ Len(Launch(s, x \o y)) = Len(x) + Len(y)
  BY <1>1, LaunchAt
<1> DEFINE q == Launch(s, x) \o Launch(s, y)
<1>4. /\ q \in Seq(Requests) /\ Len(q) = Len(x) + Len(y)
      /\ \A i \in 1..Len(x) + Len(y) :
           q[i] = IF i <= Len(x) THEN Launch(s, x)[i] ELSE Launch(s, y)[i - Len(x)]
  <2> DEFINE u == Launch(s, x)  v == Launch(s, y)
  <2> HIDE DEF u, v
  <2>1. /\ u \in Seq(Requests) /\ v \in Seq(Requests) /\ Len(u) = Len(x) /\ Len(v) = Len(y)
    BY <1>3 DEF u, v
  <2>2. /\ u \o v \in Seq(Requests) /\ Len(u \o v) = Len(u) + Len(v)
        /\ \A i \in 1..Len(u) + Len(v) : (u \o v)[i] = IF i <= Len(u) THEN u[i] ELSE v[i - Len(u)]
    BY <2>1, ConcatProperties
  <2> QED
    BY <2>1, <2>2 DEF u, v
<1>5. ASSUME NEW i \in 1..Len(x) + Len(y) PROVE q[i] = L(i)
  <2>1. CASE i <= Len(x)
    <3>1. i \in 1..Len(x)
      BY <1>1, <2>1
    <3>2. Launch(s, x)[i] = [do |-> "launch", stream |-> s, op |-> x[i]]
      BY <3>1 DEF Launch
    <3> QED
      BY <1>1, <1>4, <2>1, <3>2
  <2>2. CASE ~ (i <= Len(x))
    <3>1. i - Len(x) \in 1..Len(y)
      BY <1>1, <2>2
    <3>2. Launch(s, y)[i - Len(x)] = [do |-> "launch", stream |-> s, op |-> y[i - Len(x)]]
      BY <3>1 DEF Launch
    <3> QED
      BY <1>1, <1>4, <2>2, <3>2
  <2> QED
    BY <2>1, <2>2
<1> DEFINE r == Launch(s, x \o y)
<1>6. \A i \in 1..Len(x) + Len(y) : r[i] = L(i)
  BY <1>2
<1>7. r \in Seq(Requests) /\ Len(r) = Len(x) + Len(y)
  BY <1>3
<1> HIDE DEF q, r, L
<1>8. q = r
  BY <1>4, <1>5, <1>6, <1>7, SeqEqual
<1> QED
  BY <1>8 DEF q, r

\* The same launches on two streams and on one.
LEMMA LaunchMatches ==
  ASSUME NEW s \in Streams, NEW t \in Streams, NEW x \in Seq(Ops)
  PROVE  Matches(Launch(s, x), Launch(t, x))
<1> DEFINE q == Launch(s, x)  r == Launch(t, x)
<1>1. /\ q \in Seq(Requests) /\ r \in Seq(Requests) /\ Len(q) = Len(r)
      /\ \A i \in 1..Len(q) : q[i].do = r[i].do /\ q[i].op = r[i].op
  BY LaunchAt
<1> HIDE DEF q, r
<1>2. Matches(q, r)
  BY <1>1, SameMatches
<1> QED
  BY <1>2 DEF q, r

\* Independent operations on two streams, in either order.
LEMMA TwoStreams ==
  ASSUME NEW s \in Streams, NEW t \in Streams, s # t, NEW x \in Seq(Ops), NEW y \in Seq(Ops),
         \A i \in 1..Len(x) : \A j \in 1..Len(y) : x[i] # y[j] /\ Independent(y[j], x[i])
  PROVE  /\ Peaceful(Launch(s, x) \o Launch(t, y))
         /\ Matches(Launch(s, x) \o Launch(t, y), Launch("main", x \o y))
         /\ Matches(Launch(s, x) \o Launch(t, y), Launch("main", y \o x))
<1> DEFINE q == Launch(s, x)  z == Launch(t, y)  m == Launch("main", x)  n == Launch("main", y)
<1>1. "main" \in Streams
  BY DEF Streams
<1>2. /\ q \in Seq(Requests) /\ Len(q) = Len(x) /\ z \in Seq(Requests) /\ Len(z) = Len(y)
      /\ \A i \in 1..Len(x) : q[i].do = "launch" /\ q[i].stream = s /\ q[i].op = x[i]
      /\ \A i \in 1..Len(y) : z[i].do = "launch" /\ z[i].stream = t /\ z[i].op = y[i]
      /\ m \in Seq(Requests) /\ n \in Seq(Requests)
  BY <1>1, LaunchAt
<1>3. /\ Launch("main", x \o y) = m \o n /\ Launch("main", y \o x) = n \o m
      /\ Matches(q, m) /\ Matches(z, n)
  BY <1>1, LaunchConcat, LaunchMatches
<1> HIDE DEF q, z, m, n
<1>4. Matches(q \o z, m \o n)
  BY <1>2, <1>3, ConcatMatches
<1>5. Apart(q, z)
  <2>1. \A op \in Ops : Occurs(q, op) = {} \/ Occurs(z, op) = {}
    BY <1>2 DEF Occurs
  <2>2. ASSUME NEW p \in Launched(q), NEW a \in Ordered(q[p].op) PROVE WritesOf(z, a) = {}
    <3>1. p \in 1..Len(x) /\ q[p].op = x[p]
      BY <1>2 DEF Launched
    <3>2. \A j \in 1..Len(y) : Writes(y[j]) \cap Ordered(x[p]) = {}
      BY <3>1 DEF Independent
    <3>3. \A j \in 1..Len(z) : a \notin Writes(z[j].op)
      BY <1>2, <3>1, <3>2
    <3> QED
      BY <3>3 DEF WritesOf
  <2>3. ASSUME NEW p \in Launched(z), NEW a \in Ordered(z[p].op) PROVE WritesOf(q, a) = {}
    <3>1. p \in 1..Len(y) /\ z[p].op = y[p]
      BY <1>2 DEF Launched
    <3>2. \A j \in 1..Len(x) : Writes(x[j]) \cap Ordered(y[p]) = {}
      BY <3>1 DEF Independent
    <3>3. \A j \in 1..Len(q) : a \notin Writes(q[j].op)
      BY <1>2, <3>1, <3>2
    <3> QED
      BY <3>3 DEF WritesOf
  <2> QED
    BY <2>1, <2>2, <2>3 DEF Apart
<1>6. Matches(q \o z, n \o m)
  BY <1>2, <1>3, <1>5, SwapMatches
<1>7. Peaceful(q \o z)
  <2> DEFINE c == q \o z
  <2>1. /\ Len(c) = Len(q) + Len(z) /\ Len(q) \in Nat /\ Len(z) \in Nat
        /\ \A i \in 1..Len(q) : c[i] = q[i]
        /\ \A i \in 1..Len(z) : c[Len(q) + i] = z[i]
        /\ \A i \in 1..Len(c) : i \in 1..Len(q) \/ \E k \in 1..Len(z) : i = Len(q) + k
    BY <1>2, ConcatElements, ZenonT(60)
  <2> HIDE DEF c
  <2>2. SUFFICES ASSUME NEW p \in Launched(c), NEW u \in SideStreams \ {c[p].stream}, NEW op \in Ops,
                        Outstanding(c, p, u, op)
                 PROVE  Independent(c[p].op, op)
    BY DEF Peaceful, c
  <2>3. PICK i \in 1..p - 1 : c[i].stream = u /\ c[i].op = op
    BY <2>2 DEF Outstanding
  <2>4. p \in 1..Len(c) /\ i \in 1..Len(c) /\ i < p
    BY <2>1 DEF Launched
  <2>5. \A k \in 1..Len(c) : k \in 1..Len(q) => c[k].stream = s
    BY <1>2, <2>1
  <2>6. \A k \in 1..Len(c) : k \notin 1..Len(q) => c[k].stream = t /\ \E j \in 1..Len(y) : c[k].op = y[j]
    <3> TAKE k \in 1..Len(c)
    <3> HAVE k \notin 1..Len(q)
    <3>1. PICK j \in 1..Len(z) : k = Len(q) + j
      BY <2>1
    <3>2. c[k] = z[j] /\ j \in 1..Len(y)
      BY <1>2, <2>1, <3>1
    <3> QED
      BY <1>2, <3>2
  <2>7. i \in 1..Len(q) /\ p \notin 1..Len(q)
    <3>1. c[i].stream # c[p].stream
      BY <2>3
    <3>2. p \in 1..Len(q) => i \in 1..Len(q)
      BY <2>1, <2>4
    <3> QED
      BY <2>4, <2>5, <2>6, <3>1, <3>2
  <2>8. c[i].op = x[i] /\ i \in 1..Len(x)
    BY <1>2, <2>1, <2>7
  <2>9. PICK j \in 1..Len(y) : c[p].op = y[j]
    BY <2>4, <2>6, <2>7
  <2> QED
    BY <2>3, <2>8, <2>9
<1> QED
  BY <1>3, <1>4, <1>6, <1>7 DEF q, z

Kinematics == {"camlight", "flex", "tendon", "crb", "tendon_armature", "factor_m"}

\* The work of the second stream is independent of collision detection, the
\* vertices of flexes left out.
LEMMA ApartFromCollision ==
  /\ \A k \in Kinematics : k # "collision" /\ Independent(k, "collision")
  /\ Independent("update_constraint", "prev_grad")
<1>1. Ordered("collision") = {"xpos"} /\ Writes("collision") = {"contact"}
  BY DEF Ordered, Unordered, Reads, Writes
<1>2. ASSUME NEW k \in Kinematics
      PROVE  k # "collision" /\ "contact" \notin Reads(k) \cup Writes(k) /\ "xpos" \notin Writes(k)
  <2>1. k \in {"camlight", "flex", "tendon"} => "contact" \notin Reads(k) \cup Writes(k) /\ "xpos" \notin Writes(k)
    BY DEF Reads, Writes
  <2>2. k \in {"crb", "tendon_armature", "factor_m"} => "contact" \notin Reads(k) \cup Writes(k) /\ "xpos" \notin Writes(k)
    BY DEF Reads, Writes
  <2> QED
    BY <2>1, <2>2 DEF Kinematics
<1>3. \A k \in Kinematics : k # "collision" /\ Independent(k, "collision")
  BY <1>1, <1>2 DEF Independent, Ordered
<1>4. /\ Reads("update_constraint") = {"Jaref", "efc"} /\ Writes("update_constraint") = {"force"}
      /\ Reads("prev_grad") = {"grad"} /\ Writes("prev_grad") = {"prev_grad"}
  BY DEF Reads, Writes
<1>5. Independent("update_constraint", "prev_grad")
  BY <1>4 DEF Independent, Ordered
<1> QED
  BY <1>3, <1>5

LEMMA KinematicNames ==
  ASSUME NEW factorize \in BOOLEAN
  PROVE  \A i \in 1..Len(Kinematic(factorize)) : Kinematic(factorize)[i] \in Kinematics
<1> DEFINE a == <<"camlight">>
           b == IF has_flex THEN <<"flex">> ELSE <<>>
           c == <<"tendon", "crb", "tendon_armature">>
           d == IF factorize THEN <<"factor_m">> ELSE <<>>
<1>1. /\ a \in Seq(Kinematics) /\ b \in Seq(Kinematics) /\ c \in Seq(Kinematics)
      /\ d \in Seq(Kinematics)
  <2>1. /\ "camlight" \in Kinematics /\ "flex" \in Kinematics /\ "tendon" \in Kinematics
        /\ "crb" \in Kinematics /\ "tendon_armature" \in Kinematics /\ "factor_m" \in Kinematics
    BY DEF Kinematics
  <2>2. /\ <<"camlight">> \in Seq(Kinematics) /\ <<"flex">> \in Seq(Kinematics) /\ <<>> \in Seq(Kinematics)
        /\ c \in Seq(Kinematics) /\ <<"factor_m">> \in Seq(Kinematics)
    BY <2>1
  <2> QED
    BY <2>2
<1>2. Kinematic(factorize) = ((a \o b) \o c) \o d
  BY DEF Kinematic
<1> HIDE DEF a, b, c, d
<1>3. ((a \o b) \o c) \o d \in Seq(Kinematics)
  BY <1>1
<1> QED
  BY <1>2, <1>3

LEMMA PositionFaithful ==
  ASSUME NEW forks \in BOOLEAN, NEW factorize \in BOOLEAN, forks => detects
  PROVE  Faithful(Position(forks, factorize), Position(FALSE, factorize))
<1>1. CASE ~ forks
  <2>1. Position(forks, factorize) = Position(FALSE, factorize)
    BY <1>1
  <2>2. Position(FALSE, factorize) \in Seq(Launches({"main"}))
    BY PositionClosed
  <2> QED
    BY <2>1, <2>2, MainFaithful
<1>2. CASE forks
  <2> DEFINE A == Launch("collision", <<"collision">>)
             B == Launch("secondary", Kinematic(factorize))
             C == Sync("collision")
             D == Sync("secondary")
             R == Launch("main", Kinematic(factorize) \o <<"collision">>)
  <2>1. Position(forks, factorize) = ((A \o B) \o C) \o D /\ Position(FALSE, factorize) = R
    BY <1>2 DEF Position, Detection
  <2>2. /\ Kinematic(factorize) \in Seq(Ops) /\ <<"collision">> \in Seq(Ops)
        /\ "collision" \in Streams /\ "secondary" \in Streams
        /\ "collision" \in SideStreams /\ "secondary" \in SideStreams
    BY KinematicTyped DEF Ops, Streams, SideStreams
  <2>3. \A i \in 1..Len(<<"collision">>) : \A j \in 1..Len(Kinematic(factorize)) :
          /\ <<"collision">>[i] # Kinematic(factorize)[j]
          /\ Independent(Kinematic(factorize)[j], <<"collision">>[i])
    <3>1. \A i \in 1..Len(<<"collision">>) : <<"collision">>[i] = "collision"
      OBVIOUS
    <3>2. \A j \in 1..Len(Kinematic(factorize)) : Kinematic(factorize)[j] \in Kinematics
      BY KinematicNames
    <3> QED
      BY <3>1, <3>2, ApartFromCollision
  <2>4. Peaceful(A \o B) /\ Matches(A \o B, R)
    BY <2>2, <2>3, TwoStreams
  <2>5. A \o B \in Seq(Requests) /\ R \in Seq(Requests)
    <3>1. A \in Seq(Requests) /\ B \in Seq(Requests)
      BY <2>2, LaunchAt
    <3>2. R \in Seq(Requests)
      <4>1. Position(FALSE, factorize) \in ClosedPrograms
        BY PositionClosed
      <4> QED
        BY <2>1, <4>1 DEF ClosedPrograms
    <3> HIDE DEF A, B
    <3> QED
      BY <3>1, <3>2
  <2> DEFINE X == A \o B
  <2> HIDE DEF A, B, R, X
  <2>6. X \o C \in Seq(Requests) /\ Matches(X \o C, R) /\ Peaceful(X \o C)
    BY <2>2, <2>4, <2>5, SyncMatches, SyncPeaceful DEF X
  <2> DEFINE Y == X \o C
  <2> HIDE DEF Y
  <2>7. Matches(Y \o D, R) /\ Peaceful(Y \o D)
    BY <2>2, <2>5, <2>6, SyncMatches, SyncPeaceful DEF Y
  <2>8. Position(forks, factorize) \in ClosedPrograms
    BY PositionClosed
  <2> QED
    BY <2>1, <2>5, <2>7, <2>8 DEF Faithful, X, Y
<1> QED
  BY <1>1, <1>2

LEMMA IterationFaithful ==
  ASSUME NEW streams \in BOOLEAN, cg \in BOOLEAN
  PROVE  Faithful(Iteration(streams), Iteration(FALSE))
<1> DEFINE A == Launch("main", <<"linesearch">>)
           D == Launch("main", <<"update_gradient", "update_search">>)
           P == Launch("cg", <<"prev_grad">>)
           U == Launch("main", <<"update_constraint">>)
           Y == Sync("cg")
           PU == Launch("main", <<"prev_grad">> \o <<"update_constraint">>)
           N == Launch("main", <<>> \o <<"update_constraint">>)
           M == Seq(Launches({"main"}))
<1>1. /\ <<"linesearch">> \in Seq(Ops) /\ <<"update_gradient", "update_search">> \in Seq(Ops)
      /\ <<"prev_grad">> \in Seq(Ops) /\ <<"update_constraint">> \in Seq(Ops)
      /\ <<>> \o <<"update_constraint">> \in Seq(Ops)
      /\ <<"prev_grad">> \o <<"update_constraint">> \in Seq(Ops)
  BY StringTuples DEF Ops
<1>2. A \in M /\ D \in M /\ U \in M /\ PU \in M /\ N \in M /\ P \in Seq(Launches({"cg"}))
  BY <1>1, LaunchTyped
<1>3. Iteration(streams) = (A \o (IF cg /\ streams THEN (P \o U) \o Y ELSE IF cg THEN PU ELSE N)) \o D
      /\ Iteration(FALSE) = (A \o (IF cg THEN PU ELSE N)) \o D
  BY DEF Iteration
<1>4. Faithful(A, A) /\ Faithful(D, D) /\ Faithful(PU, PU) /\ Faithful(N, N)
  <2> HIDE DEF A, D, PU, N
  <2> QED
    BY <1>2, MainFaithful DEF M
<1>5. Faithful((P \o U) \o Y, PU)
  <2>1. "cg" \in Streams /\ "main" \in Streams /\ "cg" \in SideStreams /\ "cg" # "main"
    BY DEF Streams, SideStreams
  <2>2. \A i \in 1..Len(<<"prev_grad">>) : \A j \in 1..Len(<<"update_constraint">>) :
          /\ <<"prev_grad">>[i] # <<"update_constraint">>[j]
          /\ Independent(<<"update_constraint">>[j], <<"prev_grad">>[i])
    <3>1. \A i \in 1..Len(<<"prev_grad">>) : <<"prev_grad">>[i] = "prev_grad"
      OBVIOUS
    <3>2. \A j \in 1..Len(<<"update_constraint">>) : <<"update_constraint">>[j] = "update_constraint"
      OBVIOUS
    <3> QED
      BY <3>1, <3>2, ApartFromCollision
  <2>3. Peaceful(P \o U) /\ Matches(P \o U, PU)
    BY <1>1, <2>1, <2>2, TwoStreams
  <2> DEFINE S == {"cg", "main"}
  <2>4. /\ Launches({"cg"}) \subseteq Launches(S) /\ Launches({"main"}) \subseteq Launches(S)
        /\ Launches(S) \subseteq Requests /\ Launches({"main"}) \subseteq Requests
        /\ S \in SUBSET Streams
    BY DEF Launches, Requests, Streams
  <2>5. /\ Y \in Seq(Syncs(SideStreams)) /\ Len(Y) = 1 /\ Y[1].stream = "cg"
    BY <2>1, SyncTyped
  <2> HIDE DEF P, U, PU, Y, S
  <2>6. P \o U \in Seq(Launches(S))
    <3>1. P \in Seq(Launches(S)) /\ U \in Seq(Launches(S))
      BY <1>2, <2>4
    <3> QED
      BY <3>1
  <2> DEFINE X == P \o U
  <2> HIDE DEF X
  <2>7. X \in Seq(Requests) /\ PU \in Seq(Requests)
    BY <1>2, <2>4, <2>6 DEF X
  <2>8. X \o Y \in ClosedPrograms
    <3>1. \A s \in S : s # "main" => \E j \in 1..Len(Y) : Y[j].stream = s
      BY <2>5 DEF S
    <3> QED
      BY <2>4, <2>5, <2>6, <3>1, JoinClosed DEF X
  <2>9. Matches(X \o Y, PU) /\ Peaceful(X \o Y)
    BY <2>1, <2>3, <2>7, SyncMatches, SyncPeaceful DEF X, Y
  <2> QED
    BY <2>7, <2>8, <2>9 DEF Faithful, X
<1> HIDE DEF A, D, P, U, Y, PU, N, M
<1> DEFINE F == IF cg /\ streams THEN (P \o U) \o Y ELSE IF cg THEN PU ELSE N
           G == IF cg THEN PU ELSE N
<1>6. Faithful(F, G)
  BY <1>4, <1>5
<1> HIDE DEF F, G
<1>7. Faithful(A \o F, A \o G)
  BY <1>4, <1>6, ConcatFaithful
<1>8. Faithful((A \o F) \o D, (A \o G) \o D)
  BY <1>4, <1>7, ConcatFaithful
<1> QED
  BY <1>3, <1>8 DEF F, G

\* A solve repeats its iteration.
Repeated(q, k) == [i \in 1..k * Len(q) |-> q[((i - 1) % Len(q)) + 1]]

LEMMA RepeatOnce ==
  ASSUME NEW q \in Seq(Requests), Len(q) \in {4, 5, 6}, NEW k \in Nat
  PROVE  Repeated(q, k + 1) = Repeated(q, k) \o q /\ Repeated(q, k) \in Seq(Requests)
<1>1. ASSUME NEW m \in {4, 5, 6}, Len(q) = m
      PROVE  Repeated(q, k + 1) = Repeated(q, k) \o q /\ Repeated(q, k) \in Seq(Requests)
  <2> DEFINE n == m * k
             at(i) == ((i - 1) % m) + 1
  <2>1. n \in Nat /\ k * m = n /\ (k + 1) * m = n + m
    <3>1. CASE m = 4
      BY <3>1
    <3>2. CASE m = 5
      BY <3>2
    <3>3. CASE m = 6
      BY <3>3
    <3> QED
      BY <3>1, <3>2, <3>3
  <2>2. \A i \in Nat \ {0} : at(i) \in 1..m
    OBVIOUS
  <2>3. ASSUME NEW i \in 1..m PROVE at(n + i) = i
    <3>1. CASE m = 4
      BY <3>1
    <3>2. CASE m = 5
      BY <3>2
    <3>3. CASE m = 6
      BY <3>3
    <3> QED
      BY <3>1, <3>2, <3>3
  <2>4. /\ Repeated(q, k) = [i \in 1..n |-> q[at(i)]]
        /\ Repeated(q, k + 1) = [i \in 1..n + m |-> q[at(i)]]
    BY <1>1, <2>1 DEF Repeated
  <2> HIDE DEF n, at
  <2> DEFINE r == Repeated(q, k)  s == Repeated(q, k + 1)
  <2>5. \A i \in 1..n + m : q[at(i)] \in Requests
    BY <1>1, <2>1, <2>2
  <2>6. /\ r \in Seq(Requests) /\ Len(r) = n /\ s \in Seq(Requests) /\ Len(s) = n + m
        /\ \A i \in 1..n : r[i] = q[at(i)]
        /\ \A i \in 1..n + m : s[i] = q[at(i)]
    BY <1>1, <2>1, <2>4, <2>5
  <2> HIDE DEF r, s
  <2>7. /\ r \o q \in Seq(Requests) /\ Len(r \o q) = n + m
        /\ \A i \in 1..n + m : (r \o q)[i] = IF i <= n THEN r[i] ELSE q[i - n]
    BY <1>1, <2>6, ConcatProperties
  <2>8. ASSUME NEW i \in 1..n + m PROVE s[i] = (r \o q)[i]
    <3>1. CASE i <= n
      <4>1. i \in 1..n
        BY <2>1, <3>1
      <4>2. r[i] = q[at(i)] /\ s[i] = q[at(i)]
        BY <2>6, <4>1
      <4>3. (r \o q)[i] = r[i]
        BY <2>7, <3>1
      <4> QED
        BY <4>2, <4>3
    <3>2. CASE ~ (i <= n)
      <4>1. i - n \in 1..m /\ i = n + (i - n)
        BY <2>1, <3>2
      <4>2. at(i) = i - n
        BY <2>3, <4>1
      <4> QED
        BY <2>6, <2>7, <3>2, <4>2
    <3> QED
      BY <3>1, <3>2
  <2>9. s = r \o q
    BY <2>6, <2>7, <2>8, SeqEqual
  <2> QED
    BY <2>6, <2>9 DEF r, s
<1> QED
  BY <1>1

LEMMA LeastNatural ==
  ASSUME NEW T \in SUBSET Nat, T # {}
  PROVE  \E x \in T : \A y \in T : x <= y
<1> DEFINE R == OpToRel(<, Nat)
<1>1. IsWellFoundedOn(R, Nat)
  BY NatLessThanWellFounded
<1> HIDE DEF R
<1>2. PICK x \in T : \A y \in T : ~ (<<y, x>> \in R)
  BY <1>1, WFMin, T # {}
<1>3. \A y \in T : y < x => <<y, x>> \in R
  BY DEF R, OpToRel
<1>4. \A y \in T : ~ (y < x)
  BY <1>2, <1>3, Zenon
<1> QED
  BY <1>4

LEMMA RepeatFaithful ==
  ASSUME NEW q, NEW r, Faithful(q, r), Len(q) \in {4, 5, 6}, Len(r) \in {4, 5, 6}
  PROVE  \A k \in Nat : Faithful(Repeated(q, k), Repeated(r, k))
<1>1. q \in Seq(Requests) /\ r \in Seq(Requests)
  BY DEF Faithful, ClosedPrograms
<1>2. Faithful(Repeated(q, 0), Repeated(r, 0))
  <2>1. Repeated(q, 0) = <<>> /\ Repeated(r, 0) = <<>>
    BY <1>1 DEF Repeated
  <2>2. <<>> \in Seq(Launches({"main"}))
    OBVIOUS
  <2> QED
    BY <2>1, <2>2, MainFaithful
<1>3. ASSUME NEW k \in Nat, Faithful(Repeated(q, k), Repeated(r, k))
      PROVE  Faithful(Repeated(q, k + 1), Repeated(r, k + 1))
  <2>1. Faithful(Repeated(q, k) \o q, Repeated(r, k) \o r)
    BY <1>3, ConcatFaithful
  <2> QED
    BY <1>1, <2>1, RepeatOnce
<1> DEFINE Bad == {k \in Nat : ~ Faithful(Repeated(q, k), Repeated(r, k))}
<1>4. Bad = {}
  <2> SUFFICES ASSUME Bad # {} PROVE FALSE
    OBVIOUS
  <2>1. PICK k \in Bad : \A y \in Bad : k <= y
    BY LeastNatural
  <2>2. k # 0 /\ k \in Nat
    BY <1>2
  <2>3. k - 1 \in Nat /\ k - 1 \notin Bad /\ (k - 1) + 1 = k
    BY <2>1, <2>2
  <2> QED
    BY <1>3, <2>1, <2>3
<1> QED
  BY <1>4

LEMMA SolveFaithful ==
  ASSUME NEW streams \in BOOLEAN, cg \in BOOLEAN
  PROVE  Faithful(Solve(streams), Solve(FALSE))
<1>1. \A b \in BOOLEAN : Len(Iteration(b)) \in {4, 5, 6}
  BY IterationAt DEF RequestsOfIteration
<1>2. \A b \in BOOLEAN : Solve(b) = Repeated(Iteration(b), Iterations)
  BY DEF Solve, Repeated
<1>3. Faithful(Iteration(streams), Iteration(FALSE)) /\ Iterations \in Nat
  BY IterationFaithful, BoundsAssumption
<1>4. Faithful(Repeated(Iteration(streams), Iterations), Repeated(Iteration(FALSE), Iterations))
  BY <1>1, <1>3, RepeatFaithful
<1> QED
  BY <1>2, <1>4

\* A call does on its streams the work of the sequential order.
LEMMA ProgramFaithful ==
  ASSUME Switches, NEW how
  PROVE  Faithful(Program(how), Sequential(how))
<1> DEFINE forks == Forks(how)
           streams == HasStreams(how)
<1>1. forks \in BOOLEAN /\ streams \in BOOLEAN /\ cg \in BOOLEAN /\ (forks => detects)
  BY DEF Switches, Forks, HasStreams
<1> HIDE DEF forks, streams
<1>2. /\ Faithful(Launch("main", <<"kinematics", "com_pos">>), Launch("main", <<"kinematics", "com_pos">>))
      /\ Faithful(Launch("main", <<"make_constraint", "transmission">>),
                  Launch("main", <<"make_constraint", "transmission">>))
      /\ Faithful(Launch("main", <<"dynamics", "init_solve">>), Launch("main", <<"dynamics", "init_solve">>))
      /\ Faithful(Launch("main", <<"integrate">>), Launch("main", <<"integrate">>))
  BY MainLaunches, MainFaithful
<1>3. ASSUME NEW factorize \in BOOLEAN
      PROVE  Faithful(FwdPosition(forks, factorize), FwdPosition(FALSE, factorize))
  <2> DEFINE A == Launch("main", <<"kinematics", "com_pos">>)
             B == Position(forks, factorize)
             S == Position(FALSE, factorize)
             C == Launch("main", <<"make_constraint", "transmission">>)
  <2>1. Faithful(A, A) /\ Faithful(B, S) /\ Faithful(C, C)
    BY <1>1, <1>2, PositionFaithful
  <2>2. FwdPosition(forks, factorize) = (A \o B) \o C /\ FwdPosition(FALSE, factorize) = (A \o S) \o C
    BY DEF FwdPosition
  <2> HIDE DEF A, B, C, S
  <2>3. Faithful(A \o B, A \o S)
    BY <2>1, ConcatFaithful
  <2>4. Faithful((A \o B) \o C, (A \o S) \o C)
    BY <2>1, <2>3, ConcatFaithful
  <2> QED
    BY <2>2, <2>4
<1>4. CASE how = "position"
  <2>1. Program(how) = FwdPosition(forks, TRUE) /\ Sequential(how) = FwdPosition(FALSE, TRUE)
    BY <1>4 DEF Program, Sequential, Operations, forks
  <2> QED
    BY <1>3, <2>1
<1>5. CASE how # "position"
  <2> DEFINE P == FwdPosition(forks, FALSE)
             O == FwdPosition(FALSE, FALSE)
             Q == Launch("main", <<"dynamics", "init_solve">>)
             R == Solve(streams)
             S == Solve(FALSE)
             T == Launch("main", <<"integrate">>)
  <2>1. Program(how) = ((P \o Q) \o R) \o T /\ Sequential(how) = ((O \o Q) \o S) \o T
    BY <1>5 DEF Program, Sequential, Operations, forks, streams
  <2>2. Faithful(P, O) /\ Faithful(Q, Q) /\ Faithful(R, S) /\ Faithful(T, T)
    BY <1>1, <1>2, <1>3, SolveFaithful
  <2> HIDE DEF P, O, Q, R, S, T
  <2>3. Faithful(P \o Q, O \o Q)
    BY <2>2, ConcatFaithful
  <2>4. Faithful((P \o Q) \o R, (O \o Q) \o S)
    BY <2>2, <2>3, ConcatFaithful
  <2>5. Faithful(((P \o Q) \o R) \o T, ((O \o Q) \o S) \o T)
    BY <2>2, <2>4, ConcatFaithful
  <2> QED
    BY <2>1, <2>5
<1> QED
  BY <1>4, <1>5

-----------------------------------------------------------------------------
(* Counting what a queue will write.                                       *)

Adds(x, a) == IF a \in Writes(x.op) THEN 1 ELSE 0

LEMMA WriterTypes ==
  ASSUME NEW q \in Seq(Items), NEW a
  PROVE  /\ Len(q) \in Nat
         /\ Writers(q, a) \in SUBSET (1..Len(q)) /\ Cardinality(Writers(q, a)) \in Nat
         /\ \A k : Count(q, a, k) \in Nat
<1>1. Len(q) \in Nat
  OBVIOUS
<1>2. Writers(q, a) \in SUBSET (1..Len(q))
  BY DEF Writers
<1>3. \A S \in SUBSET (1..Len(q)) : Cardinality(S) \in Nat
  BY <1>1, PlacesFinite
<1>4. ASSUME NEW k PROVE Count(q, a, k) \in Nat
  <2>1. {j \in Writers(q, a) : j < k} \in SUBSET (1..Len(q))
    BY <1>2
  <2> QED
    BY <1>3, <2>1 DEF Count
<1> QED
  BY <1>1, <1>2, <1>3, <1>4

\* No writer is before the place.
LEMMA CountNone ==
  ASSUME NEW q \in Seq(Items), NEW a, NEW k \in Int,
         \A j \in 1..Len(q) : j < k => a \notin Writes(q[j].op)
  PROVE  Count(q, a, k) = 0
<1>1. {j \in Writers(q, a) : j < k} = {}
  BY DEF Writers
<1> QED
  BY <1>1, FS_EmptySet DEF Count

LEMMA CountAll ==
  ASSUME NEW q \in Seq(Items), NEW a, NEW k \in Int, k > Len(q)
  PROVE  Count(q, a, k) = Cardinality(Writers(q, a))
<1>1. {j \in Writers(q, a) : j < k} = Writers(q, a)
  <2>1. \A j \in Writers(q, a) : j < k
    BY DEF Writers
  <2> QED
    BY <2>1
<1> QED
  BY <1>1 DEF Count

LEMMA NoWriters ==
  ASSUME NEW q \in Seq(Items), NEW a, \A j \in 1..Len(q) : a \notin Writes(q[j].op)
  PROVE  Cardinality(Writers(q, a)) = 0
<1>1. Writers(q, a) = {}
  BY DEF Writers
<1> QED
  BY <1>1, FS_EmptySet

\* An operation that is added at the end.
LEMMA CountAppend ==
  ASSUME NEW q \in Seq(Items), NEW x \in Items, NEW a
  PROVE  /\ \A k \in Int : k <= Len(q) + 1 => Count(Append(q, x), a, k) = Count(q, a, k)
         /\ Cardinality(Writers(Append(q, x), a)) = Cardinality(Writers(q, a)) + Adds(x, a)
<1> DEFINE r == Append(q, x)
<1>1. /\ Len(q) \in Nat /\ Len(r) = Len(q) + 1 /\ r[Len(q) + 1] = x
      /\ \A i \in 1..Len(q) : r[i] = q[i]
  OBVIOUS
<1> HIDE DEF r
<1>2. ASSUME NEW k \in Int, k <= Len(q) + 1 PROVE Count(r, a, k) = Count(q, a, k)
  <2>1. {j \in Writers(r, a) : j < k} = {j \in Writers(q, a) : j < k}
    <3>1. \A j \in Writers(r, a) : j < k => j \in Writers(q, a)
      BY <1>1, <1>2 DEF Writers
    <3>2. \A j \in Writers(q, a) : j \in Writers(r, a)
      BY <1>1 DEF Writers
    <3> QED
      BY <3>1, <3>2
  <2> QED
    BY <2>1 DEF Count
<1>3. Cardinality(Writers(r, a)) = Cardinality(Writers(q, a)) + Adds(x, a)
  <2> DEFINE T == IF a \in Writes(x.op) THEN {1} ELSE {}
  <2>1. Writers(r, a) = Both(Len(q), Writers(q, a), T)
    <3>1. \A j \in Writers(r, a) : j \in Writers(q, a) \/ (j = Len(q) + 1 /\ a \in Writes(x.op))
      BY <1>1 DEF Writers
    <3>2. \A j \in Writers(q, a) : j \in Writers(r, a)
      BY <1>1 DEF Writers
    <3>3. a \in Writes(x.op) => Len(q) + 1 \in Writers(r, a)
      BY <1>1 DEF Writers
    <3>4. Shift(Len(q), T) = IF a \in Writes(x.op) THEN {Len(q) + 1} ELSE {}
      BY DEF Shift
    <3> QED
      BY <3>1, <3>2, <3>3, <3>4 DEF Both
  <2>2. Writers(q, a) \in SUBSET (1..Len(q)) /\ T \in SUBSET (1..1)
    BY DEF Writers
  <2>3. Cardinality(T) = Adds(x, a)
    <3>1. Cardinality({1}) = 1 /\ Cardinality({}) = 0
      BY FS_EmptySet, FS_Singleton
    <3> QED
      BY <3>1 DEF Adds
  <2> HIDE DEF T
  <2>4. Cardinality(Both(Len(q), Writers(q, a), T)) = Cardinality(Writers(q, a)) + Cardinality(T)
    <3>1. 1 \in Nat
      OBVIOUS
    <3> QED
      BY <1>1, <2>2, <3>1, JoinCount
  <2> QED
    BY <2>1, <2>3, <2>4
<1> QED
  BY <1>2, <1>3 DEF r

\* An operation that is taken from the front.
LEMMA CountTail ==
  ASSUME NEW q \in Seq(Items), q # <<>>, NEW a
  PROVE  /\ \A k \in Int : k >= 1 => Count(q, a, k + 1) = Count(Tail(q), a, k) + Adds(Head(q), a)
         /\ Cardinality(Writers(q, a)) = Cardinality(Writers(Tail(q), a)) + Adds(Head(q), a)
<1> DEFINE r == Tail(q)  x == Head(q)
           T == IF a \in Writes(x.op) THEN {1} ELSE {}
<1>1. /\ Len(q) \in Nat \ {0} /\ r \in Seq(Items) /\ Len(r) = Len(q) - 1 /\ q[1] = x /\ Len(r) \in Nat
      /\ \A i \in 1..Len(r) : r[i] = q[1 + i]
  OBVIOUS
<1>2. Cardinality(T) = Adds(x, a) /\ T \in SUBSET (1..1) /\ 1 \in Nat
  <2>1. Cardinality({1}) = 1 /\ Cardinality({}) = 0
    BY FS_EmptySet, FS_Singleton
  <2> QED
    BY <2>1 DEF Adds
<1>3. \A j : j \in T <=> j = 1 /\ a \in Writes(x.op)
  OBVIOUS
<1> HIDE DEF r, x, T
<1>4. Writers(q, a) = Both(1, T, Writers(r, a))
  <2>1. ASSUME NEW j \in Writers(q, a), j # 1 PROVE j - 1 \in Writers(r, a) /\ j = 1 + (j - 1)
    BY <1>1, <2>1 DEF Writers
  <2>2. \A j \in Writers(r, a) : 1 + j \in Writers(q, a)
    BY <1>1 DEF Writers
  <2>3. 1 \in Writers(q, a) <=> 1 \in T
    BY <1>1, <1>3 DEF Writers
  <2> QED
    BY <1>3, <2>1, <2>2, <2>3 DEF Both, Shift
<1>5. Cardinality(Writers(q, a)) = Cardinality(Writers(r, a)) + Adds(x, a)
  <2>1. Writers(r, a) \in SUBSET (1..Len(r)) /\ Cardinality(Writers(r, a)) \in Nat
    BY <1>1, WriterTypes
  <2>2. Cardinality(Both(1, T, Writers(r, a))) = Cardinality(T) + Cardinality(Writers(r, a))
    BY <1>1, <1>2, <2>1, JoinCount
  <2> QED
    BY <1>2, <1>4, <2>1, <2>2 DEF Adds
<1>6. ASSUME NEW k \in Int, k >= 1 PROVE Count(q, a, k + 1) = Count(r, a, k) + Adds(x, a)
  <2> DEFINE V == {j \in Writers(r, a) : j < k}
  <2>1. V \in SUBSET (1..Len(r)) /\ Cardinality(V) \in Nat
    BY <1>1, WriterTypes DEF Count
  <2>2. {j \in Writers(q, a) : j < k + 1} = Both(1, T, V)
    <3>1. \A j \in T : j < k + 1
      BY <1>3, <1>6
    <3>2. \A j \in Writers(r, a) : 1 + j < k + 1 <=> j < k
      BY <1>6 DEF Writers
    <3> QED
      BY <1>4, <3>1, <3>2 DEF Both, Shift
  <2>3. Cardinality(Both(1, T, V)) = Cardinality(T) + Cardinality(V)
    BY <1>1, <1>2, <2>1, JoinCount, ZenonT(60)
  <2>4. Count(q, a, k + 1) = Cardinality(Both(1, T, V)) /\ Count(r, a, k) = Cardinality(V)
    BY <2>2 DEF Count
  <2>5. Adds(x, a) \in Nat
    BY DEF Adds
  <2> HIDE DEF V
  <2> QED
    BY <1>2, <2>1, <2>3, <2>4, <2>5
<1> QED
  BY <1>5, <1>6 DEF r, x

-----------------------------------------------------------------------------
(* What a launch gives to its stream.                                      *)

\* What the request that is next will find, if it is a launch.
LEMMA NextFinds ==
  ASSUME TypesOK, pc > 0, Current.do = "launch", NEW a \in Ordered(Current.op)
  PROVE  LET made == {j \in 1..pc : Program(mode)[j].do = "launch"}
             n == Cardinality({j \in made : Program(mode)[j].op = Current.op})
         IN Cardinality({j \in made \ {pc} : a \in Writes(Program(mode)[j].op)})
              = WritesBefore(Sequential(mode), Current.op, n, a)
<1> DEFINE q == Program(mode)
           r == Sequential(mode)
           op == Current.op
           made == {j \in 1..pc : q[j].do = "launch"}
           n == Cardinality({j \in made : q[j].op = op})
<1>1. q \in Seq(Requests) /\ pc \in 1..Len(q) /\ Len(q) \in Nat /\ Faithful(q, r) /\ op = q[pc].op
  BY TypedPrograms, ProgramFaithful DEF Current
<1>2. r \in Seq(Launches({"main"})) /\ r \in Seq(Requests) /\ Len(r) \in Nat
  BY <1>1, TypedPrograms, SequentialClosed DEF Faithful
<1>3. \A j \in 1..Len(r) : r[j].do = "launch"
  <2> HIDE DEF r
  <2>1. \A j \in 1..Len(r) : r[j] \in Launches({"main"})
    BY <1>2
  <2> QED
    BY <2>1 DEF Launches
<1>4. pc \in Launched(q)
  BY <1>1 DEF Launched, Current
<1> HIDE DEF q, r, op
<1>5. n = Number(q, pc)
  <2>1. {j \in made : q[j].op = op} = Upto(Occurs(q, op), pc)
    BY <1>1 DEF Upto, Occurs
  <2> QED
    BY <1>1, <2>1 DEF Number
<1>6. {j \in made \ {pc} : a \in Writes(q[j].op)} = Below(WritesOf(q, a), pc)
  BY <1>1 DEF Below, WritesOf
<1> HIDE DEF made, n
<1>7. WritesBefore(r, op, n, a) = Cardinality(Sooner(r, op, n, a))
  <2>1. \A j \in 1..Len(r) : {i \in 1..j : r[i].op = op} = Upto(Occurs(r, op), j)
    BY <1>2, <1>3 DEF Upto, Occurs
  <2>2. {j \in 1..Len(r) : a \in Writes(r[j].op) /\ Cardinality({i \in 1..j : r[i].op = op}) < n}
          = Sooner(r, op, n, a)
    BY <1>3, <2>1 DEF Sooner, WritesOf
  <2> QED
    BY <2>2 DEF WritesBefore
<1>8. Cardinality(Below(WritesOf(q, a), pc)) = Cardinality(Sooner(r, op, n, a))
  <2>1. FindsAsIn(q, r, pc) /\ a \in Ordered(q[pc].op)
    BY <1>1, <1>4 DEF Faithful, Matches, op
  <2> QED
    BY <1>1, <1>5, <2>1 DEF FindsAsIn
<1> QED
  BY <1>6, <1>7, <1>8 DEF q, r, op, made, n

\* The operation that a launch gives to its stream expects what is due.
LEMMA EnqueueExpects ==
  ASSUME TypesOK, Enqueue, ~ Capturing
  PROVE  /\ Current.op \in Ops /\ Current.stream \in Streams
         /\ \E x \in Items :
              /\ queue' = [queue EXCEPT ![Current.stream] = Append(@, x)]
              /\ x.op = Current.op /\ x.after = (IF Current.stream = "main" THEN 0 ELSE issued)
              /\ \A a \in Ordered(x.op) : x.expect[a] = due[a]
              /\ due' = [a \in Arrays |-> due[a] + Adds(x, a)]
         /\ issued' = issued + (IF Current.stream = "main" THEN 1 ELSE 0)
         /\ UNCHANGED <<finished, value, astray>>
<1> DEFINE made == {j \in 1..pc : Program(mode)[j].do = "launch"}
           op == Current.op
           n == Cardinality({j \in made : Program(mode)[j].op = op})
           seq == Sequential(mode)
           earlier(a) == Cardinality({j \in made \ {pc} : a \in Writes(Program(mode)[j].op)})
           expect == [a \in Reads(op) |-> due[a] - earlier(a) + WritesBefore(seq, op, n, a)]
           x == Item(Current.stream, op, expect)
<1>1. Current \in Launches(Streams) /\ pc \in Nat /\ Len(seq) \in Nat
  BY TypedPrograms, SequentialClosed DEF Enqueue, Requests, Syncs
<1>2. op \in Ops /\ Current.stream \in Streams
  BY <1>1 DEF Launches
<1>3. /\ queue' = [queue EXCEPT ![Current.stream] = Append(@, x)]
      /\ issued' = issued + (IF Current.stream = "main" THEN 1 ELSE 0)
      /\ due' = [a \in Arrays |-> due[a] + IF a \in Writes(op) THEN 1 ELSE 0]
      /\ UNCHANGED <<finished, value, astray>>
  BY DEF Enqueue
<1>4. ASSUME NEW a \in Reads(op)
      PROVE  due[a] \in Nat /\ earlier(a) \in Nat /\ WritesBefore(seq, op, n, a) \in Nat
  <2>1. due[a] \in Nat
    BY <1>2, ArraysOf DEF TypesOK
  <2>2. earlier(a) \in Nat
    <3>1. {j \in made \ {pc} : a \in Writes(Program(mode)[j].op)} \in SUBSET (1..pc)
      OBVIOUS
    <3> QED
      BY <1>1, <3>1, CountTypes
  <2>3. WritesBefore(seq, op, n, a) \in Nat
    BY <1>1, CountTypes
  <2> HIDE DEF made, n, seq, earlier
  <2> QED
    BY <2>1, <2>2, <2>3
<1>5. ASSUME NEW a \in Ordered(op) PROVE expect[a] = due[a]
  <2>1. a \in Reads(op)
    BY DEF Ordered
  <2>2. earlier(a) = WritesBefore(seq, op, n, a)
    BY NextFinds DEF Enqueue
  <2>3. expect[a] = due[a] - earlier(a) + WritesBefore(seq, op, n, a)
    BY <2>1
  <2>4. due[a] \in Nat /\ earlier(a) \in Nat
    BY <1>4, <2>1
  <2> HIDE DEF expect, earlier, seq, n
  <2> QED
    BY <2>2, <2>3, <2>4
<1>6. expect \in [Reads(op) -> Int]
  <2> HIDE DEF made, n, seq, earlier
  <2> QED
    BY <1>4
<1> HIDE DEF expect
<1>7. x \in Items
  BY <1>2, <1>6 DEF Item, Items, TypesOK
<1>8. x.op = op /\ x.after = (IF Current.stream = "main" THEN 0 ELSE issued) /\ x.expect = expect
  BY DEF Item
<1> HIDE DEF x, op
<1>9. due' = [a \in Arrays |-> due[a] + Adds(x, a)]
  BY <1>3, <1>8 DEF Adds
<1> QED
  BY <1>2, <1>3, <1>5, <1>7, <1>8, <1>9 DEF op

-----------------------------------------------------------------------------
(* Steps of the invariant of the joins.                                    *)

\* A call in a capture has a synchronisation only for a CG solve, and only in
\* a capture of the caller.
LEMMA RefusedStep ==
  ASSUME TypesOK, Synchronize, Capturing
  PROVE  mode = "captured" /\ cg /\ created
<1>1. pc \in 1..Len(Program(mode)) /\ Program(mode)[pc].do = "synchronize" /\ Switches
  BY TypedPrograms DEF Synchronize, Current
<1>2. ASSUME Program(mode) \in Seq(Launches({"main"})) PROVE FALSE
  <2>1. Program(mode)[pc] \in Launches({"main"})
    BY <1>1, <1>2
  <2> QED
    BY <1>1, <2>1 DEF Launches
<1>3. Forks(mode) \/ (cg /\ HasStreams(mode))
  BY <1>1, <1>2, ProgramClosed
<1> QED
  BY <1>3 DEF Forks, HasStreams, Capturing

LEMMA InitTypes == Init => JoinInv
<1> SUFFICES ASSUME Init PROVE JoinInv
  OBVIOUS
<1>1. Switches
  BY DEF Init, Switches
<1>2. Program(mode) \in Seq(Requests)
  BY <1>1, ProgramClosed DEF ClosedPrograms
<1>3. pc \in 0..Len(Program(mode))
  BY <1>2 DEF Init
<1>4. queue \in [Streams -> Seq(Items)] /\ Len(queue["main"]) = 0 /\ \A s \in SideStreams : queue[s] = <<>>
  BY DEF Init, Streams, SideStreams
<1>5. MaxSteps \in Nat \ {0}
  BY BoundsAssumption
<1>6. TypesOK
  <2>1. mode \in Modes /\ refused \in BOOLEAN
    BY DEF Init, Modes
  <2>3. /\ steps \in 0..MaxSteps
        /\ issued \in Nat /\ finished \in Nat /\ finished + Len(queue["main"]) = issued
    BY <1>4, <1>5 DEF Init
  <2>2. value \in [Arrays -> Nat] /\ due \in [Arrays -> Nat] /\ astray \subseteq Astray
    BY DEF Init
  <2> QED
    BY <1>1, <1>3, <1>4, <2>1, <2>2, <2>3 DEF TypesOK
<1>7. JoinOK /\ RefusedOnlyForCG
  BY <1>4 DEF JoinOK, RefusedOnlyForCG, Init
<1> QED
  BY <1>6, <1>7 DEF JoinInv

LEMMA CallStep == JoinInv /\ (\E how \in Modes : Call(how)) => JoinInv'
<1> SUFFICES ASSUME JoinInv, NEW how \in Modes, Call(how) PROVE JoinInv'
  OBVIOUS
<1>1. TypesOK /\ UNCHANGED config /\ UNCHANGED device /\ pc = 0 /\ pc' = 1 /\ mode' = how
      /\ steps < MaxSteps /\ steps' = steps + 1 /\ refused' = FALSE
  BY DEF JoinInv, Call
<1>2. Items' = Items /\ Astray' = Astray /\ Switches'
  BY <1>1, SamePrograms DEF TypesOK
<1>3. Program(mode)' = Program(how)
  BY <1>1 DEF Program, Operations, Forks, HasStreams, FwdPosition, Position, Kinematic, Detection,
              Launch, Sync, Solve, Iteration, config
<1>4. pc' \in 0..Len(Program(mode)')
  BY <1>1, <1>3, TypedPrograms
<1>5. UNCHANGED <<queue, issued, finished, value, due, astray>>
  BY <1>1 DEF device
<1>6. TypesOK'
  <2>1. steps' \in 0..MaxSteps
    BY <1>1, BoundsAssumption DEF TypesOK
  <2>2. mode' \in Modes /\ refused' \in BOOLEAN
    BY <1>1
  <2>3. /\ queue \in [Streams -> Seq(Items)]
        /\ issued \in Nat /\ finished \in Nat /\ finished + Len(queue["main"]) = issued
        /\ value \in [Arrays -> Nat] /\ due \in [Arrays -> Nat] /\ astray \subseteq Astray
    BY <1>1 DEF TypesOK
  <2>4. /\ queue' \in [Streams -> Seq(Items')]
        /\ issued' \in Nat /\ finished' \in Nat /\ finished' + Len(queue'["main"]) = issued'
        /\ value' \in [Arrays -> Nat] /\ due' \in [Arrays -> Nat] /\ astray' \subseteq Astray'
    BY <1>2, <1>5, <2>3
  <2> QED
    BY <1>2, <1>4, <2>1, <2>2, <2>4 DEF TypesOK
<1>7. \A s \in SideStreams : queue'[s] = <<>>
  BY <1>1 DEF JoinInv, JoinOK, device
<1>8. JoinOK' /\ RefusedOnlyForCG'
  BY <1>1, <1>7 DEF JoinOK, RefusedOnlyForCG
<1> QED
  BY <1>6, <1>8 DEF JoinInv

LEMMA SynchronizeStep == JoinInv /\ Synchronize => JoinInv'
<1> SUFFICES ASSUME JoinInv, Synchronize PROVE JoinInv'
  OBVIOUS
<1>1. /\ TypesOK /\ UNCHANGED config /\ UNCHANGED <<steps, mode>> /\ UNCHANGED device
      /\ pc > 0 /\ Current.do = "synchronize"
  BY DEF JoinInv, Synchronize
<1>2. /\ UNCHANGED <<queue, issued, finished, value, due, astray>>
      /\ UNCHANGED <<created, has_flex, cg, detects, graph_mode, single_stream>>
  BY <1>1 DEF device, config
<1>3. Items' = Items /\ Astray' = Astray /\ Switches' /\ Program(mode)' = Program(mode) /\ Capturing' = Capturing
  BY <1>1, SamePrograms DEF Capturing, TypesOK
<1>4. pc' \in 0..Len(Program(mode)') /\ refused' \in BOOLEAN
  <2>1. CASE Capturing
    BY <1>1, <1>3, <2>1, TypedPrograms DEF Synchronize
  <2>2. CASE ~ Capturing
    BY <1>1, <2>2, AdvanceTypes DEF Synchronize, TypesOK
  <2> QED
    BY <2>1, <2>2
<1>5. TypesOK'
  BY <1>1, <1>2, <1>3, <1>4 DEF TypesOK
<1>6. RefusedOnlyForCG'
  BY <1>1, <1>2, RefusedStep DEF JoinInv, RefusedOnlyForCG, Synchronize
<1>7. ASSUME NEW s \in SideStreams, queue'[s] # <<>>
      PROVE  pc' > 0 /\ ~ Capturing' /\ \E k \in pc'..Len(Program(mode)') : Synchronizes(Program(mode)'[k], s)
  <2>1. ~ Capturing /\ \E j \in pc..Len(Program(mode)) : Synchronizes(Program(mode)[j], s)
    BY <1>2, <1>7 DEF JoinInv, JoinOK
  <2>2. PICK j \in pc..Len(Program(mode)) : Synchronizes(Program(mode)[j], s)
    BY <2>1
  <2>3. queue[Program(mode)[pc].stream] = <<>> /\ Advance
    BY <2>1 DEF Synchronize, Current
  <2>4. Program(mode)[j].stream = s /\ queue[s] # <<>>
    BY <1>2, <1>7, <2>2 DEF Synchronizes
  <2>5. j # pc
    BY <2>3, <2>4
  <2>6. j \in pc + 1..Len(Program(mode))
    BY <1>1, <2>5, TypedPrograms
  <2> QED
    BY <1>1, <1>3, <2>1, <2>2, <2>3, <2>6, AheadStep
<1>8. JoinOK'
  BY <1>7 DEF JoinOK
<1> QED
  BY <1>5, <1>6, <1>8 DEF JoinInv

LEMMA EnqueueStep == JoinInv /\ Enqueue => JoinInv'
<1> SUFFICES ASSUME JoinInv, Enqueue PROVE JoinInv'
  OBVIOUS
<1>1. /\ TypesOK /\ UNCHANGED config /\ UNCHANGED <<steps, mode, refused>>
      /\ pc > 0 /\ Current.do = "launch" /\ Advance
  BY DEF JoinInv, Enqueue
<1>2. Items' = Items /\ Astray' = Astray /\ Switches' /\ Program(mode)' = Program(mode)
      /\ Capturing' = Capturing /\ pc' \in 0..Len(Program(mode)')
  BY <1>1, SamePrograms, AdvanceTypes DEF Capturing, TypesOK
<1>3. /\ queue' \in [Streams -> Seq(Items)]
      /\ issued' \in Nat /\ finished' \in Nat /\ finished' + Len(queue'["main"]) = issued'
      /\ value' \in [Arrays -> Nat] /\ due' \in [Arrays -> Nat] /\ astray' \subseteq Astray
  <2>1. CASE Capturing
    BY <1>1, <2>1 DEF Enqueue, device, TypesOK
  <2>2. CASE ~ Capturing
    <3>1. PICK x \in Items : /\ queue' = [queue EXCEPT ![Current.stream] = Append(@, x)]
                             /\ due' = [a \in Arrays |-> due[a] + Adds(x, a)]
      BY <1>1, <2>2, EnqueueExpects
    <3>2. /\ queue \in [Streams -> Seq(Items)] /\ Current.stream \in Streams /\ "main" \in Streams
          /\ issued \in Nat /\ finished \in Nat /\ finished + Len(queue["main"]) = issued
      BY <1>1, <2>2, EnqueueExpects DEF TypesOK, Streams
    <3>3. queue' \in [Streams -> Seq(Items)]
      BY <3>1, <3>2
    <3>4. Len(queue'["main"]) = Len(queue["main"]) + (IF Current.stream = "main" THEN 1 ELSE 0)
      BY <3>1, <3>2
    <3>5. issued' = issued + (IF Current.stream = "main" THEN 1 ELSE 0) /\ finished' = finished
      BY <1>1, <2>2, EnqueueExpects
    <3>6. issued' \in Nat /\ finished' \in Nat /\ finished' + Len(queue'["main"]) = issued'
      <4>1. queue["main"] \in Seq(Items)
        BY <3>2
      <4>2. Len(queue["main"]) \in Nat
        BY <4>1
      <4>3. ASSUME NEW m \in Nat, NEW d \in {0, 1}, Len(queue["main"]) = m, Len(queue'["main"]) = m + d,
                   issued' = issued + d
            PROVE  issued' \in Nat /\ finished' \in Nat /\ finished' + Len(queue'["main"]) = issued'
        BY <3>2, <3>5, <4>3
      <4> QED
        BY <3>4, <3>5, <4>2, <4>3
    <3>7. /\ UNCHANGED <<value, astray>> /\ due \in [Arrays -> Nat]
      BY <1>1, <2>2, EnqueueExpects DEF TypesOK
    <3>8. due' \in [Arrays -> Nat]
      BY <3>1, <3>7 DEF Adds
    <3>9. value' \in [Arrays -> Nat] /\ astray' \subseteq Astray
      BY <1>1, <3>7 DEF TypesOK
    <3> QED
      BY <3>3, <3>6, <3>8, <3>9
  <2> QED
    BY <2>1, <2>2
<1>4. TypesOK'
  BY <1>1, <1>2, <1>3 DEF TypesOK
<1>5. RefusedOnlyForCG'
  BY <1>1 DEF JoinInv, RefusedOnlyForCG, config
<1>6. ASSUME NEW s \in SideStreams, queue'[s] # <<>>
      PROVE  pc' > 0 /\ ~ Capturing' /\ \E k \in pc'..Len(Program(mode)') : Synchronizes(Program(mode)'[k], s)
  <2>1. ~ Capturing
    <3>1. CASE Capturing
      BY <1>6, <3>1 DEF JoinInv, JoinOK, Enqueue, device
    <3> QED
      BY <3>1
  <2>2. /\ pc \in 1..Len(Program(mode)) /\ Program(mode)[pc].do = "launch"
        /\ Closed(Program(mode)) /\ Len(Program(mode)) \in Nat
    BY <1>1, TypedPrograms DEF Current, ClosedPrograms
  <2>3. \E j \in pc + 1..Len(Program(mode)) : Synchronizes(Program(mode)[j], s)
    <3>1. CASE queue[s] # <<>>
      <4>1. PICK j \in pc..Len(Program(mode)) : Synchronizes(Program(mode)[j], s)
        BY <3>1 DEF JoinInv, JoinOK
      <4>2. j # pc
        BY <2>2, <4>1 DEF Synchronizes
      <4>3. j \in pc + 1..Len(Program(mode))
        BY <2>2, <4>1, <4>2
      <4> QED
        BY <4>1, <4>3
    <3>2. CASE queue[s] = <<>>
      <4>1. Current.stream = s
        <5>1. PICK x \in Items : queue' = [queue EXCEPT ![Current.stream] = Append(@, x)]
          BY <1>1, <2>1, EnqueueExpects
        <5>2. queue \in [Streams -> Seq(Items)] /\ s \in Streams
          BY <1>1 DEF TypesOK, Streams, SideStreams
        <5> QED
          BY <1>6, <3>2, <5>1, <5>2
      <4>2. s # "main"
        BY DEF SideStreams
      <4> QED
        BY <2>2, <4>1, <4>2 DEF Closed, Current
    <3> QED
      BY <3>1, <3>2
  <2> QED
    BY <1>1, <1>2, <2>1, <2>3, AheadStep
<1>7. JoinOK'
  BY <1>6 DEF JoinOK
<1> QED
  BY <1>4, <1>5, <1>7 DEF JoinInv

LEMMA ObserveStep == JoinInv /\ Observe => JoinInv'
<1> SUFFICES ASSUME JoinInv, Observe PROVE JoinInv'
  OBVIOUS
<1>1. /\ TypesOK /\ UNCHANGED config /\ UNCHANGED <<steps, mode, pc, refused>>
      /\ UNCHANGED <<issued, finished, value, astray>>
  BY DEF JoinInv, Observe, host
<1>2. Items' = Items /\ Astray' = Astray /\ Switches' /\ Program(mode)' = Program(mode)
      /\ Capturing' = Capturing
  BY <1>1, SamePrograms DEF Capturing, TypesOK
<1> DEFINE x == Item("obs", "copy", [a \in {"qpos"} |-> due[a]])
<1>3. x \in Items
  <2>1. Reads("copy") = {"qpos"} /\ "copy" \in Ops
    BY DEF Reads, Ops
  <2>2. [a \in {"qpos"} |-> due[a]] \in [Reads("copy") -> Int]
    <3>1. "qpos" \in Arrays
      BY DEF Arrays
    <3>2. due["qpos"] \in Int
      BY <1>1, <3>1 DEF TypesOK
    <3> QED
      BY <2>1, <3>2
  <2> QED
    BY <1>1, <2>1, <2>2 DEF Items, Item, TypesOK
<1>4. queue' = [queue EXCEPT !["obs"] = Append(@, x)] /\ due' = [due EXCEPT !["obs"] = @ + 1]
  BY DEF Observe
<1>5. /\ queue \in [Streams -> Seq(Items)] /\ "obs" \in Streams /\ "obs" # "main" /\ "obs" \notin SideStreams
      /\ SideStreams \subseteq Streams /\ "main" \in Streams
  BY <1>1 DEF TypesOK, Streams, SideStreams
<1> HIDE DEF x
<1>6. /\ queue' \in [Streams -> Seq(Items)] /\ queue'["main"] = queue["main"]
      /\ \A s \in SideStreams : queue'[s] = queue[s]
  BY <1>3, <1>4, <1>5
<1>7. due' \in [Arrays -> Nat]
  <2>1. due \in [Arrays -> Nat]
    BY <1>1 DEF TypesOK
  <2>2. "obs" \in Arrays
    BY DEF Arrays
  <2>3. due["obs"] + 1 \in Nat
    BY <2>1, <2>2
  <2> QED
    BY <1>4, <2>1, <2>3
<1>8. TypesOK'
  BY <1>1, <1>2, <1>6, <1>7 DEF TypesOK
<1>9. JoinOK'
  BY <1>1, <1>2, <1>6 DEF JoinInv, JoinOK
<1>10. RefusedOnlyForCG'
  BY <1>1 DEF JoinInv, RefusedOnlyForCG, config
<1> QED
  BY <1>8, <1>9, <1>10 DEF JoinInv

\* What a stream runs.
LEMMA RunFacts ==
  ASSUME TypesOK, NEW s \in Streams, Run(s)
  PROVE  /\ Head(queue[s]) \in Items /\ queue[s] # <<>> /\ Tail(queue[s]) \in Seq(Items)
         /\ Len(Tail(queue[s])) = Len(queue[s]) - 1 /\ Len(queue[s]) \in Nat \ {0}
         /\ queue' = [queue EXCEPT ![s] = Tail(@)]
<1>1. queue[s] \in Seq(Items) /\ queue[s] # <<>>
  BY DEF TypesOK, Run
<1> QED
  BY <1>1 DEF Run

LEMMA RunStep == JoinInv /\ (\E s \in Streams : Run(s)) => JoinInv'
<1> SUFFICES ASSUME JoinInv, NEW s \in Streams, Run(s) PROVE JoinInv'
  OBVIOUS
<1>1. /\ TypesOK /\ UNCHANGED config /\ UNCHANGED <<steps, mode, pc, refused>> /\ UNCHANGED <<issued, due>>
      /\ finished' = finished + (IF s = "main" THEN 1 ELSE 0)
  BY DEF JoinInv, Run, host
<1>2. Items' = Items /\ Astray' = Astray /\ Switches' /\ Program(mode)' = Program(mode)
      /\ Capturing' = Capturing
  BY <1>1, SamePrograms DEF Capturing, TypesOK
<1> DEFINE x == Head(queue[s])
<1>3. /\ x \in Items /\ queue[s] # <<>> /\ Tail(queue[s]) \in Seq(Items)
      /\ Len(Tail(queue[s])) = Len(queue[s]) - 1 /\ Len(queue[s]) \in Nat \ {0}
      /\ queue' = [queue EXCEPT ![s] = Tail(@)]
  BY <1>1, RunFacts
<1>4. /\ queue \in [Streams -> Seq(Items)] /\ "main" \in Streams /\ SideStreams \subseteq Streams
      /\ issued \in Nat /\ finished \in Nat /\ finished + Len(queue["main"]) = issued
  BY <1>1 DEF TypesOK, Streams, SideStreams
<1>5. /\ astray' = astray \cup {<<x.op, a>> : a \in {b \in Reads(x.op) : value[b] # x.expect[b]}}
      /\ value' = [a \in Arrays |-> value[a] + IF a \in Writes(x.op) THEN 1 ELSE 0]
  BY DEF Run
<1> HIDE DEF x
<1>6. queue' \in [Streams -> Seq(Items)] /\ \A t \in Streams \ {s} : queue'[t] = queue[t]
  BY <1>3, <1>4
<1>7. finished' \in Nat /\ finished' + Len(queue'["main"]) = issued'
  <2>1. CASE s = "main"
    <3>1. queue'["main"] = Tail(queue["main"])
      BY <1>3, <1>4, <2>1
    <3>2. ASSUME NEW m \in Nat, Len(queue["main"]) = m, Len(Tail(queue["main"])) = m - 1
          PROVE  finished' \in Nat /\ finished' + Len(queue'["main"]) = issued'
      <4>1. finished' = finished + 1 /\ issued' = issued /\ finished + m = issued
        BY <1>1, <1>4, <2>1, <3>2
      <4>2. Len(queue'["main"]) = m - 1
        BY <3>1, <3>2
      <4> QED
        BY <1>4, <4>1, <4>2
    <3> QED
      BY <1>3, <2>1, <3>2
  <2>2. CASE s # "main"
    BY <1>1, <1>4, <1>6, <2>2
  <2> QED
    BY <2>1, <2>2
<1>8. astray' \subseteq Astray
  <2>1. x.op \in Ops /\ Reads(x.op) \subseteq Arrays
    BY <1>3, ArraysOf DEF Items
  <2>2. \A a \in Reads(x.op) : <<x.op, a>> \in Astray
    BY <2>1 DEF Astray
  <2> QED
    BY <1>1, <1>5, <2>2 DEF TypesOK
<1>9. value' \in [Arrays -> Nat]
  BY <1>1, <1>5 DEF TypesOK
<1>10. TypesOK'
  BY <1>1, <1>2, <1>6, <1>7, <1>8, <1>9 DEF TypesOK
<1>11. ASSUME NEW t \in SideStreams, queue'[t] # <<>> PROVE queue[t] # <<>>
  BY <1>3, <1>4, <1>6, <1>11
<1>12. JoinOK'
  BY <1>1, <1>2, <1>11 DEF JoinInv, JoinOK
<1>13. RefusedOnlyForCG'
  BY <1>1 DEF JoinInv, RefusedOnlyForCG, config
<1> QED
  BY <1>10, <1>12, <1>13 DEF JoinInv

LEMMA RestStep == JoinInv /\ UNCHANGED vars => JoinInv'
<1> SUFFICES ASSUME JoinInv, UNCHANGED vars PROVE JoinInv'
  OBVIOUS
<1>1. /\ UNCHANGED config /\ UNCHANGED <<steps, mode, pc, refused>>
      /\ UNCHANGED <<queue, issued, finished, value, due, astray>>
      /\ TypesOK
  BY DEF vars, host, device, JoinInv
<1>2. Items' = Items /\ Astray' = Astray /\ Switches' /\ Program(mode)' = Program(mode)
      /\ Capturing' = Capturing
  BY <1>1, SamePrograms DEF Capturing, TypesOK
<1>3. TypesOK'
  BY <1>1, <1>2 DEF TypesOK
<1>4. JoinOK'
  BY <1>1, <1>2 DEF JoinInv, JoinOK
<1>5. RefusedOnlyForCG'
  BY <1>1 DEF JoinInv, RefusedOnlyForCG, config
<1> QED
  BY <1>3, <1>4, <1>5 DEF JoinInv

\* A stream beside the main one holds work only while the call that gave it
\* has a synchronisation with it ahead.
THEOREM JoinInductive == Spec => []JoinInv
<1>1. JoinInv /\ [Next]_vars => JoinInv'
  BY CallStep, EnqueueStep, SynchronizeStep, ObserveStep, RunStep, RestStep DEF Next, Rest
<1> QED
  BY <1>1, InitTypes, PTL DEF Spec

\* The switches, the host's place in the call, the streams and the counts of
\* writes keep their types, and the main stream has finished what it was given
\* except for what it holds.
THEOREM StreamsTyping == Spec => []TypeOK
<1>1. ASSUME JoinInv PROVE TypeOK
  <2>1. TypesOK
    BY <1>1 DEF JoinInv
  <2>2. \A b \in {created, has_flex, cg, detects, graph_mode, single_stream, refused} : b \in BOOLEAN
    BY <2>1 DEF TypesOK, Switches
  <2> QED
    BY <2>1, <2>2 DEF TypesOK, TypeOK, Astray
<1> QED
  BY <1>1, JoinInductive, PTL

\* When a call returns it has waited for every stream that it gave work to,
\* whatever the model, the solver and the environment.
THEOREM CallsJoin == Spec => []Joined
<1>1. JoinInv => Joined
  BY DEF JoinInv, JoinOK, Joined, SideStreams
<1> QED
  BY <1>1, JoinInductive, PTL

\* A call within a capture asks for a synchronisation, and is refused it, only
\* for a CG solve in a capture of the caller.
THEOREM RefusedForCG == Spec => []RefusedOnlyForCG
<1>1. JoinInv => RefusedOnlyForCG
  BY DEF JoinInv
<1> QED
  BY <1>1, JoinInductive, PTL
-----------------------------------------------------------------------------
(* Steps of the order invariant.                                           *)

LEMMA SameOrder ==
  ASSUME UNCHANGED config
  PROVE  /\ \A op : Reads(op)' = Reads(op) /\ Ordered(op)' = Ordered(op)
         /\ \A x, y : Independent(x, y)' = Independent(x, y)
         /\ \A how : Program(how)' = Program(how)
<1>1. UNCHANGED <<created, has_flex, cg, detects, graph_mode, single_stream>>
  BY DEF config
<1>2. \A op : Reads(op)' = Reads(op)
  BY <1>1 DEF Reads
<1>3. \A op : Ordered(op)' = Ordered(op)
  BY <1>2 DEF Ordered
<1>4. \A x, y : Independent(x, y)' = Independent(x, y)
  BY <1>3 DEF Independent
<1>5. \A how : Program(how)' = Program(how)
  BY <1>1 DEF Program, Operations, Forks, HasStreams, FwdPosition, Position, Kinematic, Detection,
              Launch, Sync, Solve, Iteration
<1> QED
  BY <1>2, <1>3, <1>4, <1>5

\* One stream more or less.
LEMMA QueueChange ==
  ASSUME queue \in [Streams -> Seq(Items)], queue' \in [Streams -> Seq(Items)], NEW s \in Streams,
         \A t \in Streams \ {s} : queue'[t] = queue[t], NEW a
  PROVE  /\ InQueues(queue', a) = (InQueues(queue, a) - Cardinality(Writers(queue[s], a)))
                                  + Cardinality(Writers(queue'[s], a))
         /\ InQueues(queue, a) \in Nat
         /\ Cardinality(Writers(queue[s], a)) \in Nat /\ Cardinality(Writers(queue'[s], a)) \in Nat
<1> DEFINE p == queue  q == queue'
<1>14. /\ p \in [Streams -> Seq(Items)] /\ q \in [Streams -> Seq(Items)]
       /\ \A t \in Streams \ {s} : q[t] = p[t]
  OBVIOUS
<1> HIDE DEF p, q
<1> DEFINE n(t) == Cardinality(Writers(p[t], a))
           m(t) == Cardinality(Writers(q[t], a))
<1>1. \A t \in Streams : n(t) \in Nat /\ m(t) \in Nat
  BY <1>14, WriterTypes
<1>2. \A t \in Streams \ {s} : m(t) = n(t)
  BY <1>14
<1>3. /\ InQueues(p, a) = n("main") + n("collision") + n("secondary") + n("cg") + n("obs")
      /\ InQueues(q, a) = m("main") + m("collision") + m("secondary") + m("cg") + m("obs")
  BY DEF InQueues
<1>4. Streams = {"main", "collision", "secondary", "cg", "obs"}
  BY DEF Streams
<1>10. /\ n("main") \in Nat /\ n("collision") \in Nat /\ n("secondary") \in Nat /\ n("cg") \in Nat
       /\ n("obs") \in Nat
  BY <1>1, <1>4
<1> DEFINE N == n(s)  M == m(s)
<1>12. /\ N = Cardinality(Writers(p[s], a)) /\ M = Cardinality(Writers(q[s], a))
       /\ M \in Nat /\ N \in Nat /\ N = n(s) /\ M = m(s)
  BY <1>1
<1> HIDE DEF N, M
<1> HIDE DEF n, m
<1>11. InQueues(p, a) \in Nat
  BY <1>3, <1>10
<1>5. ASSUME s = "main" PROVE InQueues(q, a) = (InQueues(p, a) - N) + M
  <2>1. /\ m("collision") = n("collision") /\ m("secondary") = n("secondary")
        /\ m("cg") = n("cg") /\ m("obs") = n("obs")
    BY <1>2, <1>4, <1>5
  <2> QED
    BY <1>3, <1>10, <1>12, <1>5, <2>1, SMTT(30)
<1>6. ASSUME s = "collision" PROVE InQueues(q, a) = (InQueues(p, a) - N) + M
  <2>1. /\ m("main") = n("main") /\ m("secondary") = n("secondary")
        /\ m("cg") = n("cg") /\ m("obs") = n("obs")
    BY <1>2, <1>4, <1>6
  <2> QED
    BY <1>3, <1>10, <1>12, <1>6, <2>1
<1>7. ASSUME s = "secondary" PROVE InQueues(q, a) = (InQueues(p, a) - N) + M
  <2>1. /\ m("main") = n("main") /\ m("collision") = n("collision")
        /\ m("cg") = n("cg") /\ m("obs") = n("obs")
    BY <1>2, <1>4, <1>7
  <2> QED
    BY <1>3, <1>10, <1>12, <1>7, <2>1
<1>8. ASSUME s = "cg" PROVE InQueues(q, a) = (InQueues(p, a) - N) + M
  <2>1. /\ m("main") = n("main") /\ m("collision") = n("collision") /\ m("secondary") = n("secondary")
        /\ m("obs") = n("obs")
    BY <1>2, <1>4, <1>8
  <2> QED
    BY <1>3, <1>10, <1>12, <1>8, <2>1
<1>9. ASSUME s = "obs" PROVE InQueues(q, a) = (InQueues(p, a) - N) + M
  <2>1. /\ m("main") = n("main") /\ m("collision") = n("collision") /\ m("secondary") = n("secondary")
        /\ m("cg") = n("cg")
    BY <1>2, <1>4, <1>9
  <2> QED
    BY <1>3, <1>10, <1>12, <1>9, <2>1
<1>13. InQueues(q, a) = (InQueues(p, a) - N) + M
  BY <1>4, <1>5, <1>6, <1>7, <1>8, <1>9
<1> QED
  BY <1>11, <1>12, <1>13 DEF p, q

\* An operation whose turn has not come finds, when it runs, the writes that
\* are due; it disturbs nothing that may run after it.
LEMMA PutStep ==
  ASSUME TypesOK, DueOK, WaitsOK, ExpectOK, RaceFree, UNCHANGED config, UNCHANGED <<finished, value>>,
         NEW s \in Streams, NEW x \in Items, x.after = (IF s = "main" THEN 0 ELSE issued),
         queue' = [queue EXCEPT ![s] = Append(@, x)],
         issued' = issued + (IF s = "main" THEN 1 ELSE 0),
         due' = [a \in Arrays |-> due[a] + Adds(x, a)],
         \A a \in Ordered(x.op) : x.expect[a] = due[a],
         \A t \in Streams \ {s, "main"} : \A k \in 1..Len(queue[t]) : Independent(queue[t][k].op, x.op)
  PROVE  DueOK' /\ WaitsOK' /\ ExpectOK' /\ RaceFree'
<1>1. /\ queue \in [Streams -> Seq(Items)] /\ value \in [Arrays -> Nat] /\ due \in [Arrays -> Nat]
      /\ issued \in Nat /\ finished \in Nat /\ finished + Len(queue["main"]) = issued
      /\ "main" \in Streams
  BY DEF TypesOK, Streams
<1>2. /\ queue'[s] = Append(queue[s], x) /\ \A t \in Streams \ {s} : queue'[t] = queue[t]
      /\ value' = value /\ finished' = finished
  BY <1>1
<1>3. /\ \A op : Ordered(op)' = Ordered(op)
      /\ \A y, z : Independent(y, z)' = Independent(y, z)
  BY SameOrder
<1>4. x.op \in Ops /\ Ordered(x.op) \subseteq Arrays /\ Writes(x.op) \subseteq Arrays
  BY ArraysOf DEF Items, Ordered
<1>15. queue' \in [Streams -> Seq(Items)]
  <2>1. Append(queue[s], x) \in Seq(Items)
    BY <1>1
  <2> QED
    BY <1>1, <2>1
<1>5. DueOK'
  <2>1. ASSUME NEW a \in Arrays PROVE due'[a] = value'[a] + InQueues(queue', a)
    <3>1. due[a] = value[a] + InQueues(queue, a)
      BY DEF DueOK
    <3>2. value[a] \in Nat /\ Adds(x, a) \in Nat
      BY <1>1 DEF Adds
    <3>3. InQueues(queue', a) = InQueues(queue, a) + Adds(x, a) /\ InQueues(queue, a) \in Nat
      <4>1. Cardinality(Writers(queue'[s], a)) = Cardinality(Writers(queue[s], a)) + Adds(x, a)
        BY <1>1, <1>2, CountAppend
      <4>2. /\ InQueues(queue', a) = (InQueues(queue, a) - Cardinality(Writers(queue[s], a)))
                                     + Cardinality(Writers(queue'[s], a))
            /\ InQueues(queue, a) \in Nat
        BY <1>1, <1>2, <1>15, QueueChange
      <4>3. Cardinality(Writers(queue[s], a)) \in Nat
        BY <1>1, WriterTypes
      <4> QED
        BY <3>2, <4>1, <4>2, <4>3
    <3>4. due'[a] = due[a] + Adds(x, a) /\ value'[a] = value[a]
      BY <1>2
    <3> QED
      BY <3>1, <3>2, <3>3, <3>4
  <2> QED
    BY <2>1 DEF DueOK
<1>6. ASSUME NEW t \in Streams, NEW k \in 1..Len(queue'[t])
      PROVE  \/ k \in 1..Len(queue[t]) /\ queue'[t][k] = queue[t][k]
             \/ t = s /\ k = Len(queue[s]) + 1 /\ queue'[t][k] = x
  <2>1. CASE t # s
    BY <1>2, <1>6, <2>1
  <2>2. CASE t = s
    <3> DEFINE q == queue[s]
    <3>1. q \in Seq(Items)
      BY <1>1
    <3> HIDE DEF q
    <3>2. /\ Len(q) \in Nat /\ Len(Append(q, x)) = Len(q) + 1 /\ Append(q, x)[Len(q) + 1] = x
          /\ \A i \in 1..Len(q) : Append(q, x)[i] = q[i]
      BY <3>1
    <3>3. queue'[t] = Append(q, x) /\ queue[t] = q
      BY <1>2, <2>2 DEF q
    <3>4. k \in 1..Len(q) + 1
      BY <1>6, <3>2, <3>3
    <3> QED
      BY <2>2, <3>2, <3>3, <3>4 DEF q
  <2> QED
    BY <2>1, <2>2
<1>7. ASSUME NEW t \in Streams
      PROVE  /\ Len(queue[t]) \in Nat /\ queue[t] \in Seq(Items)
             /\ \A k \in 1..Len(queue[t]) : queue[t][k] \in Items
  BY <1>1
<1>8. issued' \in Nat /\ issued <= issued' /\ finished \in Int
  BY <1>1
<1>9. WaitsOK'
  <2> SUFFICES ASSUME NEW t \in Streams, NEW k \in 1..Len(queue'[t]) PROVE queue'[t][k].after <= issued'
    BY DEF WaitsOK
  <2>1. CASE k \in 1..Len(queue[t]) /\ queue'[t][k] = queue[t][k]
    <3>1. queue[t][k].after <= issued /\ queue[t][k].after \in Nat
      BY <1>7, <2>1 DEF WaitsOK, Items
    <3> QED
      BY <1>1, <1>8, <2>1, <3>1
  <2>2. CASE queue'[t][k] = x
    BY <1>1, <1>8, <2>2
  <2> QED
    BY <1>6, <2>1, <2>2
<1>10. ASSUME NEW t \in Streams, NEW k \in 1..Len(queue'[t]), NEW a \in Ordered(queue'[t][k].op)
       PROVE  queue'[t][k].expect[a] =
                value[a] + Count(queue'[t], a, k)
                + (IF t = "main" THEN 0 ELSE Count(queue'["main"], a, queue'[t][k].after - finished + 1))
  <2>1. CASE k \in 1..Len(queue[t]) /\ queue'[t][k] = queue[t][k]
    <3> DEFINE y == queue[t][k]
    <3>1. y.expect[a] = value[a] + Count(queue[t], a, k)
                        + (IF t = "main" THEN 0 ELSE Count(queue["main"], a, y.after - finished + 1))
      BY <1>10, <2>1 DEF ExpectOK
    <3>2. Count(queue'[t], a, k) = Count(queue[t], a, k)
      <4>1. CASE t = s
        <5>1. k <= Len(queue[s]) + 1 /\ k \in Int
          BY <1>7, <2>1, <4>1
        <5>2. queue[s] \in Seq(Items)
          BY <1>7
        <5>3. Count(Append(queue[s], x), a, k) = Count(queue[s], a, k)
          BY <5>1, <5>2, CountAppend
        <5> QED
          BY <1>2, <4>1, <5>3
      <4> QED
        BY <1>2, <4>1
    <3>3. Count(queue'["main"], a, y.after - finished + 1) = Count(queue["main"], a, y.after - finished + 1)
      <4>1. CASE s = "main"
        <5>1. y.after <= issued /\ y.after \in Nat
          BY <1>7, <2>1 DEF WaitsOK, Items
        <5>2. y.after - finished + 1 \in Int /\ y.after - finished + 1 <= Len(queue["main"]) + 1
          BY <1>1, <1>7, <5>1, SMTT(30)
        <5>3. queue["main"] \in Seq(Items)
          BY <1>1, <1>7
        <5> HIDE DEF y
        <5>4. Count(Append(queue["main"], x), a, y.after - finished + 1)
                = Count(queue["main"], a, y.after - finished + 1)
          BY <5>2, <5>3, CountAppend
        <5> QED
          BY <1>2, <4>1, <5>4
      <4> QED
        BY <1>1, <1>2, <4>1
    <3> HIDE DEF y
    <3> QED
      BY <2>1, <3>1, <3>2, <3>3 DEF y
  <2>2. CASE t = s /\ k = Len(queue[s]) + 1 /\ queue'[t][k] = x
    <3>1. x.expect[a] = due[a] /\ a \in Arrays /\ a \in Ordered(x.op)
      BY <1>4, <1>10, <2>2
    <3> DEFINE Queued(u) == Cardinality(Writers(queue[u], a))
    <3>2. due[a] = value[a] + (Queued("main") + Queued("collision") + Queued("secondary")
                   + Queued("cg") + Queued("obs"))
      BY <3>1 DEF DueOK, InQueues
    <3>3. \A u \in Streams \ {s, "main"} : Queued(u) = 0
      <4> TAKE u \in Streams \ {s, "main"}
      <4>1. \A j \in 1..Len(queue[u]) : a \notin Writes(queue[u][j].op)
        BY <3>1 DEF Independent
      <4> QED
        BY <1>7, <4>1, NoWriters
    <3>4. \A u \in Streams : Queued(u) \in Nat
      BY <1>7, WriterTypes
    <3>5. Count(queue'[s], a, k) = Queued(s)
      <4>1. k \in Int /\ k > Len(queue[s]) /\ k <= Len(queue[s]) + 1
        BY <1>7, <2>2
      <4> QED
        BY <1>2, <1>7, <4>1, CountAppend, CountAll
    <3>6. CASE s = "main"
      <4>1. Queued("collision") = 0 /\ Queued("secondary") = 0 /\ Queued("cg") = 0 /\ Queued("obs") = 0
        BY <3>3, <3>6 DEF Streams
      <4>2. value[a] \in Nat
        BY <1>1, <3>1
      <4> QED
        BY <1>1, <2>2, <3>1, <3>2, <3>4, <3>5, <3>6, <4>1, <4>2
    <3>7. CASE s # "main"
      <4>1. Count(queue'["main"], a, x.after - finished + 1) = Queued("main")
        <5>1. queue'["main"] = queue["main"] /\ x.after = issued
          BY <1>1, <1>2, <3>7
        <5>2. x.after - finished + 1 \in Int /\ x.after - finished + 1 > Len(queue["main"])
          BY <1>1, <1>7, <5>1
        <5> QED
          BY <1>1, <1>7, <5>1, <5>2, CountAll
      <4>2. due[a] = value[a] + Queued(s) + Queued("main")
        <5>1. Streams = {"main", "collision", "secondary", "cg", "obs"} /\ value[a] \in Nat
          BY <1>1, <3>1 DEF Streams
        <5>2. CASE s = "collision"
          <6>1. Queued("secondary") = 0 /\ Queued("cg") = 0 /\ Queued("obs") = 0
            BY <3>3, <5>1, <5>2
          <6> QED
            BY <3>2, <3>4, <5>1, <5>2, <6>1
        <5>3. CASE s = "secondary"
          <6>1. Queued("collision") = 0 /\ Queued("cg") = 0 /\ Queued("obs") = 0
            BY <3>3, <5>1, <5>3
          <6> QED
            BY <3>2, <3>4, <5>1, <5>3, <6>1
        <5>4. CASE s = "cg"
          <6>1. Queued("collision") = 0 /\ Queued("secondary") = 0 /\ Queued("obs") = 0
            BY <3>3, <5>1, <5>4
          <6> QED
            BY <3>2, <3>4, <5>1, <5>4, <6>1
        <5>5. CASE s = "obs"
          <6>1. Queued("collision") = 0 /\ Queued("secondary") = 0 /\ Queued("cg") = 0
            BY <3>3, <5>1, <5>5
          <6> QED
            BY <3>2, <3>4, <5>1, <5>5, <6>1
        <5> QED
          BY <3>7, <5>1, <5>2, <5>3, <5>4, <5>5
      <4> QED
        BY <2>2, <3>1, <3>5, <3>7, <4>1, <4>2
    <3> QED
      BY <3>6, <3>7
  <2> QED
    BY <1>6, <2>1, <2>2
<1>11. ExpectOK'
  BY <1>2, <1>3, <1>10 DEF ExpectOK
<1>12. ASSUME NEW t \in Streams \ {"main"}, NEW k \in 1..Len(queue'[t]), NEW j \in 1..Len(queue'["main"]),
              finished + j > queue'[t][k].after
       PROVE  Independent(queue'[t][k].op, queue'["main"][j].op)
  <2>1. CASE /\ k \in 1..Len(queue[t]) /\ queue'[t][k] = queue[t][k]
             /\ j \in 1..Len(queue["main"]) /\ queue'["main"][j] = queue["main"][j]
    BY <1>12, <2>1 DEF RaceFree
  <2>2. CASE k \in 1..Len(queue[t]) /\ queue'[t][k] = queue[t][k] /\ s = "main" /\ queue'["main"][j] = x
    BY <2>2
  <2>3. CASE t = s /\ queue'[t][k] = x
    <3>1. j \in 1..Len(queue["main"]) /\ x.after = issued
      BY <1>1, <1>2, <1>12, <2>3
    <3> QED
      BY <1>1, <1>7, <1>12, <2>3, <3>1
  <2> QED
    BY <1>1, <1>6, <2>1, <2>2, <2>3
<1>13. ASSUME NEW t \in Streams \ {"main"}, NEW u \in Streams \ {"main"}, t # u,
              NEW k \in 1..Len(queue'[t]), NEW j \in 1..Len(queue'[u])
       PROVE  Independent(queue'[t][k].op, queue'[u][j].op)
  <2>1. CASE /\ k \in 1..Len(queue[t]) /\ queue'[t][k] = queue[t][k]
             /\ j \in 1..Len(queue[u]) /\ queue'[u][j] = queue[u][j]
    BY <1>13, <2>1 DEF RaceFree
  <2>2. CASE k \in 1..Len(queue[t]) /\ queue'[t][k] = queue[t][k] /\ s = u /\ queue'[u][j] = x
    BY <1>13, <2>2
  <2>3. CASE j \in 1..Len(queue[u]) /\ queue'[u][j] = queue[u][j] /\ s = t /\ queue'[t][k] = x
    BY <1>13, <2>3 DEF Independent
  <2> QED
    BY <1>6, <1>13, <2>1, <2>2, <2>3
<1>14. RaceFree'
  BY <1>2, <1>3, <1>12, <1>13, SMTT(30) DEF RaceFree
<1> QED
  BY <1>5, <1>9, <1>11, <1>14

\* The oldest operation of a stream finds what it expects, and the others what
\* they expect after it.
LEMMA TakeStep ==
  ASSUME TypesOK, DueOK, WaitsOK, ExpectOK, RaceFree, UNCHANGED config, UNCHANGED <<due, issued>>,
         NEW s \in Streams, queue[s] # <<>>, Head(queue[s]).after <= finished,
         queue' = [queue EXCEPT ![s] = Tail(@)],
         finished' = finished + (IF s = "main" THEN 1 ELSE 0),
         value' = [a \in Arrays |-> value[a] + Adds(Head(queue[s]), a)]
  PROVE  /\ DueOK' /\ WaitsOK' /\ ExpectOK' /\ RaceFree'
         /\ \A a \in Ordered(Head(queue[s]).op) : Head(queue[s]).expect[a] = value[a]
<1> DEFINE x == Head(queue[s])
           place(t, k) == IF t = s THEN k + 1 ELSE k
<1>1. /\ queue \in [Streams -> Seq(Items)] /\ value \in [Arrays -> Nat] /\ due \in [Arrays -> Nat]
      /\ issued \in Nat /\ finished \in Nat /\ finished + Len(queue["main"]) = issued
      /\ "main" \in Streams
  BY DEF TypesOK, Streams
<1>2. /\ queue'[s] = Tail(queue[s]) /\ \A t \in Streams \ {s} : queue'[t] = queue[t]
      /\ due' = due /\ issued' = issued
  BY <1>1
<1>3. /\ \A op : Ordered(op)' = Ordered(op)
      /\ \A y, z : Independent(y, z)' = Independent(y, z)
  BY SameOrder
<1>4. /\ \A t \in Streams : Len(queue[t]) \in Nat /\ queue[t] \in Seq(Items)
      /\ \A t \in Streams : \A k \in 1..Len(queue[t]) : queue[t][k] \in Items
  BY <1>1
<1>5. /\ x \in Items /\ queue[s][1] = x /\ 1 \in 1..Len(queue[s])
      /\ Tail(queue[s]) \in Seq(Items) /\ Len(Tail(queue[s])) = Len(queue[s]) - 1
      /\ \A k \in 1..Len(Tail(queue[s])) : Tail(queue[s])[k] = queue[s][k + 1] /\ k + 1 \in 1..Len(queue[s])
  <2> DEFINE q == queue[s]
  <2>1. q \in Seq(Items) /\ q # <<>>
    BY <1>1
  <2> HIDE DEF q
  <2>2. /\ Head(q) \in Items /\ q[1] = Head(q) /\ Len(q) \in Nat \ {0}
        /\ Tail(q) \in Seq(Items) /\ Len(Tail(q)) = Len(q) - 1
        /\ \A k \in 1..Len(Tail(q)) : Tail(q)[k] = q[k + 1]
    BY <2>1
  <2>3. 1 \in 1..Len(q) /\ \A k \in 1..Len(Tail(q)) : k + 1 \in 1..Len(q)
    BY <2>2
  <2> QED
    BY <2>2, <2>3 DEF q
<1>6. queue' \in [Streams -> Seq(Items)]
  BY <1>1, <1>5
<1>7. /\ x.op \in Ops /\ Ordered(x.op) \subseteq Arrays /\ x.after \in Nat /\ x.after <= finished
      /\ \A a : Adds(x, a) \in Nat
  BY <1>5, ArraysOf DEF Items, Ordered, Adds
<1> HIDE DEF x
<1>8. ASSUME NEW t \in Streams, NEW k \in 1..Len(queue'[t])
      PROVE  place(t, k) \in 1..Len(queue[t]) /\ queue'[t][k] = queue[t][place(t, k)] /\ k \in Nat
  <2>1. k \in Nat
    <3>1. Len(queue'[t]) \in Nat
      BY <1>6
    <3> QED
      BY <3>1
  <2> QED
    BY <1>2, <1>5, <2>1
<1>17. /\ finished \in Int /\ finished' \in Int
       /\ s = "main" => finished' = finished + 1
       /\ s # "main" => finished' = finished
  BY <1>1
<1>9. DueOK'
  <2>1. ASSUME NEW a \in Arrays PROVE due'[a] = value'[a] + InQueues(queue', a)
    <3>1. due[a] = value[a] + InQueues(queue, a)
      BY DEF DueOK
    <3>2. value'[a] = value[a] + Adds(x, a) /\ value[a] \in Nat /\ Adds(x, a) \in Nat
      BY <1>1, <1>7 DEF x
    <3> DEFINE n == Cardinality(Writers(queue[s], a))
               m == Cardinality(Writers(queue'[s], a))
               before == InQueues(queue, a)
               after == InQueues(queue', a)
    <3>3. after = (before - n) + m /\ before \in Nat /\ n \in Nat /\ m \in Nat
      BY <1>1, <1>2, <1>6, QueueChange
    <3>4. n = m + Adds(x, a)
      BY <1>1, <1>2, CountTail DEF x
    <3>5. due'[a] = value[a] + before /\ after = InQueues(queue', a)
      BY <1>2, <3>1
    <3> HIDE DEF n, m, before, after
    <3>6. due'[a] = (value[a] + Adds(x, a)) + after
      BY <3>2, <3>3, <3>4, <3>5
    <3> QED
      BY <3>2, <3>6 DEF after
  <2> QED
    BY <2>1 DEF DueOK
<1>10. WaitsOK'
  <2> SUFFICES ASSUME NEW t \in Streams, NEW k \in 1..Len(queue'[t]) PROVE queue'[t][k].after <= issued
    BY <1>2 DEF WaitsOK
  <2> QED
    BY <1>8 DEF WaitsOK
<1>11. ASSUME NEW t \in Streams, NEW k \in 1..Len(queue'[t]), NEW a \in Ordered(queue'[t][k].op)
       PROVE  queue'[t][k].expect[a] =
                value'[a] + Count(queue'[t], a, k)
                + (IF t = "main" THEN 0 ELSE Count(queue'["main"], a, queue'[t][k].after - finished' + 1))
  <2> DEFINE y == queue[t][place(t, k)]
             c == y.after - finished + 1
  <2>1. /\ queue'[t][k] = y /\ y \in Items /\ y.op \in Ops /\ a \in Ordered(y.op) /\ y.after \in Nat
        /\ k \in Nat /\ k >= 1 /\ place(t, k) \in 1..Len(queue[t])
    <3>1. queue'[t][k] = y /\ place(t, k) \in 1..Len(queue[t])
      BY <1>8
    <3>2. y \in Items
      BY <1>4, <3>1
    <3>3. k \in Nat /\ k >= 1
      <4>1. Len(queue'[t]) \in Nat
        BY <1>6
      <4> QED
        BY <4>1
    <3>4. y.op \in Ops /\ y.after \in Nat
      BY <3>2 DEF Items
    <3> QED
      BY <1>11, <3>1, <3>2, <3>3, <3>4
  <2>2. y.expect[a] = value[a] + Count(queue[t], a, place(t, k))
                      + (IF t = "main" THEN 0 ELSE Count(queue["main"], a, c))
    BY <1>8, <1>11, <2>1 DEF ExpectOK
  <2>3. a \in Arrays
    BY <2>1, ArraysOf DEF Ordered
  <2>4. value'[a] = value[a] + Adds(x, a) /\ value[a] \in Nat /\ Adds(x, a) \in Nat
    BY <1>1, <1>7, <2>3 DEF x
  <2>5. t = s => Count(queue[t], a, place(t, k)) = Count(queue'[t], a, k) + Adds(x, a)
    <3> SUFFICES ASSUME t = s PROVE Count(queue[s], a, k + 1) = Count(queue'[s], a, k) + Adds(x, a)
      OBVIOUS
    <3>1. queue[s] \in Seq(Items) /\ k \in Int /\ k >= 1
      BY <1>4, <2>1
    <3> QED
      BY <1>2, <3>1, CountTail DEF x
  <2>6. t # s => Count(queue[t], a, place(t, k)) = Count(queue'[t], a, k)
    BY <1>2
  <2>7. Count(queue'[t], a, k) \in Nat /\ Count(queue'["main"], a, c - 1) \in Nat
        /\ Count(queue'["main"], a, c) \in Nat
        /\ Count(queue[t], a, place(t, k)) \in Nat /\ Count(queue["main"], a, c) \in Nat
    BY <1>1, <1>4, <1>6, WriterTypes
  <2> DEFINE e == IF s = "main" THEN c - 1 ELSE c
  <2> HIDE DEF y
  <2>8. c \in Int /\ queue'[t][k].after - finished' + 1 = e
    <3>1. c \in Int
      BY <1>1, <2>1
    <3>2. queue'[t][k].after = y.after /\ y.after \in Nat
      BY <2>1
    <3>5. c = y.after - finished + 1
      OBVIOUS
    <3> HIDE DEF c
    <3>3. CASE s = "main"
      <4>1. finished' = finished + 1
        BY <1>17, <3>3
      <4>2. y.after - finished' + 1 = c - 1
        BY <1>17, <3>2, <3>5, <4>1
      <4> QED
        BY <3>1, <3>2, <3>3, <4>2
    <3>4. CASE s # "main"
      <4>1. finished' = finished
        BY <1>17, <3>4
      <4> QED
        BY <3>1, <3>2, <3>4, <3>5, <4>1
    <3> QED
      BY <3>1, <3>3, <3>4
  <2>15. s = "main" => e \in Int /\ e + 1 = c
    BY <2>8
  <2>16. s # "main" => e = c
    OBVIOUS
  <2>13. /\ t = "main" => y.expect[a] = value[a] + Count(queue[t], a, place(t, k))
         /\ t # "main" => y.expect[a] = value[a] + Count(queue[t], a, place(t, k)) + Count(queue["main"], a, c)
    <3> HIDE DEF c, place
    <3>1. CASE t = "main"
      BY <2>2, <2>4, <2>7, <3>1
    <3>2. CASE t # "main"
      BY <2>2, <3>2
    <3> QED
      BY <3>1, <3>2
  <2>14. SUFFICES /\ t = "main" => y.expect[a] = value'[a] + Count(queue'[t], a, k)
                  /\ t # "main" => y.expect[a] = value'[a] + Count(queue'[t], a, k) + Count(queue'["main"], a, e)
    <3> DEFINE E == y.expect[a]
               V == value'[a]
               K == Count(queue'[t], a, k)
               G == Count(queue'["main"], a, e)
    <3>1. /\ queue'[t][k].expect[a] = E /\ V \in Nat /\ K \in Nat
          /\ G = Count(queue'["main"], a, queue'[t][k].after - finished' + 1)
      <4> HIDE DEF e
      <4>1. queue'[t][k].expect[a] = E /\ V \in Nat /\ K \in Nat
        <5>1. V \in Nat
          BY <2>4
        <5>2. K \in Nat
          BY <2>7
        <5>3. queue'[t][k].expect[a] = E
          BY <2>1
        <5> QED
          BY <5>1, <5>2, <5>3
      <4>2. queue'[t][k].after - finished' + 1 = e
        BY <2>8
      <4>3. G = Count(queue'["main"], a, queue'[t][k].after - finished' + 1)
        BY <4>2
      <4> QED
        BY <4>1, <4>3
    <3>2. (t = "main" => E = V + K) /\ (t # "main" => E = V + K + G)
      BY <2>14
    <3> HIDE DEF E, V, K, G
    <3>3. E = V + K + (IF t = "main" THEN 0 ELSE G)
      BY <3>1, <3>2
    <3> QED
      BY <3>1, <3>3 DEF V, K
  <2>17. Count(queue'["main"], a, e) \in Nat
    BY <1>1, <1>6, WriterTypes
  <2> HIDE DEF c, place, e
  <2>9. CASE t = s /\ s = "main"
    BY <2>4, <2>5, <2>7, <2>9, <2>13, SMTT(30)
  <2>10. CASE t # s /\ s = "main"
    <3>1. CASE c >= 2
      <4>1. queue["main"] \in Seq(Items) /\ e \in Int /\ e >= 1 /\ e + 1 = c
        BY <1>1, <1>4, <2>8, <2>10, <2>15, <3>1
      <4>2. Count(queue["main"], a, e + 1) = Count(queue'["main"], a, e) + Adds(x, a)
        <5>1. queue[s] \in Seq(Items) /\ queue[s] # <<>>
          BY <1>4
        <5>2. Count(queue[s], a, e + 1) = Count(Tail(queue[s]), a, e) + Adds(Head(queue[s]), a)
          BY <4>1, <5>1, CountTail
        <5> QED
          BY <1>2, <2>10, <5>2 DEF x
      <4>3. Count(queue["main"], a, c) = Count(queue'["main"], a, e) + Adds(x, a)
        BY <4>1, <4>2
      <4> QED
        BY <2>4, <2>6, <2>7, <2>10, <2>13, <2>17, <4>3
    <3>2. CASE c < 2
      <4>1. a \notin Writes(x.op)
        <5>1. finished + 1 > y.after
          BY <1>1, <2>1, <3>2 DEF c
        <5>2. Independent(y.op, queue["main"][1].op)
          BY <1>5, <2>1, <2>10, <5>1 DEF RaceFree, y
        <5> QED
          BY <1>5, <2>1, <2>10, <5>2 DEF Independent
      <4>2. Adds(x, a) = 0
        BY <4>1 DEF Adds
      <4>3. Count(queue["main"], a, c) = 0
        <5>1. \A j \in 1..Len(queue["main"]) : ~ (j < c)
          BY <1>1, <1>4, <2>8, <3>2
        <5>2. queue["main"] \in Seq(Items)
          BY <1>1, <1>4
        <5> QED
          BY <2>8, <5>1, <5>2, CountNone
      <4>4. Count(queue'["main"], a, e) = 0
        <5>1. queue'["main"] \in Seq(Items) /\ e \in Int /\ e < 1
          BY <1>1, <1>6, <2>8, <2>10, <2>15, <3>2
        <5>2. \A j \in 1..Len(queue'["main"]) : ~ (j < e)
          BY <5>1
        <5> QED
          BY <5>1, <5>2, CountNone
      <4> QED
        BY <2>4, <2>6, <2>7, <2>10, <2>13, <4>2, <4>3, <4>4
    <3> QED
      BY <2>8, <3>1, <3>2
  <2>11. CASE t = s /\ s # "main"
    <3>1. queue'["main"] = queue["main"]
      BY <1>1, <1>2, <2>11
    <3> QED
      BY <2>4, <2>5, <2>7, <2>11, <2>13, <2>16, <3>1, SMTT(30)
  <2>12. CASE t # s /\ s # "main"
    <3>1. queue'["main"] = queue["main"]
      BY <1>1, <1>2, <2>12
    <3>2. place(t, k) = k
      BY <2>12 DEF place
    <3>3. Independent(x.op, y.op)
      <4>1. CASE t = "main"
        <5>1. finished + k > x.after
          BY <1>1, <1>7, <2>1
        <5> QED
          BY <1>5, <2>1, <2>12, <3>2, <4>1, <5>1 DEF RaceFree, y
      <4>2. CASE t # "main"
        BY <1>5, <2>1, <2>12, <3>2, <4>2 DEF RaceFree, y
      <4> QED
        BY <4>1, <4>2
    <3>4. Adds(x, a) = 0
      BY <2>1, <3>3 DEF Independent, Adds
    <3> QED
      BY <2>4, <2>6, <2>7, <2>12, <2>13, <2>16, <3>1, <3>4
  <2> QED
    BY <2>9, <2>10, <2>11, <2>12
<1>12. ExpectOK'
  BY <1>2, <1>3, <1>11 DEF ExpectOK
<1>13. ASSUME NEW t \in Streams \ {"main"}, NEW k \in 1..Len(queue'[t]), NEW j \in 1..Len(queue'["main"]),
              finished' + j > queue'[t][k].after
       PROVE  Independent(queue'[t][k].op, queue'["main"][j].op)
  <2>1. /\ place(t, k) \in 1..Len(queue[t]) /\ queue'[t][k] = queue[t][place(t, k)]
        /\ place("main", j) \in 1..Len(queue["main"]) /\ queue'["main"][j] = queue["main"][place("main", j)]
        /\ j \in Nat
    BY <1>1, <1>8
  <2>2. finished' + j = finished + place("main", j)
    BY <1>1, <2>1
  <2> HIDE DEF place
  <2> QED
    BY <1>13, <2>1, <2>2 DEF RaceFree
<1>14. ASSUME NEW t \in Streams \ {"main"}, NEW u \in Streams \ {"main"}, t # u,
              NEW k \in 1..Len(queue'[t]), NEW j \in 1..Len(queue'[u])
       PROVE  Independent(queue'[t][k].op, queue'[u][j].op)
  <2>1. /\ place(t, k) \in 1..Len(queue[t]) /\ queue'[t][k] = queue[t][place(t, k)]
        /\ place(u, j) \in 1..Len(queue[u]) /\ queue'[u][j] = queue[u][place(u, j)]
    BY <1>8
  <2> HIDE DEF place
  <2> QED
    BY <1>14, <2>1 DEF RaceFree
<1>15. RaceFree'
  BY <1>2, <1>3, <1>13, <1>14 DEF RaceFree
<1>16. ASSUME NEW a \in Ordered(x.op) PROVE x.expect[a] = value[a]
  <2> DEFINE c == x.after - finished + 1
  <2>1. x.expect[a] = value[a] + Count(queue[s], a, 1) + (IF s = "main" THEN 0 ELSE Count(queue["main"], a, c))
    BY <1>5, <1>16 DEF ExpectOK
  <2>2. value[a] \in Nat /\ c \in Int /\ c <= 1
    BY <1>1, <1>7, <1>16
  <2> HIDE DEF c
  <2>3. Count(queue[s], a, 1) = 0
    BY <1>4, CountNone
  <2>4. Count(queue["main"], a, c) = 0
    BY <1>1, <1>4, <2>2, CountNone
  <2> QED
    BY <2>1, <2>2, <2>3, <2>4
<1> QED
  BY <1>9, <1>10, <1>12, <1>15, <1>16 DEF x

\* The caller's copy writes what nothing reads, and nothing orders its read.
LEMMA CopyApart ==
  /\ \A op \in Ops : Independent("copy", op) /\ Independent(op, "copy")
  /\ Ordered("copy") = {} /\ Writes("copy") = {"obs"} /\ "copy" \in Ops
<1>1. \A op \in Ops : "obs" \notin Reads(op) /\ (op # "copy" => "obs" \notin Writes(op))
  BY DEF Ops, Reads, Writes
<1>2. Ordered("copy") = {} /\ Writes("copy") = {"obs"} /\ "copy" \in Ops
  BY DEF Ordered, Unordered, Reads, Writes, Ops
<1> QED
  BY <1>1, <1>2 DEF Independent, Ordered

\* An operation that stream t holds is independent of one that is launched now.
LEMMA QueuedApart ==
  ASSUME TypesOK, OutstandingOK, pc > 0, Current.do = "launch",
         NEW t \in Streams \ {Current.stream, "main"}, NEW k \in 1..Len(queue[t])
  PROVE  Independent(queue[t][k].op, Current.op)
<1>1. /\ Program(mode) \in Seq(Requests) /\ pc \in 1..Len(Program(mode)) /\ Current \in Requests
      /\ Peaceful(Program(mode))
  BY TypedPrograms, ProgramFaithful DEF Faithful
<1>2. Current.op \in Ops /\ queue[t][k].op \in Ops
  <2>1. queue[t][k] \in Items
    BY DEF TypesOK
  <2> QED
    BY <1>1, <2>1 DEF Requests, Launches, Syncs, Items
<1>3. CASE t = "obs"
  BY <1>2, <1>3, CopyApart DEF OutstandingOK
<1>4. CASE t # "obs"
  <2>1. t \in SideStreams
    BY <1>4 DEF Streams, SideStreams
  <2>2. Outstanding(Program(mode), pc, t, queue[t][k].op)
    BY <2>1 DEF OutstandingOK
  <2>3. pc \in Launched(Program(mode))
    BY <1>1 DEF Launched, Current
  <2>4. Independent(Current.op, queue[t][k].op)
    BY <1>1, <1>2, <2>1, <2>2, <2>3 DEF Peaceful, Current
  <2> QED
    BY <2>4 DEF Independent
<1> QED
  BY <1>3, <1>4

\* A step that leaves the device alone.
LEMMA SameDevice ==
  ASSUME UNCHANGED config, UNCHANGED device, DueOK, WaitsOK, ExpectOK, RaceFree, ReadsAsSequential
  PROVE  DueOK' /\ WaitsOK' /\ ExpectOK' /\ RaceFree' /\ ReadsAsSequential'
<1>1. /\ UNCHANGED <<queue, issued, finished, value, due, astray>> /\ UNCHANGED has_flex
      /\ \A op : Ordered(op)' = Ordered(op)
      /\ \A x, y : Independent(x, y)' = Independent(x, y)
  BY SameOrder DEF device, config
<1>2. DueOK' /\ WaitsOK'
  BY <1>1 DEF DueOK, WaitsOK, InQueues, Writers
<1>3. ExpectOK'
  BY <1>1 DEF ExpectOK
<1>4. RaceFree'
  BY <1>1 DEF RaceFree
<1>5. ReadsAsSequential'
  BY <1>1 DEF ReadsAsSequential
<1> QED
  BY <1>2, <1>3, <1>4, <1>5

\* The host works on the main stream and on those that it waits for.
LEMMA HostStreams ==
  ASSUME TypesOK, pc > 0, Current.do = "launch"
  PROVE  Current.stream \in {"main"} \cup SideStreams
<1>1. /\ Program(mode) \in Seq(Requests) /\ pc \in 1..Len(Program(mode)) /\ Current \in Requests
      /\ Closed(Program(mode)) /\ Len(Program(mode)) \in Nat
  BY TypedPrograms DEF ClosedPrograms
<1>2. CASE Current.stream # "main"
  <2>1. PICK j \in pc + 1..Len(Program(mode)) : Synchronizes(Program(mode)[j], Current.stream)
    BY <1>1, <1>2 DEF Closed, Current
  <2>2. Program(mode)[j] \in Requests
    BY <1>1, <2>1
  <2> QED
    BY <2>1, <2>2 DEF Synchronizes, Requests, Launches, Syncs
<1> QED
  BY <1>2

\* What is outstanding stays so until the host waits for its stream.
LEMMA StillOutstanding ==
  ASSUME TypesOK, JoinOK', pc > 0, UNCHANGED config, UNCHANGED mode, Advance,
         NEW s \in SideStreams, queue'[s] # <<>>
  PROVE  /\ pc' = pc + 1 /\ Program(mode)' = Program(mode)
         /\ \A op : Outstanding(Program(mode), pc, s, op) /\ ~ Synchronizes(Current, s) =>
              Outstanding(Program(mode), pc + 1, s, op)
         /\ Current.do = "launch" /\ Current.stream = s =>
              Outstanding(Program(mode), pc + 1, s, Current.op)
<1>1. pc' > 0
  BY DEF JoinOK
<1>2. pc' = pc + 1 /\ Program(mode)' = Program(mode) /\ pc \in Nat
  BY <1>1, SamePrograms, TypedPrograms DEF Advance
<1>3. ASSUME NEW op, Outstanding(Program(mode), pc, s, op), ~ Synchronizes(Current, s)
      PROVE  Outstanding(Program(mode), pc + 1, s, op)
  <2>1. PICK i \in 1..pc - 1 :
          /\ Program(mode)[i].do = "launch" /\ Program(mode)[i].stream = s /\ Program(mode)[i].op = op
          /\ \A m \in i + 1..pc - 1 : ~ Synchronizes(Program(mode)[m], s)
    BY <1>3 DEF Outstanding
  <2>2. \A m \in i + 1..(pc + 1) - 1 : ~ Synchronizes(Program(mode)[m], s)
    BY <1>2, <1>3, <2>1 DEF Current
  <2>3. i \in 1..(pc + 1) - 1
    BY <1>2, <2>1
  <2> QED
    BY <2>1, <2>2, <2>3 DEF Outstanding
<1>4. ASSUME Current.do = "launch", Current.stream = s
      PROVE  Outstanding(Program(mode), pc + 1, s, Current.op)
  <2>1. pc \in 1..(pc + 1) - 1 /\ \A m \in pc + 1..(pc + 1) - 1 : FALSE
    BY <1>2
  <2> QED
    BY <1>4, <2>1 DEF Outstanding, Current
<1> QED
  BY <1>2, <1>3, <1>4

\* The conditions on the side streams, and on the caller's.
LEMMA OutstandingNext ==
  ASSUME \A s \in SideStreams : \A k \in 1..Len(queue'[s]) : Outstanding(Program(mode)', pc', s, queue'[s][k].op),
         \A k \in 1..Len(queue'["obs"]) : queue'["obs"][k].op = "copy"
  PROVE  OutstandingOK'
BY DEF OutstandingOK, Outstanding, Synchronizes

LEMMA CallOrder == OrderInv /\ (\E how \in Modes : Call(how)) => OrderInv'
<1> SUFFICES ASSUME OrderInv, NEW how \in Modes, Call(how) PROVE OrderInv'
  OBVIOUS
<1>1. JoinInv /\ JoinInv' /\ TypesOK /\ JoinOK
  BY CallStep DEF OrderInv, JoinInv
<1>2. UNCHANGED config /\ UNCHANGED device /\ UNCHANGED queue /\ pc = 0
  BY DEF Call, device
<1>3. DueOK' /\ WaitsOK' /\ ExpectOK' /\ RaceFree' /\ ReadsAsSequential'
  BY <1>2, SameDevice DEF OrderInv
<1>4. OutstandingOK'
  <2>1. \A s \in SideStreams : queue'[s] = <<>>
    BY <1>1, <1>2 DEF JoinOK
  <2>2. \A k \in 1..Len(queue'["obs"]) : queue'["obs"][k].op = "copy"
    BY <1>2 DEF OrderInv, OutstandingOK
  <2>3. \A s \in SideStreams : 1..Len(queue'[s]) = {}
    BY <2>1
  <2> QED
    BY <2>2, <2>3, OutstandingNext
<1> QED
  BY <1>1, <1>3, <1>4 DEF OrderInv

LEMMA SynchronizeOrder == OrderInv /\ Synchronize => OrderInv'
<1> SUFFICES ASSUME OrderInv, Synchronize PROVE OrderInv'
  OBVIOUS
<1>1. JoinInv /\ JoinInv' /\ TypesOK /\ JoinOK' /\ OutstandingOK
  BY SynchronizeStep DEF OrderInv, JoinInv
<1>2. /\ UNCHANGED config /\ UNCHANGED device /\ UNCHANGED queue /\ UNCHANGED mode
      /\ pc > 0 /\ Current.do = "synchronize" /\ (~ Capturing => Advance /\ queue[Current.stream] = <<>>)
  BY DEF Synchronize, device
<1>3. DueOK' /\ WaitsOK' /\ ExpectOK' /\ RaceFree' /\ ReadsAsSequential'
  BY <1>2, SameDevice DEF OrderInv
<1>4. ASSUME NEW s \in SideStreams, NEW k \in 1..Len(queue'[s])
      PROVE  Outstanding(Program(mode)', pc', s, queue'[s][k].op)
  <2>1. queue[s] \in Seq(Items) /\ queue[s] # <<>>
    BY <1>1, <1>2, <1>4 DEF TypesOK, SideStreams, Streams
  <2>2. ~ Capturing
    BY <1>1, <2>1 DEF JoinInv, JoinOK
  <2>3. ~ Synchronizes(Current, s)
    BY <1>2, <2>1, <2>2 DEF Synchronizes
  <2>4. Outstanding(Program(mode), pc, s, queue'[s][k].op)
    BY <1>1, <1>2, <1>4 DEF OutstandingOK
  <2> QED
    BY <1>1, <1>2, <2>1, <2>2, <2>3, <2>4, StillOutstanding
<1>5. OutstandingOK'
  <2>1. \A k \in 1..Len(queue'["obs"]) : queue'["obs"][k].op = "copy"
    BY <1>1, <1>2 DEF OutstandingOK
  <2> QED
    BY <1>4, <2>1, OutstandingNext
<1> QED
  BY <1>1, <1>3, <1>5 DEF OrderInv

LEMMA EnqueueOrder == OrderInv /\ Enqueue => OrderInv'
<1> SUFFICES ASSUME OrderInv, Enqueue PROVE OrderInv'
  OBVIOUS
<1>1. JoinInv /\ JoinInv' /\ TypesOK /\ JoinOK /\ JoinOK' /\ OutstandingOK
  BY EnqueueStep DEF OrderInv, JoinInv
<1>2. UNCHANGED config /\ UNCHANGED mode /\ pc > 0 /\ Current.do = "launch" /\ Advance
  BY DEF Enqueue
<1>3. CASE Capturing
  <2>1. UNCHANGED device /\ UNCHANGED queue
    BY <1>3 DEF Enqueue, device
  <2>2. DueOK' /\ WaitsOK' /\ ExpectOK' /\ RaceFree' /\ ReadsAsSequential'
    BY <1>2, <2>1, SameDevice DEF OrderInv
  <2>3. \A s \in SideStreams : 1..Len(queue'[s]) = {}
    <3>1. \A s \in SideStreams : queue'[s] = <<>>
      BY <1>1, <1>3, <2>1 DEF JoinOK
    <3> QED
      BY <3>1
  <2>4. \A k \in 1..Len(queue'["obs"]) : queue'["obs"][k].op = "copy"
    BY <1>1, <2>1 DEF OutstandingOK
  <2>5. OutstandingOK'
    BY <2>3, <2>4, OutstandingNext
  <2> QED
    BY <1>1, <2>2, <2>5 DEF OrderInv
<1>4. CASE ~ Capturing
  <2>1. PICK x \in Items :
          /\ queue' = [queue EXCEPT ![Current.stream] = Append(@, x)]
          /\ x.op = Current.op /\ x.after = (IF Current.stream = "main" THEN 0 ELSE issued)
          /\ \A a \in Ordered(x.op) : x.expect[a] = due[a]
          /\ due' = [a \in Arrays |-> due[a] + Adds(x, a)]
    BY <1>1, <1>4, EnqueueExpects
  <2>2. /\ Current.stream \in Streams /\ issued' = issued + (IF Current.stream = "main" THEN 1 ELSE 0)
        /\ UNCHANGED <<finished, value, astray>>
    BY <1>1, <1>4, EnqueueExpects
  <2>3. \A t \in Streams \ {Current.stream, "main"} : \A k \in 1..Len(queue[t]) :
          Independent(queue[t][k].op, x.op)
    BY <1>1, <1>2, <2>1, QueuedApart
  <2>4. DueOK' /\ WaitsOK' /\ ExpectOK' /\ RaceFree'
    <3> DEFINE s == Current.stream
    <3> HIDE DEF s
    <3>1. /\ s \in Streams /\ x.after = (IF s = "main" THEN 0 ELSE issued)
          /\ queue' = [queue EXCEPT ![s] = Append(@, x)]
          /\ issued' = issued + (IF s = "main" THEN 1 ELSE 0)
          /\ \A t \in Streams \ {s, "main"} : \A k \in 1..Len(queue[t]) : Independent(queue[t][k].op, x.op)
      BY <2>1, <2>2, <2>3 DEF s
    <3>2. DueOK /\ WaitsOK /\ ExpectOK /\ RaceFree
      BY DEF OrderInv
    <3> QED
      BY <1>1, <1>2, <2>1, <2>2, <3>1, <3>2, PutStep
  <2>5. ReadsAsSequential'
    BY <1>2, <2>2 DEF OrderInv, ReadsAsSequential, config
  <2>6. Current.stream \in {"main"} \cup SideStreams
    BY <1>1, <1>2, HostStreams
  <2>7. queue \in [Streams -> Seq(Items)] /\ SideStreams \subseteq Streams /\ "obs" \in Streams
        /\ "obs" \notin {"main"} \cup SideStreams
    BY <1>1 DEF TypesOK, SideStreams, Streams
  <2>8. ASSUME NEW s \in SideStreams, NEW k \in 1..Len(queue'[s])
        PROVE  Outstanding(Program(mode)', pc', s, queue'[s][k].op)
    <3>1. queue'[s] \in Seq(Items) /\ queue'[s] # <<>>
      <4>1. Items' = Items
        BY <1>2, SamePrograms
      <4>2. queue'[s] \in Seq(Items)
        BY <1>1, <2>7, <4>1 DEF JoinInv, TypesOK
      <4>3. Len(queue'[s]) > 0
        BY <2>8, <4>2
      <4> QED
        BY <4>2, <4>3
    <3>2. ~ Synchronizes(Current, s)
      BY <1>2 DEF Synchronizes
    <3>3. CASE Current.stream = s /\ k = Len(queue[s]) + 1
      <4>1. queue'[s][k] = x
        BY <2>1, <2>7, <3>3
      <4> QED
        BY <1>1, <1>2, <2>1, <3>1, <3>3, <4>1, StillOutstanding
    <3>4. CASE ~ (Current.stream = s /\ k = Len(queue[s]) + 1)
      <4>1. k \in 1..Len(queue[s]) /\ queue'[s][k] = queue[s][k]
        <5>1. CASE Current.stream # s
          BY <2>1, <2>7, <5>1
        <5>2. CASE Current.stream = s
          <6>1. queue'[s] = Append(queue[s], x) /\ queue[s] \in Seq(Items)
            BY <2>1, <2>7, <5>2
          <6> QED
            BY <3>4, <5>2, <6>1
        <5> QED
          BY <5>1, <5>2
      <4>2. Outstanding(Program(mode), pc, s, queue'[s][k].op)
        BY <1>1, <4>1 DEF OutstandingOK
      <4> QED
        BY <1>1, <1>2, <3>1, <3>2, <4>2, StillOutstanding
    <3> QED
      BY <3>3, <3>4
  <2>9. \A k \in 1..Len(queue'["obs"]) : queue'["obs"][k].op = "copy"
    <3>1. queue'["obs"] = queue["obs"]
      BY <2>1, <2>6, <2>7
    <3> QED
      BY <1>1, <3>1 DEF OutstandingOK
  <2>10. OutstandingOK'
    BY <2>8, <2>9, OutstandingNext
  <2> QED
    BY <1>1, <2>4, <2>5, <2>10 DEF OrderInv
<1> QED
  BY <1>3, <1>4

LEMMA ObserveOrder == OrderInv /\ Observe => OrderInv'
<1> SUFFICES ASSUME OrderInv, Observe PROVE OrderInv'
  OBVIOUS
<1>1. JoinInv /\ JoinInv' /\ TypesOK /\ OutstandingOK
  BY ObserveStep DEF OrderInv, JoinInv
<1>2. /\ UNCHANGED config /\ UNCHANGED <<steps, mode, pc, refused>> /\ pc = 0
      /\ UNCHANGED <<issued, finished, value, astray>>
  BY DEF Observe, host
<1> DEFINE x == Item("obs", "copy", [a \in {"qpos"} |-> due[a]])
<1>3. x.op = "copy" /\ x.after = issued /\ x.op \in Ops
  BY CopyApart DEF Item
<1>4. x \in Items
  <2>1. Reads("copy") = {"qpos"}
    BY DEF Reads
  <2>2. due["qpos"] \in Int
    BY <1>1 DEF TypesOK, Arrays
  <2>3. [a \in {"qpos"} |-> due[a]] \in [Reads("copy") -> Int]
    BY <2>1, <2>2
  <2> QED
    BY <1>1, <2>3, CopyApart DEF Items, Item, TypesOK
<1>5. queue' = [queue EXCEPT !["obs"] = Append(@, x)] /\ due' = [due EXCEPT !["obs"] = @ + 1]
  BY DEF Observe
<1> HIDE DEF x
<1>6. /\ queue \in [Streams -> Seq(Items)] /\ due \in [Arrays -> Nat] /\ "obs" \in Streams
      /\ "obs" # "main" /\ "obs" \notin SideStreams /\ SideStreams \subseteq Streams /\ issued \in Nat
  BY <1>1 DEF TypesOK, Streams, SideStreams
<1>7. DueOK' /\ WaitsOK' /\ ExpectOK' /\ RaceFree'
  <2>1. due' = [a \in Arrays |-> due[a] + Adds(x, a)]
    <3>1. \A a : Adds(x, a) = IF a = "obs" THEN 1 ELSE 0
      BY <1>3, CopyApart DEF Adds
    <3>2. \A a \in Arrays : due'[a] = due[a] + Adds(x, a)
      BY <1>5, <1>6, <3>1
    <3>3. due' \in [Arrays -> Nat] /\ due' = [a \in Arrays |-> due'[a]]
      BY <1>1 DEF JoinInv, TypesOK
    <3> QED
      BY <3>2, <3>3
  <2>2. issued' = issued + (IF "obs" = "main" THEN 1 ELSE 0)
    BY <1>2, <1>6
  <2>3. \A a \in Ordered(x.op) : x.expect[a] = due[a]
    BY <1>3, CopyApart
  <2>4. \A t \in Streams \ {"obs", "main"} : \A k \in 1..Len(queue[t]) : Independent(queue[t][k].op, x.op)
    <3>1. ASSUME NEW t \in Streams, NEW k \in 1..Len(queue[t]) PROVE queue[t][k].op \in Ops
      <4>1. queue[t][k] \in Items
        BY <1>6, <3>1
      <4> QED
        BY <4>1 DEF Items
    <3> QED
      BY <1>3, <3>1, CopyApart
  <2>5. DueOK /\ WaitsOK /\ ExpectOK /\ RaceFree
    BY DEF OrderInv
  <2>6. x.after = (IF "obs" = "main" THEN 0 ELSE issued)
    BY <1>3, <1>6
  <2> QED
    BY <1>1, <1>2, <1>4, <1>5, <1>6, <2>1, <2>2, <2>3, <2>4, <2>5, <2>6, PutStep
<1>8. ReadsAsSequential'
  BY <1>2 DEF OrderInv, ReadsAsSequential, config
<1>9. OutstandingOK'
  <2>1. Program(mode)' = Program(mode)
    BY <1>2, SamePrograms
  <2>2. \A s \in SideStreams : queue'[s] = queue[s]
    BY <1>5, <1>6
  <2>3. \A s \in SideStreams : \A k \in 1..Len(queue'[s]) : Outstanding(Program(mode)', pc', s, queue'[s][k].op)
    BY <1>1, <1>2, <2>1, <2>2 DEF OutstandingOK
  <2>4. \A k \in 1..Len(queue'["obs"]) : queue'["obs"][k].op = "copy"
    <3>1. queue'["obs"] = Append(queue["obs"], x) /\ queue["obs"] \in Seq(Items)
      BY <1>5, <1>6
    <3>2. \A k \in 1..Len(queue["obs"]) : queue["obs"][k].op = "copy"
      BY <1>1 DEF OutstandingOK
    <3> QED
      BY <1>3, <1>4, <3>1, <3>2
  <2> QED
    BY <2>3, <2>4, OutstandingNext
<1> QED
  BY <1>1, <1>7, <1>8, <1>9 DEF OrderInv

\* An operation that runs finds what it expects, but for the reads that
\* nothing orders.
LEMMA ReadsKept ==
  ASSUME TypesOK, UNCHANGED config, ReadsAsSequential, NEW s \in Streams, Run(s),
         \A a \in Ordered(Head(queue[s]).op) : Head(queue[s]).expect[a] = value[a]
  PROVE  ReadsAsSequential'
<1> DEFINE x == Head(queue[s])
           allowed == (IF has_flex THEN {<<"collision", "flexvert">>} ELSE {}) \cup {<<"copy", "qpos">>}
<1>1. astray' = astray \cup {<<x.op, a>> : a \in {b \in Reads(x.op) : value[b] # x.expect[b]}}
  BY DEF Run
<1>2. ASSUME NEW a \in Reads(x.op), value[a] # x.expect[a] PROVE <<x.op, a>> \in allowed
  <2>1. a \notin Ordered(x.op)
    BY <1>2
  <2>2. <<x.op, a>> \in Unordered
    BY <1>2, <2>1 DEF Ordered
  <2>3. <<x.op, a>> = <<"collision", "flexvert">> => has_flex
    <3>1. ~ has_flex => "flexvert" \notin Reads("collision")
      BY DEF Reads
    <3> QED
      BY <1>2, <3>1
  <2> QED
    BY <2>2, <2>3 DEF Unordered
<1>3. astray \subseteq allowed /\ has_flex' = has_flex
  BY DEF ReadsAsSequential, config
<1> HIDE DEF x
<1>4. astray' \subseteq allowed
  BY <1>1, <1>2, <1>3
<1> QED
  BY <1>3, <1>4 DEF ReadsAsSequential

LEMMA RunOrder == OrderInv /\ (\E s \in Streams : Run(s)) => OrderInv'
<1> SUFFICES ASSUME OrderInv, NEW s \in Streams, Run(s) PROVE OrderInv'
  OBVIOUS
<1>1. JoinInv /\ JoinInv' /\ TypesOK /\ OutstandingOK
  BY RunStep DEF OrderInv, JoinInv
<1>2. /\ UNCHANGED config /\ UNCHANGED <<steps, mode, pc, refused>> /\ UNCHANGED <<issued, due>>
      /\ finished' = finished + (IF s = "main" THEN 1 ELSE 0)
      /\ queue' = [queue EXCEPT ![s] = Tail(@)]
      /\ queue[s] # <<>> /\ Head(queue[s]).after <= finished
  BY DEF Run, host
<1>3. value' = [a \in Arrays |-> value[a] + Adds(Head(queue[s]), a)]
  BY DEF Run, Adds
<1>4. /\ DueOK' /\ WaitsOK' /\ ExpectOK' /\ RaceFree'
      /\ \A a \in Ordered(Head(queue[s]).op) : Head(queue[s]).expect[a] = value[a]
  <2>1. DueOK /\ WaitsOK /\ ExpectOK /\ RaceFree
    BY DEF OrderInv
  <2> QED
    BY <1>1, <1>2, <1>3, <2>1, TakeStep
<1>5. ReadsAsSequential'
  BY <1>1, <1>2, <1>4, ReadsKept DEF OrderInv
<1>6. \A t \in Streams : \A k \in 1..Len(queue'[t]) : \E j \in 1..Len(queue[t]) : queue'[t][k] = queue[t][j]
  <2> SUFFICES ASSUME NEW t \in Streams, NEW k \in 1..Len(queue'[t])
               PROVE  \E j \in 1..Len(queue[t]) : queue'[t][k] = queue[t][j]
    OBVIOUS
  <2>1. queue \in [Streams -> Seq(Items)] /\ queue[t] \in Seq(Items)
    BY <1>1 DEF TypesOK
  <2>2. CASE t = s
    <3>1. queue'[t] = Tail(queue[t]) /\ queue[t] # <<>>
      BY <1>2, <2>1, <2>2
    <3>2. k + 1 \in 1..Len(queue[t]) /\ Tail(queue[t])[k] = queue[t][k + 1]
      BY <2>1, <3>1
    <3> QED
      BY <3>1, <3>2
  <2>3. CASE t # s
    BY <1>2, <2>1, <2>3
  <2> QED
    BY <2>2, <2>3
<1>7. OutstandingOK'
  <2>1. SideStreams \subseteq Streams /\ "obs" \in Streams
    BY DEF Streams, SideStreams
  <2>2. Program(mode)' = Program(mode)
    BY <1>2, SamePrograms
  <2>3. \A t \in SideStreams : \A k \in 1..Len(queue'[t]) : Outstanding(Program(mode)', pc', t, queue'[t][k].op)
    BY <1>1, <1>2, <1>6, <2>1, <2>2 DEF OutstandingOK
  <2>4. \A k \in 1..Len(queue'["obs"]) : queue'["obs"][k].op = "copy"
    BY <1>1, <1>6, <2>1 DEF OutstandingOK
  <2> QED
    BY <2>3, <2>4, OutstandingNext
<1> QED
  BY <1>1, <1>4, <1>5, <1>7 DEF OrderInv

LEMMA RestOrder == OrderInv /\ UNCHANGED vars => OrderInv'
<1> SUFFICES ASSUME OrderInv, UNCHANGED vars PROVE OrderInv'
  OBVIOUS
<1>1. JoinInv /\ JoinInv'
  BY RestStep DEF OrderInv
<1>2. UNCHANGED config /\ UNCHANGED device /\ UNCHANGED <<queue, mode, pc>>
  BY DEF vars, host, device
<1>3. DueOK' /\ WaitsOK' /\ ExpectOK' /\ RaceFree' /\ ReadsAsSequential'
  BY <1>2, SameDevice DEF OrderInv
<1>4. OutstandingOK'
  <2>1. Program(mode)' = Program(mode)
    BY <1>2, SamePrograms
  <2> QED
    BY <1>2, <2>1, OutstandingNext DEF OrderInv, OutstandingOK
<1> QED
  BY <1>1, <1>3, <1>4 DEF OrderInv

LEMMA InitOrder == Init => OrderInv
<1> SUFFICES ASSUME Init PROVE OrderInv
  OBVIOUS
<1>1. JoinInv
  BY InitTypes
<1>2. /\ \A s \in Streams : queue[s] = <<>> /\ Len(queue[s]) = 0
      /\ SideStreams \subseteq Streams /\ "obs" \in Streams
  BY DEF Init, Streams, SideStreams
<1>3. \A s \in Streams : 1..Len(queue[s]) = {}
  BY <1>2
<1>4. DueOK
  <2>1. ASSUME NEW a \in Arrays PROVE InQueues(queue, a) = 0
    <3>1. \A s \in Streams : Cardinality(Writers(queue[s], a)) = 0
      BY <1>3, FS_EmptySet DEF Writers
    <3> QED
      BY <3>1 DEF InQueues, Streams
  <2> QED
    BY <2>1 DEF Init, DueOK
<1>5. WaitsOK /\ ExpectOK /\ OutstandingOK
  BY <1>2, <1>3 DEF WaitsOK, ExpectOK, OutstandingOK
<1>6. RaceFree
  BY <1>3 DEF RaceFree
<1>7. ReadsAsSequential
  BY DEF Init, ReadsAsSequential
<1> QED
  BY <1>1, <1>4, <1>5, <1>6, <1>7 DEF OrderInv

\* The writes that are queued before an operation are those that it should
\* find when it runs, and of two operations that may run in either order
\* neither writes what the other reads or writes.
THEOREM OrderInductive == Spec => []OrderInv
<1>1. OrderInv /\ [Next]_vars => OrderInv'
  BY CallOrder, EnqueueOrder, SynchronizeOrder, ObserveOrder, RunOrder, RestOrder DEF Next, Rest
<1> QED
  BY <1>1, InitOrder, PTL DEF Spec

\* However the streams are scheduled, every function of a step reads what it
\* would read if the functions ran one after the other, for any number of
\* iterations and of steps; the vertices of flexes in collision detection and
\* the caller's copy are left out.
THEOREM ReadsInOrder == Spec => []ReadsAsSequential
<1>1. OrderInv => ReadsAsSequential
  BY DEF OrderInv
<1> QED
  BY <1>1, OrderInductive, PTL

\* No two functions of a step that the streams may run in either order touch an
\* array that one of them writes, the same two reads left out.
THEOREM NoDataRace == Spec => []RaceFree
<1>1. OrderInv => RaceFree
  BY DEF OrderInv
<1> QED
  BY <1>1, OrderInductive, PTL
=============================================================================

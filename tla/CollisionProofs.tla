---------------------------- MODULE CollisionProofs ----------------------------
(***************************************************************************)
(* Proofs about Collision for every geometry, routing table and capacity.  *)
(*                                                                         *)
(* The counter of pairs is the number of candidates examined although it   *)
(* runs past the list, so a narrowphase thread that passes the test        *)
(* against it finds a pair of this step, and a reported overflow is one.   *)
(*                                                                         *)
(* A step records no contact twice, none of an earlier step and none that  *)
(* is not there: a pair is listed once, only one kernel takes it although  *)
(* steps with NATIVECCD disabled change the routing for good, and a thread *)
(* records its points one by one.                                          *)
(*                                                                         *)
(* A step which searched for pairs and printed nothing has lost no         *)
(* contact, and every message has a cause.                                 *)
(***************************************************************************)
EXTENDS CollisionLossInv, FiniteSetTheorems, TLAPS

-----------------------------------------------------------------------------
(* The kernels and their threads.                                          *)

LEMMA KernelOrder ==
  /\ DOMAIN Following = {"broad", "flex"} \cup Kernels
  /\ \A k \in DOMAIN Following \ {"flex"} : Following[k] \in {"flex"} \cup Kernels
  /\ Following["flex"] = "step"
BY DEF Following, Kernels

LEMMA ThreadsOf ==
  /\ Threads("broad") = Examined
  /\ \A k \in Kernels : Threads(k) = Slots
  /\ Threads("flex") = Elements
BY DEF Threads, Kernels

\* No list is longer than Limits.
LEMMA SlotsInLimits == naconmax \in NaconMaxes => Slots \subseteq Limits
<1> DEFINE P(n) == n \in NaconMaxes /\ \A k \in NaconMaxes : k <= n
           max == CHOOSE n \in NaconMaxes : \A k \in NaconMaxes : k <= n
<1>1. max \in NaconMaxes /\ \A k \in NaconMaxes : k <= max
  BY SizesAssumption
<1>2. ASSUME naconmax \in NaconMaxes, NEW s \in Slots
      PROVE  s \in 0..max - 1
  <2>1. naconmax <= max /\ naconmax \in Nat /\ max \in Nat
    BY <1>1, <1>2, SizesAssumption
  <2> HIDE DEF max
  <2> QED
    BY <2>1, <1>2 DEF Slots
<1> QED
  BY <1>2 DEF Limits

LEMMA CandidatesFinite ==
  ASSUME pose \in Poses
  PROVE  /\ Examined \subseteq Pairs
         /\ Candidates \subseteq Pairs /\ IsFiniteSet(Candidates)
         /\ Cardinality(Candidates) \in 0..Cardinality(Pairs)
<1>1. Examined \subseteq Pairs
  BY GeometryAssumption DEF Examined
<1>2. Candidates \subseteq Pairs
  BY <1>1 DEF Candidates
<1> QED
  BY <1>1, <1>2, GeometryAssumption, FS_Subset, FS_CardinalityType

-----------------------------------------------------------------------------
LEMMA InitInv == Init => ListInv
<1> SUFFICES ASSUME Init PROVE ListInv
  OBVIOUS
<1>1. TypeOK
  <2>1. 0 \in 0..Cardinality(Pairs)
    BY GeometryAssumption, FS_CardinalityType
  <2> QED
    BY <2>1 DEF Init, TypeOK
<1>2. ModeOK /\ CountOK /\ ListOK /\ LeftOK /\ ReportOK
  BY KernelOrder DEF Init, ModeOK, CountOK, ListOK, LeftOK, ReportOK, Detecting, Kernels
<1> QED
  BY <1>1, <1>2 DEF ListInv

\* What the pose and the broadphase determine does not change within a step.
LEMMA SameGeometry ==
  UNCHANGED <<config, setting>> =>
    /\ UNCHANGED <<Examined, Candidates, Slots>>
    /\ \A p : Candidate(p)' <=> Candidate(p)
BY DEF config, setting, Examined, Candidates, Candidate, Slots

-----------------------------------------------------------------------------
(* The host.                                                               *)

LEMMA DisabledInv == ListInv /\ CollisionDisabled => ListInv'
<1> SUFFICES ASSUME ListInv, CollisionDisabled PROVE ListInv'
  OBVIOUS
<1> USE DEF CollisionDisabled, Idle, config, setting, globals
<1>1. TypeOK'
  BY DEF ListInv, TypeOK
<1>2. (ModeOK /\ CountOK /\ ListOK /\ ReportOK)'
  BY KernelOrder DEF Detecting, ModeOK, CountOK, ListOK, ReportOK, Kernels
<1>3. LeftOK'
  <2>1. \A w \in Writers \ Elements : ~(left[w] > 0)
    BY DEF ListInv, LeftOK, Kernels
  <2> QED
    BY <2>1 DEF LeftOK, Writers
<1> QED
  BY <1>1, <1>2, <1>3 DEF ListInv

LEMMA StartsEmpty ==
  \A k : Start(k) => /\ ran' = {} /\ left' \in [Writers -> Nat] /\ kernel' = k
                     /\ LeftOK'
BY DEF Start, LeftOK, Writers

LEMMA TableType ==
  TypeOK /\ NarrowphaseTable =>
    /\ table' \in {"convex", "primitive"} /\ primitive_types' \subseteq Types
    /\ nccd' \in [Types -> Nat]
BY DEF TypeOK, NarrowphaseTable

LEMMA SearchedInv == ListInv /\ CollisionSearched => ListInv'
<1> SUFFICES ASSUME ListInv, CollisionSearched PROVE ListInv'
  OBVIOUS
<1> USE DEF config, setting
<1>1. Start("broad") /\ ncollision' = 0 /\ nacon' = 0 /\ NarrowphaseTable
  BY DEF CollisionSearched, ZeroCounters
<1>2. 0 \in 0..Cardinality(Pairs)
  BY GeometryAssumption, FS_CardinalityType
<1>3. TypeOK'
  <2>1. TypeOK
    BY DEF ListInv
  <2>2. kernel' \in {"idle", "step"} \cup DOMAIN Following
    BY <1>1, StartsEmpty, KernelOrder
  <2> QED
    BY <1>1, <1>2, <2>1, <2>2, TableType, StartsEmpty DEF CollisionSearched, TypeOK
<1>4. ModeOK' /\ ReportOK'
  BY <1>1, StartsEmpty DEF CollisionSearched, ModeOK, ReportOK
<1>5. CountOK'
  <2>1. {p \in ran' : Candidate(p)'} = {}
    BY <1>1, StartsEmpty
  <2> QED
    BY <1>1, <2>1, StartsEmpty, FS_EmptySet DEF CollisionSearched, CountOK
<1>6. ListOK'
  BY <1>1 DEF ListOK, Slots
<1> QED
  BY <1>1, <1>3, <1>4, <1>5, <1>6, StartsEmpty DEF ListInv

LEMMA CachedInv == ListInv /\ CollisionCached => ListInv'
<1> SUFFICES ASSUME ListInv, CollisionCached PROVE ListInv'
  OBVIOUS
<1> USE DEF config, setting
<1>1. Start("convex") /\ ncollision' = 0 /\ nacon' = 0 /\ NarrowphaseTable
  BY DEF CollisionCached, ZeroCounters
<1>2. 0 \in 0..Cardinality(Pairs)
  BY GeometryAssumption, FS_CardinalityType
<1>3. TypeOK'
  <2>1. TypeOK
    BY DEF ListInv
  <2>2. kernel' \in {"idle", "step"} \cup DOMAIN Following
    BY <1>1, StartsEmpty, KernelOrder DEF Kernels
  <2> QED
    BY <1>1, <1>2, <2>1, <2>2, TableType, StartsEmpty DEF CollisionCached, TypeOK
<1>4. ModeOK' /\ ReportOK' /\ CountOK'
  BY <1>1, StartsEmpty DEF CollisionCached, ModeOK, ReportOK, CountOK
<1>5. ListOK'
  BY <1>1 DEF ListOK, Slots
<1> QED
  BY <1>1, <1>3, <1>4, <1>5, StartsEmpty DEF ListInv

-----------------------------------------------------------------------------
(* The device.                                                             *)

\* A thread that has not begun adds one to the count of candidates, or nothing.
LEMMA OneMore ==
  ASSUME ListInv, NEW p \in Pairs, Begin("broad", p)
  PROVE  Cardinality({q \in ran' : Candidate(q)})
           = IF Candidate(p) THEN ncollision + 1 ELSE ncollision
<1> DEFINE before == {q \in ran : Candidate(q)}
<1>1. /\ p \in Examined /\ p \notin ran /\ ran' = ran \cup {p}
  BY ThreadsOf DEF Begin
<1>2. ran \subseteq Examined /\ ncollision = Cardinality(before)
  BY DEF Begin, ListInv, CountOK
<1>3. IsFiniteSet(before)
  <2>1. before \subseteq Pairs
    BY <1>2, CandidatesFinite DEF ListInv, TypeOK
  <2> QED
    BY <2>1, GeometryAssumption, FS_Subset
<1>4. CASE Candidate(p)
  <2>1. {q \in ran' : Candidate(q)} = before \cup {p} /\ p \notin before
    BY <1>1, <1>4
  <2> QED
    BY <2>1, <1>2, <1>3, <1>4, FS_AddElement
<1>5. CASE ~Candidate(p)
  <2>1. {q \in ran' : Candidate(q)} = before
    BY <1>1, <1>5
  <2> QED
    BY <2>1, <1>2, <1>5
<1> QED
  BY <1>4, <1>5

LEMMA BroadphaseInv ==
  ASSUME ListInv, NEW p \in Pairs, BroadphaseThread(p)
  PROVE  ListInv'
<1>1. kernel = "broad" /\ p \in Examined /\ ran' = ran \cup {p}
  BY ThreadsOf DEF BroadphaseThread, Begin
<1>2. UNCHANGED <<config, setting, globals, nacon, contact, nccd, cached, kernel, left,
                  reports, mode>>
  BY DEF BroadphaseThread
<1>3. UNCHANGED <<Examined, Candidates, Slots>> /\ \A q : Candidate(q)' <=> Candidate(q)
  BY <1>2, SameGeometry
<1>4. ran' \subseteq Examined /\ ncollision' = Cardinality({q \in ran' : Candidate(q)})
  BY <1>1, OneMore DEF BroadphaseThread, ListInv, CountOK
<1>5. /\ ncollision \in Nat /\ naconmax \in Nat /\ Slots \subseteq Limits
      /\ left \in [Writers -> Nat]
  BY SizesAssumption, SlotsInLimits, FS_CardinalityType, GeometryAssumption DEF ListInv, TypeOK
<1>6. TypeOK'
  <2>1. {q \in ran' : Candidate(q)} \subseteq Pairs
    BY <1>1, <1>4, CandidatesFinite DEF ListInv, TypeOK
  <2>2. ncollision' \in 0..Cardinality(Pairs)
    BY <2>1, <1>4, GeometryAssumption, FS_Subset, FS_CardinalityType
  <2>3. collision_pair' \in [Limits -> Pairs \cup {Unwritten}]
    BY DEF BroadphaseThread, ListInv, TypeOK
  <2>4. TypeOK
    BY DEF ListInv
  <2> QED
    BY <1>1, <1>2, <2>2, <2>3, <2>4 DEF TypeOK, config, setting, globals, Limits, Writers
<1>7. ModeOK'
  BY <1>2 DEF ListInv, ModeOK, Detecting
<1>8. CountOK'
  <2>1. mode' = "searched" /\ kernel' = "broad"
    BY <1>1, <1>2 DEF ListInv, ModeOK
  <2>2. {q \in ran' : Candidate(q)'} = {q \in ran' : Candidate(q)}
    BY <1>3
  <2> QED
    BY <2>1, <2>2, <1>3, <1>4 DEF CountOK
<1>9. ListOK'
  <2> SUFFICES ASSUME NEW s \in Slots, s < ncollision'
               PROVE  collision_pair'[s] \in Candidates
    BY <1>3 DEF ListOK
  <2>0. s \in Nat /\ s < naconmax /\ s \in Limits
    BY <1>5 DEF Slots
  <2>1. CASE s < ncollision
    <3>1. collision_pair[s] \in Candidates
      BY <1>1, <2>1, KernelOrder DEF ListInv, ListOK, Detecting
    <3>2. collision_pair'[s] = collision_pair[s]
      BY <2>0, <2>1, <1>5 DEF BroadphaseThread, ListInv, TypeOK
    <3> QED
      BY <3>1, <3>2
  <2>2. CASE ~(s < ncollision)
    <3>1. Candidate(p) /\ s = ncollision
      BY <2>0, <2>2, <1>5 DEF BroadphaseThread
    <3>2. collision_pair'[s] = p
      BY <2>0, <3>1, <1>5 DEF BroadphaseThread, ListInv, TypeOK
    <3> QED
      BY <1>1, <3>1, <3>2 DEF Candidates
  <2> QED
    BY <2>1, <2>2
<1>10. LeftOK'
  <2>1. \A w \in Writers \ Elements : ~(left[w] > 0)
    BY <1>1 DEF ListInv, LeftOK, Kernels
  <2> QED
    BY <2>1, <1>2 DEF LeftOK, Writers, Limits
<1>11. ReportOK'
  BY <1>1, <1>2 DEF ListInv, ReportOK, Idle
<1> QED
  BY <1>6, <1>7, <1>8, <1>9, <1>10, <1>11 DEF ListInv

\* A step of the device that leaves counter, list, mode and settings alone.
LEMMA ListFrame ==
  ASSUME ListInv, kernel # "broad", kernel' = kernel,
         UNCHANGED <<config, setting, ncollision, collision_pair, mode>>,
         reports' \subseteq reports \cup {"ccd", "hfield"}
  PROVE  ModeOK' /\ CountOK' /\ ListOK' /\ ReportOK'
<1>1. UNCHANGED <<Examined, Candidates, Slots>>
  BY SameGeometry
<1>2. ModeOK' /\ CountOK' /\ ListOK'
  BY <1>1 DEF ListInv, ModeOK, CountOK, ListOK, Detecting
<1>3. "broadphase" \in reports' => "broadphase" \in reports
  OBVIOUS
<1>4. ReportOK'
  BY <1>3 DEF ListInv, ReportOK, Idle, config
<1> QED
  BY <1>2, <1>4

\* A thread finds some of the points of its pair, if not all of them.
Turns(s) == \E k \in 0..Points[collision_pair[s]] : Finds(s, k)

LEMMA WorksTurns ==
  ASSUME ListInv, NEW s, kernel \in Kernels, s \in Slots, Listed(s), Works(s) \/ WorksInPart(s)
  PROVE  Turns(s)
<1>1. collision_pair[s] \in Pairs
  BY KernelOrder, CandidatesFinite DEF ListInv, ListOK, Detecting, Listed, TypeOK
<1>2. Points[collision_pair[s]] \in 0..Points[collision_pair[s]]
  BY <1>1, ModelAssumption
<1> QED
  BY <1>2 DEF Turns, Works, WorksInPart

\* A thread with a pair is given a number of contacts to write.
LEMMA WorksOK ==
  ASSUME ListInv, NEW s, kernel \in Kernels, s \in Slots, Listed(s), Turns(s),
         UNCHANGED <<config, kernel, ncollision>>
  PROVE  left' \in [Writers -> Nat] /\ LeftOK'
<1>1. collision_pair[s] \in Pairs
  BY KernelOrder, CandidatesFinite DEF ListInv, ListOK, Detecting, Listed, TypeOK
<1>2. Points[collision_pair[s]] \in Nat
  BY <1>1, ModelAssumption
<1>3. left \in [Writers -> Nat]
  BY DEF ListInv, TypeOK
<1>0. PICK k \in 0..Points[collision_pair[s]] : Finds(s, k)
  BY DEF Turns
<1>4. left' \in [Writers -> Nat]
  <2>1. k \in Nat
    BY <1>2
  <2> QED
    BY <1>0, <1>3, <2>1 DEF Finds
<1>5. ASSUME NEW w \in Writers \ Elements, left'[w] > 0
      PROVE  kernel \in Kernels /\ w \in Slots /\ w < ncollision
  <2>1. CASE w = s
    BY <2>1 DEF Listed
  <2>2. CASE w # s
    BY <1>0, <2>2, <1>3, <1>5 DEF Finds, ListInv, LeftOK
  <2> QED
    BY <2>1, <2>2
<1>6. UNCHANGED Slots
  BY DEF config, Slots
<1> QED
  BY <1>4, <1>5, <1>6 DEF LeftOK, Writers, Limits

LEMMA NarrowphaseInv ==
  ASSUME ListInv, NEW s \in Limits, NarrowphaseThread(s)
  PROVE  ListInv'
<1>1. kernel \in Kernels /\ s \in Slots /\ ran' = ran \cup {s}
  BY ThreadsOf DEF NarrowphaseThread, Begin, Kernels
<1>2. UNCHANGED <<config, setting, globals, ncollision, nacon, contact, collision_pair,
                  cached, kernel, mode, nccd, reports>>
  BY DEF NarrowphaseThread, Idles
<1>3. ModeOK' /\ CountOK' /\ ListOK' /\ ReportOK'
  BY <1>1, <1>2, ListFrame DEF Kernels
<1>4. left' \in [Writers -> Nat] /\ LeftOK'
  <2>1. CASE UNCHANGED left
    BY <2>1, <1>2 DEF ListInv, TypeOK, LeftOK, config, Slots, Writers, Limits
  <2>2. CASE Listed(s) /\ Works(s)
    BY <2>2, <1>1, <1>2, WorksOK, WorksTurns
  <2> QED
    BY <2>1, <2>2 DEF NarrowphaseThread, Idles
<1>5. TypeOK'
  BY <1>1, <1>2, <1>4 DEF ListInv, TypeOK, config, setting, globals, Limits, Writers
<1> QED
  BY <1>3, <1>4, <1>5 DEF ListInv

LEMMA ConvexInv ==
  ASSUME ListInv, NEW s \in Limits, ConvexThread(s)
  PROVE  ListInv'
<1>1. kernel = "convex" /\ kernel \in Kernels /\ s \in Slots /\ ran' = ran \cup {s}
  BY ThreadsOf DEF ConvexThread, Begin, Kernels
<1>2. UNCHANGED <<config, setting, globals, ncollision, nacon, contact, collision_pair,
                  cached, kernel, mode>>
  BY DEF ConvexThread
<1>3. \/ UNCHANGED <<left, nccd, reports>>
      \/ /\ Listed(s) /\ nccd' = [nccd EXCEPT ![TypeOf[collision_pair[s]]] = @ + 1]
         /\ Works(s) /\ UNCHANGED reports
      \/ /\ Listed(s) /\ nccd' = [nccd EXCEPT ![TypeOf[collision_pair[s]]] = @ + 1]
         /\ WorksInPart(s)
      \/ /\ Listed(s) /\ nccd' = [nccd EXCEPT ![TypeOf[collision_pair[s]]] = @ + 1]
         /\ UNCHANGED left /\ reports' = reports \cup {"ccd"}
  BY DEF ConvexThread, Idles, CcdOverflow
<1>4. reports' \subseteq reports \cup {"ccd", "hfield"}
  BY <1>3 DEF WorksInPart
<1>5. ModeOK' /\ CountOK' /\ ListOK' /\ ReportOK'
  BY <1>1, <1>2, <1>4, ListFrame DEF Kernels
<1>6. left' \in [Writers -> Nat] /\ LeftOK'
  <2>1. CASE UNCHANGED left
    BY <2>1, <1>2 DEF ListInv, TypeOK, LeftOK, config, Slots, Writers, Limits
  <2>2. CASE Listed(s) /\ (Works(s) \/ WorksInPart(s))
    BY <2>2, <1>1, <1>2, WorksOK, WorksTurns
  <2> QED
    BY <2>1, <2>2, <1>3
<1>7. nccd' \in [Types -> Nat]
  BY <1>3 DEF ListInv, TypeOK
<1>8. TypeOK'
  BY <1>1, <1>2, <1>4, <1>6, <1>7
  DEF ListInv, TypeOK, config, setting, globals, Limits, Writers
<1> QED
  BY <1>5, <1>6, <1>8 DEF ListInv

LEMMA FlexInv ==
  ASSUME ListInv, NEW e \in Elements, FlexThread(e)
  PROVE  ListInv'
<1>1. kernel = "flex" /\ ran' = ran \cup {e}
  BY DEF FlexThread, Begin
<1>2. UNCHANGED <<config, setting, globals, data, kernel, reports, mode>>
  BY DEF FlexThread
<1>3. ModeOK' /\ CountOK' /\ ListOK' /\ ReportOK'
  BY <1>1, <1>2, ListFrame DEF data
<1>4. left' \in [Writers -> Nat] /\ LeftOK'
  <2>1. left' \in [Writers -> Nat]
    BY DEF FlexThread, ListInv, TypeOK
  <2>2. \A w \in Writers \ Elements : left'[w] = left[w]
    BY DEF FlexThread, ListInv, TypeOK
  <2> QED
    BY <2>1, <2>2, <1>2 DEF ListInv, LeftOK, config, data, Slots, Writers, Limits
<1>5. TypeOK'
  BY <1>1, <1>2, <1>4 DEF ListInv, TypeOK, config, setting, globals, data, Limits, Writers
<1> QED
  BY <1>3, <1>4, <1>5 DEF ListInv

\* What is recorded is a contact of the pair in the thread's slot.
LEMMA RecordType ==
  ASSUME ListInv, NEW w \in Writers, left[w] > 0
  PROVE  Record(w) \in Records
<1>1. left[w] \in Nat /\ pose \in Poses
  BY DEF ListInv, TypeOK
<1>2. CASE w \in Elements
  BY <1>1, <1>2 DEF Record, Records
<1>3. CASE w \notin Elements
  <2>1. collision_pair[w] \in Pairs
    BY <1>1, <1>3, KernelOrder, CandidatesFinite DEF ListInv, LeftOK, ListOK, Detecting
  <2> QED
    BY <1>1, <1>3, <2>1 DEF Record, Records, Purpose
<1> QED
  BY <1>2, <1>3

LEMMA WriteContactInv ==
  ASSUME ListInv, NEW w \in Writers, WriteContact(w)
  PROVE  ListInv'
<1>1. UNCHANGED <<config, setting, globals, ncollision, nccd, collision_pair, cached,
                  kernel, ran, reports, mode>>
  BY DEF WriteContact
<1>2. left \in [Writers -> Nat] /\ left[w] > 0 /\ left' = [left EXCEPT ![w] = @ - 1]
  BY DEF WriteContact, ListInv, TypeOK
<1>3. /\ left' \in [Writers -> Nat]
      /\ \A v \in Writers : left'[v] > 0 => left[v] > 0
  BY <1>2
<1>4. ModeOK' /\ CountOK' /\ ListOK' /\ ReportOK'
  <2>1. UNCHANGED <<Examined, Candidates, Slots>> /\ \A q : Candidate(q)' <=> Candidate(q)
    BY <1>1, SameGeometry
  <2>2. {q \in ran : Candidate(q)} = {q \in ran' : Candidate(q)'}
    BY <1>1, <2>1
  <2> QED
    BY <1>1, <2>1, <2>2
    DEF ListInv, ModeOK, CountOK, ListOK, ReportOK, Detecting, Idle, config
<1>5. LeftOK'
  BY <1>1, <1>3 DEF ListInv, LeftOK, config, Slots, Writers, Limits
<1>6. TypeOK'
  <2>1. nacon' \in Nat
    BY DEF WriteContact, ListInv, TypeOK
  <2>2. contact' \in [Limits -> Records \cup {Unwritten}]
    BY <1>2, RecordType DEF WriteContact, ListInv, TypeOK
  <2>3. TypeOK
    BY DEF ListInv
  <2> QED
    BY <1>1, <1>3, <2>1, <2>2, <2>3 DEF TypeOK, config, setting, globals, Limits, Writers
<1> QED
  BY <1>4, <1>5, <1>6 DEF ListInv

LEMMA KernelEndsInv == ListInv /\ KernelEnds => ListInv'
<1> SUFFICES ASSUME ListInv, KernelEnds PROVE ListInv'
  OBVIOUS
<1>1. /\ kernel \in DOMAIN Following /\ ran = Threads(kernel)
      /\ Start(Following[kernel])
      /\ UNCHANGED <<config, setting, globals, data, reports, mode>>
  BY DEF KernelEnds
<1>2. kernel' = Following[kernel] /\ kernel' # "broad" /\ kernel' # "idle"
      /\ kernel' \in {"step"} \cup DOMAIN Following
  BY <1>1, KernelOrder DEF Start, Kernels
<1>3. UNCHANGED <<Examined, Candidates, Slots>>
  BY <1>1, SameGeometry
<1>4. LeftOK' /\ ran' = {} /\ left' \in [Writers -> Nat]
  BY <1>1, StartsEmpty
<1>5. TypeOK'
  BY <1>1, <1>2, <1>4 DEF ListInv, TypeOK, config, setting, globals, data
<1>6. ModeOK' /\ ListOK'
  BY <1>1, <1>2, <1>3 DEF ListInv, ModeOK, ListOK, Detecting, data
<1>7. CountOK'
  <2>1. CASE kernel = "broad"
    <3>1. ncollision = Cardinality(Candidates)
      BY <1>1, <2>1, ThreadsOf DEF ListInv, CountOK, Candidates
    <3> QED
      BY <1>1, <1>2, <1>3, <2>1, <3>1 DEF ListInv, CountOK, ModeOK, data
  <2>2. CASE kernel # "broad"
    BY <1>1, <1>2, <1>3, <2>2 DEF ListInv, CountOK, data
  <2> QED
    BY <2>1, <2>2
<1>8. ReportOK'
  BY <1>1, KernelOrder DEF ListInv, ReportOK, Idle, Kernels
<1> QED
  BY <1>4, <1>5, <1>6, <1>7, <1>8 DEF ListInv

LEMMA NextTimeInv == ListInv /\ NextTime => ListInv'
<1> SUFFICES ASSUME ListInv, NextTime PROVE ListInv'
  OBVIOUS
<1>1. /\ kernel = "step" /\ kernel' = "idle" /\ reports' = reports \cup Overflows
      /\ UNCHANGED <<config, setting, globals, data, ran, left, mode>>
  BY DEF NextTime
<1>2. UNCHANGED <<Examined, Candidates, Slots>>
  BY <1>1, SameGeometry
<1>3. TypeOK'
  <2>1. reports' \subseteq {"broadphase", "narrowphase", "ccd", "hfield"}
    BY <1>1 DEF ListInv, TypeOK, Overflows
  <2> QED
    BY <1>1, <2>1 DEF ListInv, TypeOK, config, setting, globals, data, Limits, Writers
<1>4. ModeOK' /\ ListOK' /\ CountOK'
  BY <1>1, <1>2, KernelOrder
  DEF ListInv, ModeOK, ListOK, CountOK, Detecting, data, Kernels
<1>5. LeftOK'
  <2>1. \A w \in Writers \ Elements : ~(left[w] > 0)
    BY <1>1 DEF ListInv, LeftOK, Kernels
  <2> QED
    BY <1>1, <2>1 DEF LeftOK, Writers, Limits
<1>6. ReportOK'
  BY <1>1 DEF ListInv, ReportOK, Idle, Overflows, config, data
<1> QED
  BY <1>3, <1>4, <1>5, <1>6 DEF ListInv

LEMMA CallerInv == ListInv /\ Caller => ListInv'
<1> SUFFICES ASSUME ListInv, Caller PROVE ListInv'
  OBVIOUS
<1>1. /\ kernel = "idle" /\ mode' = "none"
      /\ pose' \in Poses /\ enabled' \in BOOLEAN /\ nativeccd' \in BOOLEAN
      /\ UNCHANGED <<config, globals, data, kernel, ran, left, reports>>
  BY DEF Caller, Idle
<1>2. TypeOK'
  BY <1>1 DEF ListInv, TypeOK, config, globals, data, Limits, Writers
<1>3. ModeOK' /\ ListOK' /\ CountOK'
  BY <1>1, KernelOrder DEF ModeOK, ListOK, CountOK, Detecting, Kernels
<1>4. LeftOK' /\ ReportOK'
  <2>1. \A w \in Writers \ Elements : ~(left[w] > 0)
    BY <1>1 DEF ListInv, LeftOK, Kernels
  <2> QED
    BY <1>1, <2>1 DEF ListInv, LeftOK, ReportOK, Idle, config, data, Writers, Limits
<1> QED
  BY <1>2, <1>3, <1>4 DEF ListInv

LEMMA UnchangedInv == ListInv /\ UNCHANGED vars => ListInv'
<1> SUFFICES ASSUME ListInv, UNCHANGED vars PROVE ListInv'
  OBVIOUS
<1>1. UNCHANGED <<config, setting, globals, data, device>>
  BY DEF vars
<1>2. UNCHANGED <<Examined, Candidates, Slots>> /\ \A q : Candidate(q)' <=> Candidate(q)
  BY <1>1, SameGeometry
<1>3. {q \in ran : Candidate(q)} = {q \in ran' : Candidate(q)'}
  BY <1>1, <1>2 DEF device
<1>4. TypeOK'
  BY <1>1 DEF ListInv, TypeOK, config, setting, globals, data, device, Limits, Writers
<1>5. (ModeOK /\ CountOK /\ ListOK /\ LeftOK /\ ReportOK)'
  BY <1>1, <1>2, <1>3
  DEF ListInv, ModeOK, CountOK, ListOK, LeftOK, ReportOK, Detecting, Idle, config, data,
      device, Writers, Limits
<1> QED
  BY <1>4, <1>5 DEF ListInv

LEMMA NextInv == ListInv /\ [Next]_vars => ListInv'
<1> SUFFICES ASSUME ListInv, [Next]_vars PROVE ListInv'
  OBVIOUS
<1>1. CASE Host
  BY <1>1, DisabledInv, SearchedInv, CachedInv DEF Host
<1>2. CASE Device
  <2>1. ASSUME NEW p \in Pairs, BroadphaseThread(p) PROVE ListInv'
    BY <2>1, BroadphaseInv
  <2>2. ASSUME NEW s \in Limits, NarrowphaseThread(s) PROVE ListInv'
    BY <2>2, NarrowphaseInv
  <2>3. ASSUME NEW s \in Limits, ConvexThread(s) PROVE ListInv'
    BY <2>3, ConvexInv
  <2>4. ASSUME NEW e \in Elements, FlexThread(e) PROVE ListInv'
    BY <2>4, FlexInv
  <2>5. ASSUME NEW w \in Writers, WriteContact(w) PROVE ListInv'
    BY <2>5, WriteContactInv
  <2> QED
    BY <1>2, <2>1, <2>2, <2>3, <2>4, <2>5, KernelEndsInv, NextTimeInv DEF Device
<1>3. CASE Caller
  BY <1>3, CallerInv
<1>4. CASE UNCHANGED vars
  BY <1>4, UnchangedInv
<1> QED
  BY <1>1, <1>2, <1>3, <1>4 DEF Next

-----------------------------------------------------------------------------
(* Theorems.                                                               *)

\* Counter and list of the broadphase determine each other at every step.
THEOREM ListInductive == Spec => []ListInv
<1>1. Init => ListInv
  BY InitInv
<1>2. ListInv /\ [Next]_vars => ListInv'
  BY NextInv
<1> QED
  BY <1>1, <1>2, PTL DEF Spec

\* Types: the counter of pairs never exceeds the number of pairs there are.
THEOREM PipelineTyping == Spec => []TypeOK
<1>1. ListInv => TypeOK
  BY DEF ListInv
<1> QED
  BY <1>1, ListInductive, PTL

\* No narrowphase thread reads an entry that this step's broadphase has not written.
THEOREM FreshList == Spec => []ListIsFresh
<1>1. ListInv => ListIsFresh
  BY KernelOrder DEF ListInv, ListOK, ListIsFresh, Detecting, Listed
<1> QED
  BY <1>1, ListInductive, PTL

\* A reported overflow of the broadphase means that there were too many candidates.
THEOREM BroadphaseAlarm ==
  Spec => [](Idle /\ mode = "searched" /\ "broadphase" \in reports
               => Cardinality(Candidates) > naconmax)
<1>1. ListInv => (Idle /\ mode = "searched" /\ "broadphase" \in reports
                   => Cardinality(Candidates) > naconmax)
  BY DEF ListInv, ReportOK, CountOK, Idle
<1> QED
  BY <1>1, ListInductive, PTL

-----------------------------------------------------------------------------
(* Routing.                                                                *)

LEMMA RoutesKept == TypeOK /\ RoutesOK /\ NarrowphaseTable => RoutesOK'
<1> SUFFICES ASSUME TypeOK, RoutesOK, NarrowphaseTable, NEW t \in primitive_types'
             PROVE  IF t = BoxBox THEN table' = "primitive" ELSE Route[t] = "primitive"
  BY DEF RoutesOK
<1>1. CASE t \in primitive_types
  BY <1>1 DEF RoutesOK, NarrowphaseTable
<1>2. CASE t \notin primitive_types
  BY <1>2 DEF NarrowphaseTable
<1> QED
  BY <1>1, <1>2

\* At most one kernel takes a pair.
LEMMA OneKernel ==
  RoutesOK => \A t : \A k, l \in Kernels : Takes(k, t) /\ Takes(l, t) => k = l
BY DEF RoutesOK, Takes, Kernels

\* Height fields are left to the convex kernel.
LEMMA HeightFields ==
  ASSUME IndInv, NEW p, p \in Filtered[pose] \cup Crowded[pose]
  PROVE  ~ Takes("primitive", TypeOf[p]) /\ ~ Takes("sdf", TypeOf[p])
<1>1. TypeOf[p] # BoxBox /\ Route[TypeOf[p]] = "convex"
  BY ModelAssumption DEF IndInv, ListInv, TypeOK
<1>2. RoutesOK
  BY DEF IndInv, ContactInv
<1> QED
  BY <1>1, <1>2 DEF RoutesOK, Takes

LEMMA UptoGrows ==
  /\ \A k \in DOMAIN Following \cup {"step"} : Upto[k] \subseteq Kernels
  /\ \A k \in DOMAIN Following : Upto[k] \subseteq Upto[Following[k]]
                                 /\ Following[k] \notin Upto[k]
  /\ \A k \in Kernels : k \in Upto[k]
  /\ Upto["broad"] = {}
BY DEF Upto, Following, Kernels

-----------------------------------------------------------------------------
(* Frames.                                                                 *)

LEMMA Disjoint == Elements \cap Limits = {} /\ Slots \cap Elements = {}
<1>1. \A s \in Slots \cup Limits : s \in Int /\ s >= 0
  BY DEF Slots, Limits
<1> QED
  BY <1>1, DistinctAssumption

\* Outside the narrowphase nothing is left to be written.
LEMMA NothingLeft ==
  ListInv /\ WorkOK /\ kernel \notin Kernels \cup {"flex"}
    => \A w \in Writers : ~(left[w] > 0)
BY DEF WorkOK, ListInv, LeftOK

LEMMA SameResult ==
  UNCHANGED <<config, setting>> =>
    /\ UNCHANGED <<Examined, Slots, Forces, Readings, pose, naconmax>>
    /\ \A p : Recorded(p)' <=> Recorded(p)
BY DEF config, setting, Examined, Slots, Forces, Readings, Reached, Candidates, Candidate, PointsOf,
       Recorded

LEMMA SameRoutes ==
  UNCHANGED globals => /\ RoutesOK <=> RoutesOK'
                       /\ \A k, t : Takes(k, t)' <=> Takes(k, t)
BY DEF globals, RoutesOK, Takes

\* A pair that a kernel sees and that has contacts has these.
LEMMA PairResult ==
  ASSUME ListInv, NEW p \in Reached, Recorded(p), NEW i \in 1..Points[p]
  PROVE  <<p, i>> \in Forces \cup Readings
<1>1. <<p, i>> \in {p} \X (1..Points[p])
  OBVIOUS
<1>2. CASE p \in Collidable /\ p \in Touching[pose]
  BY <1>1, <1>2 DEF Forces, PointsOf
<1>3. CASE p \in Sensed
  BY <1>1, <1>3 DEF Readings, PointsOf
<1> QED
  BY <1>2, <1>3 DEF Recorded

-----------------------------------------------------------------------------
LEMMA InitContact == Init => ContactInv
<1> SUFFICES ASSUME Init PROVE ContactInv
  OBVIOUS
<1>1. RoutesOK /\ DistinctOK /\ RecordsOK /\ UniqueOK
  BY KernelOrder
  DEF Init, RoutesOK, DistinctOK, RecordsOK, UniqueOK, Recording, Detecting, Kernels
<1>2. WorkOK
  BY DEF Init, WorkOK
<1> QED
  BY <1>1, <1>2 DEF ContactInv

LEMMA DisabledContact == IndInv /\ CollisionDisabled => ContactInv'
<1> SUFFICES ASSUME IndInv, CollisionDisabled PROVE ContactInv'
  OBVIOUS
<1>1. /\ kernel = "idle" /\ kernel' = "step" /\ mode' = "disabled"
      /\ UNCHANGED <<globals, left>>
  BY DEF CollisionDisabled, Idle
<1>2. RoutesOK'
  BY <1>1, SameRoutes DEF IndInv, ContactInv
<1>3. DistinctOK' /\ RecordsOK' /\ UniqueOK'
  BY <1>1, KernelOrder DEF DistinctOK, RecordsOK, UniqueOK, Recording, Detecting, Kernels
<1>4. WorkOK'
  <2>1. \A w \in Writers : ~(left[w] > 0)
    BY <1>1, NothingLeft DEF IndInv, ContactInv, Kernels
  <2> QED
    BY <1>1, <2>1 DEF WorkOK, Writers, Limits
<1> QED
  BY <1>2, <1>3, <1>4 DEF ContactInv

\* A step that begins has listed and recorded nothing.
LEMMA BeginsContact == IndInv /\ (CollisionSearched \/ CollisionCached) => ContactInv'
<1> SUFFICES ASSUME IndInv, CollisionSearched \/ CollisionCached PROVE ContactInv'
  OBVIOUS
<1>1. /\ ncollision' = 0 /\ nacon' = 0 /\ NarrowphaseTable
      /\ left' = [w \in Writers |-> 0]
  BY DEF CollisionSearched, CollisionCached, ZeroCounters, Start
<1>2. \A s \in Slots' : ~(s < 0)
  BY DEF Slots
<1>3. RoutesOK'
  BY <1>1, RoutesKept DEF IndInv, ListInv, ContactInv
<1>4. DistinctOK' /\ RecordsOK' /\ UniqueOK'
  BY <1>1, <1>2 DEF DistinctOK, RecordsOK, UniqueOK
<1>5. WorkOK'
  BY <1>1 DEF WorkOK, Writers, Limits
<1> QED
  BY <1>3, <1>4, <1>5 DEF ContactInv

-----------------------------------------------------------------------------
(* The device.                                                             *)

LEMMA BroadphaseContact ==
  ASSUME IndInv, NEW p \in Pairs, BroadphaseThread(p)
  PROVE  ContactInv'
<1>1. kernel = "broad" /\ p \in Examined \ ran /\ ran' = ran \cup {p}
  BY ThreadsOf DEF BroadphaseThread, Begin
<1>2. UNCHANGED <<config, setting, globals, nacon, contact, kernel, left, mode>>
  BY DEF BroadphaseThread
<1>3. UNCHANGED Slots
  BY <1>2, SameResult
<1>4. \A n \in Slots : ~(n < nacon)
  <2> SUFFICES ASSUME NEW n \in Slots, n < nacon PROVE FALSE
    OBVIOUS
  <2>1. Recording
    BY <1>1, KernelOrder DEF IndInv, ListInv, ModeOK, Recording, Detecting
  <2>2. Passed(contact[n])
    BY <2>1 DEF IndInv, ContactInv, RecordsOK
  <2> QED
    BY <1>1, <2>2, UptoGrows DEF Passed
<1>5. RoutesOK' /\ RecordsOK' /\ UniqueOK'
  BY <1>2, <1>3, <1>4, SameRoutes DEF IndInv, ContactInv, RecordsOK, UniqueOK
<1>6. WorkOK'
  <2>1. \A w \in Writers : ~(left[w] > 0)
    BY <1>1, NothingLeft DEF IndInv, ContactInv, Kernels
  <2> QED
    BY <1>2, <2>1 DEF WorkOK, Writers, Limits
<1>7. DistinctOK'
  <2>1. /\ ncollision \in Nat /\ naconmax \in Nat /\ Slots \subseteq Limits
        /\ collision_pair \in [Limits -> Pairs \cup {Unwritten}]
    BY SizesAssumption, SlotsInLimits, FS_CardinalityType, GeometryAssumption
    DEF IndInv, ListInv, TypeOK
  <2>2. \A s \in Slots : s < ncollision =>
          /\ collision_pair'[s] = collision_pair[s] /\ collision_pair[s] \in ran
    BY <1>1, <2>1 DEF BroadphaseThread, IndInv, ContactInv, DistinctOK, Slots
  <2>3. \A s \in Slots : s < ncollision' /\ ~(s < ncollision) =>
          /\ s = ncollision /\ collision_pair'[s] = p
    <3> SUFFICES ASSUME NEW s \in Slots, s < ncollision', ~(s < ncollision)
                 PROVE  s = ncollision /\ collision_pair'[s] = p
      OBVIOUS
    <3>1. s \in Nat /\ s < naconmax /\ s \in Limits
      BY <2>1 DEF Slots
    <3>2. Candidate(p) /\ s = ncollision
      BY <2>1, <3>1 DEF BroadphaseThread
    <3> QED
      BY <2>1, <3>1, <3>2 DEF BroadphaseThread
  <2>4. \A s, t \in Slots : s < ncollision /\ t < ncollision
          /\ collision_pair[s] = collision_pair[t] => s = t
    BY <1>1, KernelOrder DEF IndInv, ContactInv, DistinctOK, Detecting
  <2>5. \A s, t \in Slots : s < ncollision' /\ t < ncollision'
          /\ collision_pair'[s] = collision_pair'[t] => s = t
    BY <1>1, <2>2, <2>3, <2>4
  <2>6. \A s \in Slots : s < ncollision' => collision_pair'[s] \in ran'
    BY <1>1, <2>2, <2>3
  <2> QED
    BY <1>3, <2>5, <2>6 DEF DistinctOK
<1> QED
  BY <1>5, <1>6, <1>7 DEF ContactInv

\* A thread of a narrowphase kernel takes its turn: it goes idle or gets work.
LEMMA TurnContact ==
  ASSUME IndInv, NEW s \in Slots, kernel \in Kernels, s \notin ran, ran' = ran \cup {s},
         UNCHANGED <<config, setting, globals, ncollision, nacon, contact,
                     collision_pair, kernel, mode>>,
         \/ UNCHANGED left
         \/ /\ Listed(s) /\ Takes(kernel, TypeOf[collision_pair[s]])
            /\ collision_pair[s] \notin Filtered[pose] /\ Turns(s)
  PROVE  ContactInv'
<1>1. UNCHANGED <<Slots, Forces, Readings, pose, naconmax>>
  BY SameResult
<1>2. left \in [Writers -> Nat] /\ s \in Writers /\ s \notin Elements
  BY Disjoint, SlotsInLimits DEF IndInv, ListInv, TypeOK, Writers
<1>3. \A w \in Writers : w # s => left'[w] = left[w]
  BY <1>2 DEF Turns, Finds
<1>4. RoutesOK' /\ DistinctOK'
  BY <1>1, SameRoutes, KernelOrder
  DEF IndInv, ContactInv, DistinctOK, Detecting, Kernels
<1>5. WorkOK'
  <2> SUFFICES ASSUME NEW w \in Writers, left'[w] > 0
               PROVE  /\ w \in ran'
                      /\ IF w \in Elements
                         THEN kernel = "flex" /\ w \in FlexTouching[pose] /\ left'[w] = 1
                         ELSE LET p == collision_pair[w] IN
                                /\ p \notin Filtered[pose]
                                /\ Takes(kernel, TypeOf[p]) /\ Recorded(p)
                                /\ left'[w] <= Points[p]
    BY <1>1, SameResult, SameRoutes DEF WorkOK, Writers, Limits
  <2>1. CASE w # s \/ UNCHANGED left
    <3>1. left'[w] = left[w]
      BY <2>1, <1>3
    <3> QED
      BY <3>1 DEF IndInv, ContactInv, WorkOK
  <2>2. CASE /\ w = s /\ Listed(s) /\ Takes(kernel, TypeOf[collision_pair[s]])
             /\ collision_pair[s] \notin Filtered[pose] /\ Turns(s)
    <3>1. PICK k \in 0..Points[collision_pair[s]] :
            left'[s] = IF Recorded(collision_pair[s]) THEN k ELSE 0
      BY <2>2, <1>2 DEF Turns, Finds
    <3>2. collision_pair[s] \in Pairs
      BY <2>2, KernelOrder, CandidatesFinite
      DEF IndInv, ListInv, ListOK, Detecting, Listed, TypeOK
    <3>3. Points[collision_pair[s]] \in Nat
      BY <3>2, ModelAssumption
    <3> QED
      BY <2>2, <3>1, <3>3, <1>2
  <2> QED
    BY <2>1, <2>2
<1>6. RecordsOK' /\ UniqueOK'
  <2>1. ASSUME NEW n \in Slots, n < nacon, Recording
        PROVE  Passed(contact[n])'
    <3> DEFINE c == contact[n]
    <3>1. Passed(c)
      BY <2>1 DEF IndInv, ContactInv, RecordsOK
    <3>2. c.of \notin Elements
      BY <3>1 DEF Passed, Kernels
    <3>3. PICK t \in Slots :
            /\ t < ncollision /\ collision_pair[t] = c.of
            /\ \E k \in Upto[kernel] : Takes(k, TypeOf[c.of])
            /\ kernel \in Kernels /\ Takes(kernel, TypeOf[c.of])
                 => t \in ran /\ left[t] < c.point
      BY <3>1, <3>2 DEF Passed
    <3>4. t \in Writers
      BY SlotsInLimits DEF IndInv, ListInv, TypeOK, Writers
    <3>5. kernel \in Kernels /\ Takes(kernel, TypeOf[c.of])
            => t \in ran' /\ left'[t] < c.point
      BY <3>3, <3>4, <1>3
    <3>6. (\E k \in Upto[kernel] : Takes(k, TypeOf[c.of]))'
      BY <3>3, SameRoutes
    <3>7. (kernel \in Kernels /\ Takes(kernel, TypeOf[c.of]))'
            => kernel \in Kernels /\ Takes(kernel, TypeOf[c.of])
      BY SameRoutes
    <3> QED
      BY <3>2, <3>3, <3>5, <3>6, <3>7, <1>1 DEF Passed
  <2>2. Recording' <=> Recording
    BY DEF Recording, Detecting
  <2> QED
    BY <1>1, <2>1, <2>2 DEF IndInv, ContactInv, RecordsOK, UniqueOK
<1> QED
  BY <1>4, <1>5, <1>6 DEF ContactInv

LEMMA NarrowphaseContact ==
  ASSUME IndInv, NEW s \in Limits, NarrowphaseThread(s) \/ ConvexThread(s)
  PROVE  ContactInv'
<1>1. /\ kernel \in Kernels /\ s \in Slots /\ s \notin ran /\ ran' = ran \cup {s}
      /\ UNCHANGED <<config, setting, globals, ncollision, nacon, contact,
                     collision_pair, kernel, mode>>
  BY ThreadsOf DEF NarrowphaseThread, ConvexThread, Begin, Kernels
<1>2. \/ UNCHANGED left
      \/ /\ Listed(s) /\ Takes(kernel, TypeOf[collision_pair[s]])
         /\ Works(s) \/ WorksInPart(s)
         /\ kernel \in {"primitive", "sdf"} \/ collision_pair[s] \notin Filtered[pose]
  BY DEF NarrowphaseThread, ConvexThread, Idles, Begin
<1>3. kernel \in {"primitive", "sdf"} /\ Takes(kernel, TypeOf[collision_pair[s]])
        => collision_pair[s] \notin Filtered[pose]
  BY HeightFields
<1>4. Listed(s) /\ (Works(s) \/ WorksInPart(s)) => Turns(s)
  BY <1>1, WorksTurns DEF IndInv
<1> QED
  BY <1>1, <1>2, <1>3, <1>4, TurnContact

LEMMA FlexContact ==
  ASSUME IndInv, NEW e \in Elements, FlexThread(e)
  PROVE  ContactInv'
<1>1. /\ kernel = "flex" /\ e \notin ran /\ ran' = ran \cup {e}
      /\ left' = [left EXCEPT ![e] = IF e \in FlexTouching[pose] THEN 1 ELSE 0]
      /\ UNCHANGED <<config, setting, globals, ncollision, nacon, contact,
                     collision_pair, kernel, mode>>
  BY DEF FlexThread, Begin, data
<1>2. UNCHANGED <<Slots, Forces, Readings, pose, naconmax>>
  BY <1>1, SameResult
<1>3. left \in [Writers -> Nat] /\ e \in Writers
  BY DEF IndInv, ListInv, TypeOK, Writers
<1>4. RoutesOK' /\ DistinctOK'
  BY <1>1, <1>2, SameRoutes, KernelOrder
  DEF IndInv, ContactInv, DistinctOK, Detecting, Kernels
<1>5. WorkOK'
  <2> SUFFICES ASSUME NEW w \in Writers, left'[w] > 0
               PROVE  /\ w \in ran' /\ w \in Elements
                      /\ w \in FlexTouching[pose] /\ left'[w] = 1
    BY <1>1, <1>2 DEF WorkOK, Writers, Limits
  <2>1. CASE w = e
    BY <2>1, <1>1, <1>3
  <2>2. CASE w # e
    <3>1. left'[w] = left[w]
      BY <2>2, <1>1, <1>3
    <3>2. w \in Elements
      BY <3>1, <1>1 DEF IndInv, ListInv, LeftOK, Kernels
    <3> QED
      BY <3>1, <3>2, <1>1 DEF IndInv, ContactInv, WorkOK
  <2> QED
    BY <2>1, <2>2
<1>6. RecordsOK' /\ UniqueOK'
  <2>1. ASSUME NEW n \in Slots, n < nacon, Recording
        PROVE  Passed(contact[n])'
    <3> DEFINE c == contact[n]
    <3>1. Passed(c)
      BY <2>1 DEF IndInv, ContactInv, RecordsOK
    <3>2. CASE c.of \in Elements
      <4>1. c.of \in ran /\ left[c.of] < c.point /\ c.of # e /\ c.of \in Writers
        BY <3>1, <3>2, <1>1 DEF Passed, Writers
      <4>2. left'[c.of] = left[c.of]
        BY <4>1, <1>1, <1>3
      <4> QED
        BY <3>2, <4>1, <4>2, <1>1 DEF Passed
    <3>3. CASE c.of \notin Elements
      BY <3>1, <3>3, <1>1, <1>2, SameRoutes DEF Passed, Kernels
    <3> QED
      BY <3>2, <3>3
  <2>2. Recording' <=> Recording
    BY <1>1 DEF Recording, Detecting
  <2> QED
    BY <1>1, <1>2, <2>1, <2>2 DEF IndInv, ContactInv, RecordsOK, UniqueOK
<1> QED
  BY <1>4, <1>5, <1>6 DEF ContactInv

\* The contact about to be written is part of the result, and not written yet.
LEMMA NewContact ==
  ASSUME IndInv, NEW w \in Writers, left[w] > 0
  PROVE  /\ Recording /\ Record(w) \in Records /\ Record(w).pose = pose
         /\ <<Record(w).of, Record(w).point>> \in Forces \cup Readings
         /\ \A n \in Slots : n < nacon =>
              <<contact[n].of, contact[n].point>> # <<Record(w).of, Record(w).point>>
<1> DEFINE r == Record(w)
<1>1. left[w] \in Nat /\ w \in ran
  BY DEF IndInv, ListInv, TypeOK, ContactInv, WorkOK
<1>2. r \in Records /\ r.pose = pose
  BY RecordType DEF IndInv, Record
<1>3. CASE w \in Elements
  <2>1. kernel = "flex" /\ w \in FlexTouching[pose] /\ left[w] = 1
    BY <1>3 DEF IndInv, ContactInv, WorkOK
  <2>2. r.of = w /\ r.point = 1
    BY <1>3 DEF Record
  <2>3. Recording
    BY <2>1, KernelOrder DEF IndInv, ListInv, ModeOK, Recording, Detecting
  <2>4. <<r.of, r.point>> \in Forces
    <3>1. <<w, 1>> \in FlexTouching[pose] \X {1}
      BY <2>1
    <3>2. FlexTouching[pose] \X {1} \subseteq Forces
      BY DEF Forces
    <3> QED
      BY <2>2, <3>1, <3>2
  <2>5. ASSUME NEW n \in Slots, n < nacon, contact[n].of = w, contact[n].point = 1
        PROVE  FALSE
    <3>1. Passed(contact[n])
      BY <2>3, <2>5 DEF IndInv, ContactInv, RecordsOK
    <3> QED
      BY <3>1, <2>1, <2>5, <1>3 DEF Passed
  <2> QED
    BY <1>2, <2>2, <2>3, <2>4, <2>5
<1>4. CASE w \notin Elements
  <2> DEFINE p == collision_pair[w]
  <2>1. kernel \in Kernels /\ w \in Slots /\ w < ncollision
    BY <1>4 DEF IndInv, ListInv, LeftOK
  <2>2. p \notin Filtered[pose] /\ Takes(kernel, TypeOf[p]) /\ Recorded(p) /\ left[w] <= Points[p]
    BY <1>4 DEF IndInv, ContactInv, WorkOK
  <2>3. Detecting /\ p \in Candidates /\ p \in Pairs
    BY <2>1, KernelOrder, CandidatesFinite DEF IndInv, ListInv, ListOK, Detecting, TypeOK
  <2>4. r.of = p /\ r.point = left[w]
    BY <1>4 DEF Record
  <2>5. Recording
    BY <2>3 DEF IndInv, ListInv, ModeOK, Recording
  <2>6. left[w] \in 1..Points[p]
    BY <1>1, <2>2, <2>3, ModelAssumption
  <2>7. <<r.of, r.point>> \in Forces \cup Readings
    BY <2>2, <2>3, <2>4, <2>6, PairResult DEF IndInv, Reached
  <2>8. ASSUME NEW n \in Slots, n < nacon, contact[n].of = p, contact[n].point = left[w]
        PROVE  FALSE
    <3>1. Passed(contact[n])
      BY <2>5, <2>8 DEF IndInv, ContactInv, RecordsOK
    <3>2. contact[n].of \notin Elements
      BY <2>3, <2>8, DistinctAssumption
    <3>3. PICK s \in Slots : /\ s < ncollision /\ collision_pair[s] = p
                             /\ left[s] < left[w]
      BY <3>1, <3>2, <2>1, <2>2, <2>8 DEF Passed
    <3>4. s = w
      BY <3>3, <2>1, <2>3 DEF IndInv, ContactInv, DistinctOK
    <3> QED
      BY <3>3, <3>4, <1>1
  <2> QED
    BY <1>2, <2>4, <2>5, <2>7, <2>8
<1> QED
  BY <1>3, <1>4

LEMMA WriteContactContact ==
  ASSUME IndInv, NEW w \in Writers, WriteContact(w)
  PROVE  ContactInv'
<1> DEFINE r == Record(w)
<1>1. UNCHANGED <<config, setting, globals, ncollision, collision_pair, kernel, ran, mode>>
  BY DEF WriteContact
<1>2. UNCHANGED <<Slots, Forces, Readings, pose, naconmax>>
  BY <1>1, SameResult
<1>3. left \in [Writers -> Nat] /\ left[w] > 0 /\ left' = [left EXCEPT ![w] = @ - 1]
  BY DEF WriteContact, IndInv, ListInv, TypeOK
<1>4. \A v \in Writers : left'[v] <= left[v] /\ left'[v] \in Nat /\ left[v] \in Nat
  BY <1>3
<1>5. nacon \in Nat /\ naconmax \in Nat /\ Slots \subseteq Limits
  BY SizesAssumption, SlotsInLimits DEF IndInv, ListInv, TypeOK
<1>6. ASSUME NEW n \in Slots, n < nacon'
      PROVE  \/ n < nacon /\ contact'[n] = contact[n]
             \/ n = nacon /\ contact'[n] = r
  <2>1. n \in Nat /\ n < naconmax /\ n \in Limits
    BY <1>5 DEF Slots
  <2>2. nacon' = nacon + 1 /\ (n < nacon \/ n = nacon)
    BY <2>1, <1>5, <1>6 DEF WriteContact
  <2>3. contact \in [Limits -> Records \cup {Unwritten}]
    BY DEF IndInv, ListInv, TypeOK
  <2> QED
    BY <2>1, <2>2, <2>3, <1>5 DEF WriteContact
<1>7. RoutesOK' /\ DistinctOK'
  BY <1>1, <1>2, SameRoutes DEF IndInv, ContactInv, DistinctOK, Detecting
<1>8. WorkOK'
  <2> SUFFICES ASSUME NEW v \in Writers, left'[v] > 0
               PROVE  /\ v \in ran
                      /\ IF v \in Elements
                         THEN kernel = "flex" /\ v \in FlexTouching[pose] /\ left'[v] = 1
                         ELSE LET p == collision_pair[v] IN
                                /\ p \notin Filtered[pose]
                                /\ Takes(kernel, TypeOf[p]) /\ Recorded(p)
                                /\ left'[v] <= Points[p]
    BY <1>1, <1>2, SameResult, SameRoutes DEF WorkOK, Writers, Limits
  <2>1. left[v] > 0 /\ left'[v] <= left[v] /\ left'[v] \in Nat /\ left[v] \in Nat
    BY <1>4
  <2>2. CASE v \in Elements
    BY <2>1, <2>2 DEF IndInv, ContactInv, WorkOK
  <2>3. CASE v \notin Elements
    <3>1. /\ collision_pair[v] \notin Filtered[pose]
          /\ v \in ran /\ Takes(kernel, TypeOf[collision_pair[v]])
          /\ Recorded(collision_pair[v]) /\ left[v] <= Points[collision_pair[v]]
      BY <2>1, <2>3 DEF IndInv, ContactInv, WorkOK
    <3>2. collision_pair[v] \in Pairs
      BY <2>1, <2>3, KernelOrder, CandidatesFinite
      DEF IndInv, ListInv, LeftOK, ListOK, Detecting, TypeOK
    <3>3. Points[collision_pair[v]] \in Nat
      BY <3>2, ModelAssumption
    <3> QED
      BY <2>1, <2>3, <3>1, <3>3
  <2> QED
    BY <2>2, <2>3
<1>9. Recording' <=> Recording
  BY <1>1 DEF Recording, Detecting
<1>10. ASSUME NEW n \in Slots, n < nacon, Recording
       PROVE  Passed(contact[n])'
  <2>1. Passed(contact[n])
    BY <1>10 DEF IndInv, ContactInv, RecordsOK
  <2>2. contact'[n] = contact[n] /\ contact[n] \in Records
    <3>1. n < nacon' /\ n # nacon
      BY <1>5, <1>10 DEF WriteContact, Slots
    <3> QED
      BY <3>1, <1>6, <1>10 DEF IndInv, ContactInv, RecordsOK
  <2>3. contact[n].point \in Nat
    BY <2>2 DEF Records
  <2>4. CASE contact[n].of \in Elements
    <3>1. contact[n].of \in Writers
      BY <2>4 DEF Writers
    <3> QED
      BY <2>1, <2>2, <2>3, <2>4, <3>1, <1>1, <1>4 DEF Passed
  <2>5. CASE contact[n].of \notin Elements
    <3>1. PICK s \in Slots :
            /\ s < ncollision /\ collision_pair[s] = contact[n].of
            /\ \E k \in Upto[kernel] : Takes(k, TypeOf[contact[n].of])
            /\ kernel \in Kernels /\ Takes(kernel, TypeOf[contact[n].of])
                 => s \in ran /\ left[s] < contact[n].point
      BY <2>1, <2>5 DEF Passed
    <3>2. s \in Writers
      BY <1>5 DEF Writers
    <3>3. left'[s] <= left[s] /\ left'[s] \in Nat /\ left[s] \in Nat
      BY <3>2, <1>4
    <3>4. kernel \in Kernels /\ Takes(kernel, TypeOf[contact[n].of])
            => s \in ran' /\ left'[s] < contact[n].point
      BY <3>1, <3>3, <2>3, <1>1
    <3>5. \A k, t : Takes(k, t)' <=> Takes(k, t)
      BY <1>1, SameRoutes
    <3> QED
      BY <3>1, <3>4, <3>5, <2>2, <2>5, <1>1, <1>2 DEF Passed
  <2> QED
    BY <2>4, <2>5
<1>11. ASSUME NEW n \in Slots, n = nacon, contact'[n] = r, Recording
       PROVE  Passed(contact[n])'
  <2>1. left'[w] = left[w] - 1 /\ left[w] \in Nat /\ w \in ran
    BY <1>3 DEF IndInv, ContactInv, WorkOK
  <2>2. CASE w \in Elements
    <3>1. r.of = w /\ r.point = 1 /\ kernel = "flex" /\ left[w] = 1
      BY <2>2, <1>3 DEF Record, IndInv, ContactInv, WorkOK
    <3> QED
      BY <3>1, <2>1, <2>2, <1>1, <1>11 DEF Passed
  <2>3. CASE w \notin Elements
    <3>1. r.of = collision_pair[w] /\ r.point = left[w]
      BY <2>3 DEF Record
    <3>2. kernel \in Kernels /\ w \in Slots /\ w < ncollision
      BY <2>3, <1>3 DEF IndInv, ListInv, LeftOK
    <3>3. Takes(kernel, TypeOf[r.of]) /\ kernel \in Upto[kernel]
      BY <2>3, <3>1, <3>2, <1>3, UptoGrows DEF IndInv, ContactInv, WorkOK
    <3>4. r.of \notin Elements
      <4>1. collision_pair[w] \in Pairs
        BY <3>2, KernelOrder, CandidatesFinite
        DEF IndInv, ListInv, ListOK, Detecting, TypeOK
      <4> QED
        BY <3>1, <4>1, DistinctAssumption
    <3>5. \A k, t : Takes(k, t)' <=> Takes(k, t)
      BY <1>1, SameRoutes
    <3>6. left'[w] < r.point
      BY <2>1, <3>1
    <3>7. (\E k \in Upto[kernel] : Takes(k, TypeOf[contact[n].of]))'
      BY <3>3, <3>5, <1>1, <1>11
    <3>8. /\ w \in Slots' /\ w < ncollision' /\ collision_pair'[w] = r.of
          /\ w \in ran' /\ left'[w] < r.point
      BY <3>1, <3>2, <3>6, <2>1, <1>1, <1>2
    <3> QED
      BY <3>4, <3>7, <3>8, <1>1, <1>11 DEF Passed
  <2> QED
    BY <2>2, <2>3
<1>12. RecordsOK'
  <2> SUFFICES ASSUME Recording, NEW n \in Slots, n < nacon'
               PROVE  /\ contact'[n] \in Records /\ contact'[n].pose = pose
                      /\ <<contact'[n].of, contact'[n].point>> \in Forces \cup Readings
                      /\ Passed(contact[n])'
    BY <1>2, <1>9 DEF RecordsOK
  <2>1. CASE n < nacon /\ contact'[n] = contact[n]
    BY <2>1, <1>10 DEF IndInv, ContactInv, RecordsOK
  <2>2. CASE n = nacon /\ contact'[n] = r
    BY <2>2, <1>3, <1>11, NewContact
  <2> QED
    BY <2>1, <2>2, <1>6
<1>13. UniqueOK'
  <2> SUFFICES ASSUME Recording, NEW m \in Slots, NEW n \in Slots,
                      m < nacon', n < nacon', m # n
               PROVE  <<contact'[m].of, contact'[m].point>>
                        # <<contact'[n].of, contact'[n].point>>
    BY <1>2, <1>9 DEF UniqueOK
  <2>1. CASE /\ m < nacon /\ contact'[m] = contact[m]
             /\ n < nacon /\ contact'[n] = contact[n]
    BY <2>1 DEF IndInv, ContactInv, UniqueOK
  <2>2. CASE /\ m < nacon /\ contact'[m] = contact[m]
             /\ n = nacon /\ contact'[n] = r
    BY <2>2, <1>3, NewContact
  <2>3. CASE /\ m = nacon /\ contact'[m] = r
             /\ n < nacon /\ contact'[n] = contact[n]
    BY <2>3, <1>3, NewContact
  <2> QED
    BY <2>1, <2>2, <2>3, <1>6
<1> QED
  BY <1>7, <1>8, <1>12, <1>13 DEF ContactInv

LEMMA KernelEndsContact == IndInv /\ KernelEnds => ContactInv'
<1> SUFFICES ASSUME IndInv, KernelEnds PROVE ContactInv'
  OBVIOUS
<1>1. /\ kernel \in DOMAIN Following /\ kernel' = Following[kernel]
      /\ left' = [w \in Writers |-> 0]
      /\ UNCHANGED <<config, setting, globals, ncollision, nacon, contact,
                     collision_pair, mode>>
  BY DEF KernelEnds, Start, data
<1>2. UNCHANGED <<Slots, Forces, Readings, pose, naconmax>>
  BY <1>1, SameResult
<1>3. kernel' # "broad" /\ Upto[kernel] \subseteq Upto[kernel'] /\ kernel' \notin Upto[kernel]
      /\ Upto[kernel] \subseteq Kernels
      /\ (kernel' \in {"flex", "step"} \/ kernel' \in Kernels)
      /\ (kernel = "flex" => kernel' = "step")
  BY <1>1, KernelOrder, UptoGrows DEF Kernels
<1>4. RoutesOK' /\ \A k, t : Takes(k, t)' <=> Takes(k, t)
  BY <1>1, SameRoutes DEF IndInv, ContactInv
<1>5. DistinctOK'
  BY <1>1, <1>2, <1>3 DEF IndInv, ContactInv, DistinctOK, Detecting
<1>6. WorkOK'
  BY <1>1 DEF WorkOK, Writers, Limits
<1>7. Recording
  BY <1>1 DEF IndInv, ListInv, ModeOK, Recording, Detecting
<1>8. ASSUME NEW n \in Slots, n < nacon
      PROVE  Passed(contact[n])'
  <2>1. Passed(contact[n])
    BY <1>7, <1>8 DEF IndInv, ContactInv, RecordsOK
  <2>2. CASE contact[n].of \in Elements
    <3>1. kernel = "flex"
      BY <2>1, <2>2, <1>1, KernelOrder DEF Passed, Kernels
    <3> QED
      BY <3>1, <2>2, <1>1, <1>3 DEF Passed
  <2>3. CASE contact[n].of \notin Elements
    <3>1. PICK s \in Slots :
            /\ s < ncollision /\ collision_pair[s] = contact[n].of
            /\ \E k \in Upto[kernel] : Takes(k, TypeOf[contact[n].of])
      BY <2>1, <2>3 DEF Passed
    <3>2. ~(kernel' \in Kernels /\ Takes(kernel', TypeOf[contact[n].of]))
      BY <3>1, <1>3, OneKernel DEF IndInv, ContactInv
    <3>3. (\E k \in Upto[kernel] : Takes(k, TypeOf[contact[n].of]))'
      BY <3>1, <1>1, <1>3, <1>4
    <3>4. ~(kernel \in Kernels /\ Takes(kernel, TypeOf[contact[n].of]))'
      BY <3>2, <1>1, <1>4
    <3>5. s \in Slots' /\ s < ncollision' /\ collision_pair'[s] = contact'[n].of
      BY <3>1, <1>1, <1>2
    <3>6. contact'[n].of \notin Elements
      BY <2>3, <1>1
    <3> QED
      BY <3>3, <3>4, <3>5, <3>6 DEF Passed
  <2> QED
    BY <2>2, <2>3
<1>9. RecordsOK' /\ UniqueOK'
  BY <1>1, <1>2, <1>7, <1>8 DEF IndInv, ContactInv, RecordsOK, UniqueOK
<1> QED
  BY <1>4, <1>5, <1>6, <1>9 DEF ContactInv

\* The end of the step and what happens between two steps.
LEMMA BetweenContact == IndInv /\ (NextTime \/ Caller) => ContactInv'
<1> SUFFICES ASSUME IndInv, NextTime \/ Caller PROVE ContactInv'
  OBVIOUS
<1>1. kernel \in {"step", "idle"} /\ kernel' = "idle" /\ UNCHANGED <<config, globals, left>>
  BY DEF NextTime, Caller, Idle
<1>2. RoutesOK'
  BY <1>1, SameRoutes DEF IndInv, ContactInv
<1>3. DistinctOK' /\ RecordsOK' /\ UniqueOK'
  BY <1>1, KernelOrder DEF DistinctOK, RecordsOK, UniqueOK, Recording, Detecting, Kernels
<1>4. WorkOK'
  <2>1. \A w \in Writers : ~(left[w] > 0)
    BY <1>1, NothingLeft DEF IndInv, ContactInv, Kernels
  <2> QED
    BY <1>1, <2>1 DEF WorkOK, Writers, Limits
<1> QED
  BY <1>2, <1>3, <1>4 DEF ContactInv

LEMMA UnchangedContact == IndInv /\ UNCHANGED vars => ContactInv'
<1> SUFFICES ASSUME IndInv, UNCHANGED vars PROVE ContactInv'
  OBVIOUS
<1>1. UNCHANGED <<config, setting, globals, data, device>>
  BY DEF vars
<1>2. /\ UNCHANGED <<Slots, Forces, Readings, pose, naconmax>>
      /\ \A p : Recorded(p)' <=> Recorded(p)
  BY <1>1, SameResult
<1>3. RoutesOK' /\ \A k, t : Takes(k, t)' <=> Takes(k, t)
  BY <1>1, SameRoutes DEF IndInv, ContactInv
<1>4. DistinctOK' /\ WorkOK' /\ UniqueOK'
  BY <1>1, <1>2, <1>3
  DEF IndInv, ContactInv, DistinctOK, WorkOK, UniqueOK, Recording, Detecting, data, device,
      Writers, Limits
<1>5. ASSUME NEW n \in Slots, Passed(contact[n])
      PROVE  Passed(contact[n])'
  BY <1>1, <1>2, <1>3, <1>5 DEF Passed, data, device
<1>6. RecordsOK'
  BY <1>1, <1>2, <1>5 DEF IndInv, ContactInv, RecordsOK, Recording, Detecting, data, device
<1> QED
  BY <1>3, <1>4, <1>6 DEF ContactInv

-----------------------------------------------------------------------------
(* Theorems.                                                               *)

LEMMA NextContact == IndInv /\ [Next]_vars => ContactInv'
<1> SUFFICES ASSUME IndInv, [Next]_vars PROVE ContactInv'
  OBVIOUS
<1>1. CASE Host
  BY <1>1, DisabledContact, BeginsContact DEF Host
<1>2. CASE Device
  <2>1. ASSUME NEW p \in Pairs, BroadphaseThread(p) PROVE ContactInv'
    BY <2>1, BroadphaseContact
  <2>2. ASSUME NEW s \in Limits, NarrowphaseThread(s) \/ ConvexThread(s) PROVE ContactInv'
    BY <2>2, NarrowphaseContact
  <2>3. ASSUME NEW e \in Elements, FlexThread(e) PROVE ContactInv'
    BY <2>3, FlexContact
  <2>4. ASSUME NEW w \in Writers, WriteContact(w) PROVE ContactInv'
    BY <2>4, WriteContactContact
  <2> QED
    BY <1>2, <2>1, <2>2, <2>3, <2>4, KernelEndsContact, BetweenContact DEF Device
<1>3. CASE Caller
  BY <1>3, BetweenContact
<1>4. CASE UNCHANGED vars
  BY <1>4, UnchangedContact
<1> QED
  BY <1>1, <1>2, <1>3, <1>4 DEF Next

\* List and contacts together: what is recorded, and what threads still have to.
THEOREM PipelineInductive == Spec => []IndInv
<1>1. Init => IndInv
  BY InitInv, InitContact DEF IndInv
<1>2. IndInv /\ [Next]_vars => IndInv'
  BY NextInv, NextContact DEF IndInv
<1> QED
  BY <1>1, <1>2, PTL DEF Spec

\* The contacts of a step are contacts of its pose, each recorded once.
THEOREM ExactContacts == Spec => []ContactsExact
<1>1. IndInv => ContactsExact
  <2> SUFFICES ASSUME IndInv, kernel = "step", mode # "disabled"
               PROVE  /\ \A c \in Contacts :
                           c # Unwritten /\ c.pose = pose
                           /\ <<c.of, c.point>> \in Forces \cup Readings
                      /\ \A s, t \in {n \in Slots : n < nacon} : s # t =>
                           <<contact[s].of, contact[s].point>>
                             # <<contact[t].of, contact[t].point>>
    BY DEF ContactsExact
  <2>1. Recording
    BY DEF Recording
  <2>2. \A n \in Slots : n < nacon =>
          /\ contact[n] # Unwritten /\ contact[n].pose = pose
          /\ <<contact[n].of, contact[n].point>> \in Forces \cup Readings
    BY <2>1, DistinctAssumption DEF IndInv, ContactInv, RecordsOK
  <2> QED
    BY <2>1, <2>2 DEF Contacts, IndInv, ContactInv, UniqueOK
<1> QED
  BY <1>1, PipelineInductive, PTL

-----------------------------------------------------------------------------
(* The result of a step.                                                   *)

LEMMA PointsFinite ==
  ASSUME NEW S, S \subseteq Pairs
  PROVE  IsFiniteSet(PointsOf(S))
<1> DEFINE f == [p \in S |-> {p} \X (1..Points[p])]
           T == {{p} \X (1..Points[p]) : p \in S}
<1>1. IsFiniteSet(S)
  BY GeometryAssumption, FS_Subset
<1>2. f \in Surjection(S, T)
  BY DEF Surjection
<1>3. IsFiniteSet(T)
  BY <1>1, <1>2, FS_Surjection
<1>4. ASSUME NEW X \in T PROVE IsFiniteSet(X)
  <2>1. PICK p \in S : X = {p} \X (1..Points[p])
    OBVIOUS
  <2>2. IsFiniteSet({p}) /\ IsFiniteSet(1..Points[p])
    <3>1. Points[p] \in Int
      BY ModelAssumption
    <3>2. IsFiniteSet({p})
      BY FS_Singleton
    <3>3. \A n \in Int : IsFiniteSet(1..n)
      BY FS_Interval
    <3> QED
      BY <3>1, <3>2, <3>3
  <2> QED
    BY <2>1, <2>2, FS_Product
<1> QED
  BY <1>3, <1>4, FS_UNION DEF PointsOf

LEMMA ResultFinite ==
  ASSUME ListInv
  PROVE  IsFiniteSet(Forces \cup Readings)
<1>1. pose \in Poses
  BY DEF ListInv, TypeOK
<1>2. IsFiniteSet(PointsOf(Collidable \cap Touching[pose] \cap Reached))
  BY PointsFinite, ModelAssumption
<1>3. IsFiniteSet(Readings)
  BY PointsFinite, ModelAssumption DEF Readings
<1>4. IsFiniteSet(FlexTouching[pose] \X {1})
  <2>1. IsFiniteSet(FlexTouching[pose]) /\ IsFiniteSet({1})
    BY <1>1, GeometryAssumption, FS_Subset, FS_Singleton
  <2> QED
    BY <2>1, FS_Product
<1> QED
  BY <1>2, <1>3, <1>4, FS_Union DEF Forces

LEMMA MadeFinite ==
  ASSUME ListInv
  PROVE  IsFiniteSet(Made) /\ Cardinality(Made) \in Nat
         /\ Cardinality(Made) <= Cardinality(Forces \cup Readings)
<1>1. Made \in SUBSET (Forces \cup Readings)
  BY DEF Made
<1> QED
  BY <1>1, ResultFinite, FS_Subset, FS_CardinalityType

\* A point of the result is one of an element, or of a pair that a kernel sees
\* and will record.
LEMMA ResultPoint ==
  ASSUME ListInv, NEW x \in Forces \cup Readings
  PROVE  \/ x[1] \in FlexTouching[pose] /\ x[1] \in Elements /\ x[2] = 1
         \/ /\ x[1] \in Candidates /\ x[1] \notin Filtered[pose]
            /\ x[1] \in Pairs /\ x[1] \notin Elements
            /\ Recorded(x[1]) /\ x[2] \in 1..Points[x[1]]
<1>1. pose \in Poses
  BY DEF ListInv, TypeOK
<1>2. CASE x \in FlexTouching[pose] \X {1}
  BY <1>1, <1>2, GeometryAssumption
<1>3. ASSUME NEW p \in Reached, Recorded(p), x \in {p} \X (1..Points[p])
      PROVE  /\ x[1] \in Candidates /\ x[1] \notin Filtered[pose]
             /\ Recorded(x[1]) /\ x[2] \in 1..Points[x[1]]
  BY <1>3 DEF Reached
<1>4. CASE x \in PointsOf(Collidable \cap Touching[pose] \cap Reached)
  <2>1. PICK p \in Collidable \cap Touching[pose] \cap Reached : x \in {p} \X (1..Points[p])
    BY <1>4 DEF PointsOf
  <2>2. Recorded(p)
    BY DEF Recorded
  <2>3. \A q \in Candidates : q \in Pairs /\ q \notin Elements
    BY <1>1, CandidatesFinite, DistinctAssumption
  <2> QED
    BY <1>3, <2>1, <2>2, <2>3
<1>5. CASE x \in PointsOf(Sensed \cap Reached)
  <2>1. PICK p \in Sensed \cap Reached : x \in {p} \X (1..Points[p])
    BY <1>5 DEF PointsOf
  <2>2. Recorded(p)
    BY DEF Recorded
  <2>3. \A q \in Candidates : q \in Pairs /\ q \notin Elements
    BY <1>1, CandidatesFinite, DistinctAssumption
  <2> QED
    BY <1>3, <2>1, <2>2, <2>3
<1> QED
  BY <1>2, <1>4, <1>5 DEF Forces, Readings

\* Points and what holds of a recorded contact.
LEMMA MadePair ==
  ASSUME ListInv, NEW x \in Forces \cup Readings, x[1] \notin Elements
  PROVE  x \in Made <=>
           \E s \in Slots :
             /\ s < ncollision /\ collision_pair[s] = x[1]
             /\ \E k \in Upto[kernel] : Takes(k, TypeOf[x[1]])
             /\ kernel \in Kernels /\ Takes(kernel, TypeOf[x[1]]) => s \in ran /\ left[s] < x[2]
BY DEF Made, Passed

LEMMA MadeElement ==
  ASSUME ListInv, NEW x \in Forces \cup Readings, x[1] \in Elements
  PROVE  x \in Made <=>
           /\ kernel \in {"flex", "step"}
           /\ kernel = "flex" => x[1] \in ran /\ left[x[1]] < x[2]
BY DEF Made, Passed

\* What pose, broadphase and capacities determine.
LEMMA SameStep ==
  UNCHANGED <<config, setting>> =>
    /\ UNCHANGED <<Examined, Candidates, Reached, Slots, Forces, Readings, pose, naconmax, naccdmax>>
    /\ \A t : OfType(t)' = OfType(t)
    /\ \A p : Purpose(p)' = Purpose(p)
BY DEF config, setting, Examined, Candidates, Candidate, Reached, PointsOf, Slots, Forces, Readings,
       OfType, Purpose

\* During the broadphase nothing has been made.
LEMMA BroadMade ==
  ASSUME ListInv, kernel = "broad"
  PROVE  Made = {}
<1> SUFFICES ASSUME NEW x \in Made PROVE FALSE
  OBVIOUS
<1>1. x \in Forces \cup Readings
  BY DEF Made
<1> QED
  BY <1>1, MadePair, MadeElement, UptoGrows

-----------------------------------------------------------------------------
(* The host.                                                               *)

LEMMA InitLoss == Init => LossInv
<1> SUFFICES ASSUME Init PROVE LossInv
  OBVIOUS
<1>1. kernel = "idle" /\ reports = {} /\ mode = "none"
  BY DEF Init
<1> QED
  BY <1>1, KernelOrder
  DEF LossInv, ListedOK, RoutedOK, MemoryOK, CcdOK, HfieldOK, EarlyOK, PurposeOK, NumberOK, KeptOK,
      Recording,
      Detecting, Kernels, Idle, NoContactLostSilently, AlarmsJustified

LEMMA DisabledLoss == IndInv /\ LossInv /\ CollisionDisabled => LossInv'
<1> SUFFICES ASSUME CollisionDisabled PROVE LossInv'
  OBVIOUS
<1>1. kernel' = "step" /\ reports' = {} /\ mode' = "disabled"
  BY DEF CollisionDisabled
<1> QED
  BY <1>1
  DEF LossInv, ListedOK, RoutedOK, MemoryOK, CcdOK, HfieldOK, EarlyOK, PurposeOK, NumberOK, KeptOK,
      Recording,
      Idle, NoContactLostSilently, AlarmsJustified

\* The table and the list of primitive types leave no type without a kernel.
LEMMA TableRouted ==
  ASSUME TypeOK, NarrowphaseTable, NEW t \in Types
  PROVE  (\E k \in Kernels : Takes(k, t))'
<1>1. Route[t] \in Kernels /\ table' \in {"convex", "primitive"}
  BY ModelAssumption DEF NarrowphaseTable, TypeOK
<1>2. primitive_types' = primitive_types \cup {u \in Types : IF u = BoxBox THEN table' = "primitive"
                                                         ELSE Route[u] = "primitive"}
  BY DEF NarrowphaseTable
<1>3. CASE t = BoxBox /\ table' = "convex"
  <2>1. Takes("convex", t)'
    BY <1>3 DEF Takes
  <2> QED
    BY <2>1 DEF Kernels
<1>4. CASE t = BoxBox /\ table' = "primitive"
  <2>1. t \in primitive_types'
    BY <1>2, <1>4
  <2>2. Takes("primitive", t)'
    BY <2>1 DEF Takes
  <2> QED
    BY <2>2 DEF Kernels
<1>5. CASE t # BoxBox /\ Route[t] = "primitive"
  <2>1. t \in primitive_types'
    BY <1>2, <1>5
  <2>2. Takes("primitive", t)'
    BY <2>1 DEF Takes
  <2> QED
    BY <2>2 DEF Kernels
<1>6. CASE t # BoxBox /\ Route[t] # "primitive"
  <2>1. Takes(Route[t], t)'
    BY <1>6 DEF Takes
  <2> QED
    BY <2>1, <1>1
<1> QED
  BY <1>1, <1>3, <1>4, <1>5, <1>6

LEMMA BeginsLoss == IndInv /\ LossInv /\ (CollisionSearched \/ CollisionCached) => LossInv'
<1> SUFFICES ASSUME IndInv, CollisionSearched \/ CollisionCached PROVE LossInv'
  OBVIOUS
<1>1. /\ nacon' = 0 /\ ncollision' = 0 /\ reports' = {} /\ ran' = {}
      /\ nccd' = [t \in Types |-> 0] /\ NarrowphaseTable /\ UNCHANGED <<config, setting>>
      /\ \/ kernel' = "broad" /\ mode' = "searched"
         \/ kernel' = "convex" /\ mode' = "cached"
  BY DEF CollisionSearched, CollisionCached, ZeroCounters, Start, NarrowphaseTable
<1>2. \A s \in Slots' : ~ (s < ncollision') /\ ~ (s < nacon')
  BY <1>1 DEF Slots
<1>3. ListedOK' /\ CcdOK' /\ HfieldOK' /\ EarlyOK'
  BY <1>1 DEF ListedOK, CcdOK, HfieldOK, EarlyOK
<1>4. RoutedOK'
  BY <1>1, TableRouted DEF IndInv, ListInv, RoutedOK
<1>5. MemoryOK'
  <2>1. ASSUME NEW t \in Types PROVE Cardinality(Asking(t)') = 0
    <3>1. Asking(t)' = {}
      BY <1>2 DEF Asking
    <3> QED
      BY <3>1, FS_EmptySet
  <2> QED
    BY <1>1, <2>1 DEF MemoryOK
<1>6. Made' = {}
  <2> SUFFICES ASSUME NEW c, Passed(c)' PROVE FALSE
    BY DEF Made
  <2>1. CASE c.of \in Elements
    BY <1>1, <2>1 DEF Passed
  <2>2. CASE c.of \notin Elements
    BY <1>2, <2>2 DEF Passed
  <2> QED
    BY <2>1, <2>2
<1>7. PurposeOK'
  BY <1>2 DEF PurposeOK
<1>8. NumberOK' /\ KeptOK'
  BY <1>1, <1>6, FS_EmptySet DEF NumberOK, KeptOK
<1>9. NoContactLostSilently' /\ AlarmsJustified'
  BY <1>1 DEF NoContactLostSilently, AlarmsJustified, Idle
<1> QED
  BY <1>3, <1>4, <1>5, <1>7, <1>8, <1>9 DEF LossInv

-----------------------------------------------------------------------------
(* The broadphase.                                                         *)

LEMMA BroadphaseLoss ==
  ASSUME IndInv, LossInv, NEW p \in Pairs, BroadphaseThread(p)
  PROVE  LossInv'
<1>1. /\ kernel = "broad" /\ p \in Examined \ ran /\ ran' = ran \cup {p}
      /\ UNCHANGED <<config, setting, globals, nacon, contact, nccd, kernel, reports, mode>>
  BY ThreadsOf DEF BroadphaseThread, Begin
<1>2. /\ UNCHANGED <<Examined, Candidates, Reached, Slots, Forces, Readings, pose, naconmax, naccdmax>>
      /\ \A t : OfType(t)' = OfType(t)
      /\ \A q : Purpose(q)' = Purpose(q)
  BY <1>1, SameStep
<1>3. Recording' = Recording /\ ~ Idle
  BY <1>1 DEF Recording, Detecting, Idle
<1>4. ncollision \in Nat /\ naconmax \in Nat /\ Slots \subseteq Limits
      /\ collision_pair \in [Limits -> Pairs \cup {Unwritten}]
  BY SizesAssumption, SlotsInLimits, GeometryAssumption, FS_CardinalityType DEF IndInv, ListInv, TypeOK
<1>5. ListedOK'
  <2> SUFFICES ASSUME mode = "searched", ncollision' <= naconmax, NEW q \in Candidates, q \in ran'
               PROVE  \E s \in Slots : s < ncollision' /\ collision_pair'[s] = q
    BY <1>1, <1>2 DEF ListedOK, Idle
  <2>1. CASE q = p
    <3>1. Candidate(p)
      BY <2>1 DEF Candidates
    <3>2. ncollision' = ncollision + 1 /\ ncollision < naconmax
          /\ collision_pair' = [collision_pair EXCEPT ![ncollision] = p]
      BY <3>1, <1>4 DEF BroadphaseThread
    <3>3. ncollision \in Slots
      BY <3>2, <1>4 DEF Slots
    <3>4. collision_pair'[ncollision] = p /\ ncollision < ncollision'
      BY <3>2, <3>3, <1>4
    <3> QED
      BY <2>1, <3>3, <3>4
  <2>2. CASE q # p
    <3>1. ncollision' >= ncollision
      BY <1>4 DEF BroadphaseThread
    <3>2. PICK s \in Slots : s < ncollision /\ collision_pair[s] = q
      BY <1>1, <1>3, <1>4, <2>2, <3>1 DEF LossInv, ListedOK, BroadphaseThread
    <3>3. s \in Limits /\ s \in Int /\ s # ncollision
      BY <3>2, <1>4 DEF Slots
    <3>4. collision_pair'[s] = collision_pair[s] /\ s < ncollision'
      BY <3>2, <3>3, <1>4 DEF BroadphaseThread
    <3> QED
      BY <3>2, <3>4
  <2> QED
    BY <2>1, <2>2
<1>6. RoutedOK'
  BY <1>1, <1>3, SameRoutes DEF LossInv, RoutedOK
<1>7. MemoryOK' /\ CcdOK' /\ HfieldOK' /\ EarlyOK' /\ PurposeOK'
  BY <1>1, <1>2, <1>3 DEF LossInv, MemoryOK, CcdOK, HfieldOK, EarlyOK, PurposeOK, Idle
<1>8. Made' = {} /\ Made = {}
  <2>1. Made = {}
    BY <1>1, BroadMade DEF IndInv
  <2>2. ASSUME NEW c, Passed(c)' PROVE FALSE
    <3>1. kernel' = "broad" /\ Upto[kernel'] = {}
      BY <1>1, UptoGrows
    <3>2. CASE c.of \in Elements
      BY <2>2, <3>1, <3>2 DEF Passed
    <3>3. CASE c.of \notin Elements
      BY <2>2, <3>1, <3>3 DEF Passed
    <3> QED
      BY <3>2, <3>3
  <2> QED
    BY <2>1, <2>2 DEF Made
<1>9. NumberOK' /\ KeptOK'
  BY <1>1, <1>3, <1>8 DEF LossInv, NumberOK, KeptOK
<1>10. NoContactLostSilently' /\ AlarmsJustified'
  BY <1>1 DEF NoContactLostSilently, AlarmsJustified, Idle
<1> QED
  BY <1>5, <1>6, <1>7, <1>9, <1>10 DEF LossInv

-----------------------------------------------------------------------------
(* The narrowphase.                                                        *)

\* A thread without a pair, or with one the filter of height fields drops.
Skips(s) == Listed(s) /\ Takes(kernel, TypeOf[collision_pair[s]])
              => collision_pair[s] \in Filtered[pose]

\* A thread takes its turn.  What it gives up is behind it at once; if it goes
\* idle or gets work the points behind stay the same.
LEMMA TurnMade ==
  ASSUME IndInv, NEW s \in Slots, kernel \in Kernels, s \notin ran, ran' = ran \cup {s},
         UNCHANGED <<config, setting, globals, ncollision, nacon, contact,
                     collision_pair, kernel, mode>>,
         UNCHANGED left \/ Turns(s)
  PROVE  /\ Made \subseteq Made' /\ Made' \subseteq Forces \cup Readings
         /\ Skips(s) \/ Works(s) => Made' \subseteq Made
<1>1. UNCHANGED <<Slots, Forces, Readings>> /\ \A k, t : Takes(k, t)' <=> Takes(k, t)
  BY SameStep, SameRoutes
<1>2. left \in [Writers -> Nat] /\ s \in Writers /\ Slots \subseteq Writers
  BY Disjoint, SlotsInLimits DEF IndInv, ListInv, TypeOK, Writers
<1>3. \A w \in Writers : w # s => left'[w] = left[w]
  BY <1>2 DEF Turns, Finds
<1>4. kernel' = kernel /\ kernel \notin {"flex", "step"}
  BY DEF Kernels
<1>5. ASSUME NEW x \in Forces \cup Readings, x[1] \notin Elements
      PROVE  x \in Made' <=>
               \E u \in Slots :
                 /\ u < ncollision /\ collision_pair[u] = x[1]
                 /\ \E k \in Upto[kernel] : Takes(k, TypeOf[x[1]])
                 /\ kernel \in Kernels /\ Takes(kernel, TypeOf[x[1]]) => u \in ran' /\ left'[u] < x[2]
  BY <1>1, <1>4, <1>5 DEF Made, Passed
<1>6. ASSUME NEW x \in Forces \cup Readings, x[1] \in Elements
      PROVE  x \notin Made /\ x \notin Made'
  BY <1>1, <1>4, <1>6 DEF Made, Passed
<1>7. Made \subseteq Forces \cup Readings /\ Made' \subseteq Forces \cup Readings
  BY <1>1 DEF Made
<1>8. ASSUME NEW x \in Made PROVE x \in Made'
  <2>1. x \in Forces \cup Readings /\ x[1] \notin Elements
    BY <1>6, <1>7
  <2>2. PICK u \in Slots :
          /\ u < ncollision /\ collision_pair[u] = x[1]
          /\ \E k \in Upto[kernel] : Takes(k, TypeOf[x[1]])
          /\ kernel \in Kernels /\ Takes(kernel, TypeOf[x[1]]) => u \in ran /\ left[u] < x[2]
    BY <2>1, <1>8, MadePair DEF IndInv
  <2>3. kernel \in Kernels /\ Takes(kernel, TypeOf[x[1]]) => u \in ran' /\ left'[u] < x[2]
    BY <2>2, <1>2, <1>3
  <2> QED
    BY <1>5, <2>1, <2>2, <2>3
<1>9. ASSUME Skips(s) \/ Works(s), NEW x \in Made'
      PROVE  x \in Made
  <2>1. x \in Forces \cup Readings /\ x[1] \notin Elements
    BY <1>6, <1>7
  <2>2. /\ Recorded(x[1]) /\ x[2] \in 1..Points[x[1]]
        /\ x[1] \in Pairs /\ x[1] \notin Filtered[pose]
    BY <2>1, ResultPoint DEF IndInv
  <2>3. PICK u \in Slots :
          /\ u < ncollision /\ collision_pair[u] = x[1]
          /\ \E k \in Upto[kernel] : Takes(k, TypeOf[x[1]])
          /\ kernel \in Kernels /\ Takes(kernel, TypeOf[x[1]]) => u \in ran' /\ left'[u] < x[2]
    BY <1>5, <1>9, <2>1
  <2>4. CASE u = s /\ Takes(kernel, TypeOf[x[1]])
    <3>1. Listed(s) /\ Works(s)
      BY <1>9, <2>2, <2>3, <2>4 DEF Listed, Skips
    <3>2. left'[s] = Points[x[1]]
      BY <1>2, <2>2, <2>3, <2>4, <3>1 DEF Works, Finds
    <3>3. Points[x[1]] \in Nat
      BY <2>2, ModelAssumption
    <3> QED
      BY <2>2, <2>3, <2>4, <3>2, <3>3
  <2>5. CASE ~ (u = s /\ Takes(kernel, TypeOf[x[1]]))
    <3>1. kernel \in Kernels /\ Takes(kernel, TypeOf[x[1]]) => u \in ran /\ left[u] < x[2]
      BY <1>2, <1>3, <2>3, <2>5
    <3> QED
      BY <2>1, <2>3, <3>1, MadePair DEF IndInv
  <2> QED
    BY <2>4, <2>5
<1> QED
  BY <1>7, <1>8, <1>9

\* What a turn leaves to be shown: who takes memory and who gives up.
LEMMA TurnLoss ==
  ASSUME IndInv, LossInv, NEW s \in Slots, kernel \in Kernels, s \notin ran, ran' = ran \cup {s},
         UNCHANGED <<config, setting, globals, ncollision, nacon, contact,
                     collision_pair, kernel, mode>>,
         UNCHANGED left \/ Turns(s),
         \/ reports' = reports \cup {"ccd"}
         \/ reports' = reports \cup {"hfield"}
         \/ reports' = reports /\ (Skips(s) \/ Works(s)),
         MemoryOK', CcdOK', HfieldOK'
  PROVE  LossInv'
<1>1. /\ UNCHANGED <<Examined, Candidates, Reached, Slots, Forces, Readings, pose, naconmax, naccdmax>>
      /\ \A t : OfType(t)' = OfType(t)
      /\ \A p : Purpose(p)' = Purpose(p)
  BY SameStep
<1>2. Recording' = Recording /\ ~ Idle /\ ~ Idle' /\ kernel # "broad"
  BY DEF Recording, Detecting, Idle, Kernels
<1>3. Made \subseteq Made' /\ Made' \subseteq Forces \cup Readings
  BY TurnMade
<1>4. ListedOK'
  BY <1>1, <1>2 DEF LossInv, ListedOK
<1>5. RoutedOK'
  BY <1>2, SameRoutes DEF LossInv, RoutedOK
<1>6. EarlyOK' /\ PurposeOK'
  BY <1>1, <1>2 DEF LossInv, EarlyOK, PurposeOK
<1>7. NumberOK'
  <2>1. IsFiniteSet(Made') /\ Cardinality(Made) <= Cardinality(Made')
    BY <1>3, ResultFinite, FS_Subset DEF IndInv
  <2>2. Cardinality(Made) \in Nat /\ Cardinality(Made') \in Nat
    BY <2>1, MadeFinite, FS_CardinalityType DEF IndInv
  <2>3. nacon \in Nat
    BY DEF IndInv, ListInv, TypeOK
  <2> QED
    BY <1>2, <2>1, <2>2, <2>3 DEF LossInv, NumberOK
<1>8. KeptOK'
  <2>1. CASE "ccd" \in reports' \/ "hfield" \in reports'
    BY <2>1 DEF KeptOK
  <2>2. CASE ~ ("ccd" \in reports' \/ "hfield" \in reports')
    <3>1. Made' = Made /\ reports' = reports
      BY <1>3, <2>2, TurnMade
    <3> QED
      BY <1>1, <1>2, <3>1 DEF LossInv, KeptOK
  <2> QED
    BY <2>1, <2>2
<1>9. NoContactLostSilently' /\ AlarmsJustified'
  BY <1>2 DEF NoContactLostSilently, AlarmsJustified
<1> QED
  BY <1>4, <1>5, <1>6, <1>7, <1>8, <1>9 DEF LossInv

LEMMA NarrowphaseLoss ==
  ASSUME IndInv, LossInv, NEW s \in Limits, NarrowphaseThread(s)
  PROVE  LossInv'
<1>1. PICK k \in {"primitive", "sdf"} : Begin(k, s)
  BY DEF NarrowphaseThread
<1>2. kernel \in {"primitive", "sdf"} /\ s \in Slots /\ s \notin ran /\ ran' = ran \cup {s}
  BY <1>1, ThreadsOf DEF Begin, Kernels
<1>3. /\ UNCHANGED <<config, setting, globals, ncollision, nacon, contact, collision_pair, kernel, mode>>
      /\ reports' = reports
      /\ (Skips(s) /\ UNCHANGED left) \/ (Listed(s) /\ Works(s))
  BY DEF NarrowphaseThread, Idles, Skips
<1>4. MemoryOK'
  BY <1>2, <1>3 DEF MemoryOK
<1>5. CcdOK' /\ HfieldOK'
  <2>1. UNCHANGED <<naccdmax, Reached, pose>> /\ \A t : OfType(t)' = OfType(t)
    BY <1>3, SameStep
  <2> QED
    BY <1>3, <2>1 DEF LossInv, CcdOK, HfieldOK
<1>6. kernel \in Kernels
  BY <1>2 DEF Kernels
<1>7. UNCHANGED left \/ Turns(s)
  BY <1>2, <1>3, <1>6, WorksTurns DEF IndInv
<1> QED
  BY <1>2, <1>3, <1>4, <1>5, <1>6, <1>7, TurnLoss

\* The pairs that asked are listed candidates.
LEMMA AskingFinite ==
  ASSUME IndInv, kernel = "convex", NEW t
  PROVE  /\ Asking(t) \subseteq OfType(t) /\ OfType(t) \subseteq Candidates
         /\ IsFiniteSet(Asking(t)) /\ IsFiniteSet(OfType(t))
         /\ Cardinality(Asking(t)) \in Nat /\ Cardinality(OfType(t)) \in Nat
         /\ Cardinality(Asking(t)) <= Cardinality(OfType(t))
<1>1. \A u \in Slots : u < ncollision => collision_pair[u] \in Candidates
  BY KernelOrder DEF IndInv, ListInv, ListOK, Detecting, Kernels
<1>2. Asking(t) \subseteq OfType(t)
  BY <1>1 DEF Asking, OfType, Reached
<1>3. OfType(t) \subseteq Candidates
  BY DEF OfType, Reached
<1>4. IsFiniteSet(Candidates)
  BY CandidatesFinite DEF IndInv, ListInv, TypeOK
<1>5. IsFiniteSet(OfType(t))
  BY <1>3, <1>4, FS_Subset
<1>6. IsFiniteSet(Asking(t)) /\ Cardinality(Asking(t)) <= Cardinality(OfType(t))
  BY <1>2, <1>5, FS_Subset
<1> QED
  BY <1>2, <1>3, <1>5, <1>6, FS_CardinalityType

LEMMA AskingNext ==
  ASSUME IndInv, kernel = "convex", NEW s \in Slots, s \notin ran, ran' = ran \cup {s},
         UNCHANGED <<config, setting, globals, ncollision, collision_pair>>, NEW t
  PROVE  IF /\ Listed(s) /\ TypeOf[collision_pair[s]] = t /\ Takes("convex", t)
            /\ collision_pair[s] \notin Filtered[pose]
         THEN Asking(t)' = Asking(t) \cup {collision_pair[s]} /\ collision_pair[s] \notin Asking(t)
         ELSE Asking(t)' = Asking(t)
<1>1. Slots' = Slots /\ pose' = pose /\ (Takes("convex", t)' <=> Takes("convex", t))
  BY SameStep, SameRoutes
<1>2. \A u \in Slots : u \in ran /\ u < ncollision /\ s < ncollision
        => collision_pair[u] # collision_pair[s]
  BY KernelOrder DEF IndInv, ContactInv, DistinctOK, Detecting, Kernels
<1>3. CASE /\ Listed(s) /\ TypeOf[collision_pair[s]] = t /\ Takes("convex", t)
           /\ collision_pair[s] \notin Filtered[pose]
  <2>1. Asking(t)' = Asking(t) \cup {collision_pair[s]}
    BY <1>1, <1>3 DEF Asking, Listed
  <2>2. collision_pair[s] \notin Asking(t)
    BY <1>2, <1>3 DEF Asking, Listed
  <2> QED
    BY <1>3, <2>1, <2>2
<1>4. CASE ~ (/\ Listed(s) /\ TypeOf[collision_pair[s]] = t /\ Takes("convex", t)
              /\ collision_pair[s] \notin Filtered[pose])
  BY <1>1, <1>4 DEF Asking, Listed
<1> QED
  BY <1>3, <1>4

LEMMA ConvexLoss ==
  ASSUME IndInv, LossInv, NEW s \in Limits, ConvexThread(s)
  PROVE  LossInv'
<1>1. kernel = "convex" /\ kernel \in Kernels /\ s \in Slots /\ s \notin ran /\ ran' = ran \cup {s}
  BY ThreadsOf DEF ConvexThread, Begin, Kernels
<1>2. UNCHANGED <<config, setting, globals, ncollision, nacon, contact, collision_pair, kernel, mode>>
  BY DEF ConvexThread
<1>3. UNCHANGED <<naccdmax, Reached, pose>> /\ \A t : OfType(t)' = OfType(t)
  BY <1>2, SameStep
<1>4. nccd \in [Types -> Nat] /\ \A t \in Types : nccd[t] = Cardinality(Asking(t))
  BY <1>1 DEF IndInv, ListInv, TypeOK, LossInv, MemoryOK
<1>5. CASE Skips(s) /\ UNCHANGED <<left, nccd, reports>>
  <2>1. Skips(s) /\ UNCHANGED <<left, nccd, reports>>
    BY <1>5
  <2>2. \A t \in Types : Asking(t)' = Asking(t)
    BY <1>1, <1>2, <2>1, AskingNext DEF Skips
  <2>3. MemoryOK'
    BY <1>1, <1>2, <1>4, <2>1, <2>2 DEF MemoryOK
  <2>4. CcdOK' /\ HfieldOK'
    BY <1>2, <1>3, <2>1 DEF LossInv, CcdOK, HfieldOK
  <2> QED
    BY <1>1, <1>2, <2>1, <2>3, <2>4, TurnLoss
<1>6. CASE ~ (Skips(s) /\ UNCHANGED <<left, nccd, reports>>)
  <2>0. PICK t0 : t0 = TypeOf[collision_pair[s]]
    OBVIOUS
  <2>1. /\ Listed(s) /\ Takes("convex", t0) /\ collision_pair[s] \notin Filtered[pose]
        /\ nccd' = [nccd EXCEPT ![t0] = @ + 1]
        /\ \/ Works(s) /\ UNCHANGED reports
           \/ collision_pair[s] \in Crowded[pose] /\ WorksInPart(s)
           \/ nccd[t0] >= naccdmax /\ reports' = reports \cup {"ccd"} /\ UNCHANGED left
    BY <1>1, <1>6, <2>0 DEF ConvexThread, CcdOverflow, Idles, Skips
  <2>9. collision_pair[s] \in Reached
    BY <1>1, <2>1, KernelOrder DEF IndInv, ListInv, ListOK, Detecting, Listed, Reached
  <2>2. t0 \in Types
    <3>1. collision_pair[s] \in Pairs
      BY <1>1, <2>1, KernelOrder, CandidatesFinite
      DEF IndInv, ListInv, ListOK, Detecting, Listed, TypeOK
    <3> QED
      BY <2>0, <3>1, ModelAssumption
  <2>3. Asking(t0)' = Asking(t0) \cup {collision_pair[s]} /\ collision_pair[s] \notin Asking(t0)
    BY <1>1, <1>2, <2>0, <2>1, AskingNext
  <2>4. Cardinality(Asking(t0)') = nccd[t0] + 1
    <3>1. Cardinality(Asking(t0) \cup {collision_pair[s]}) = Cardinality(Asking(t0)) + 1
      BY <1>1, <2>3, AskingFinite, FS_AddElement
    <3> QED
      BY <1>4, <2>2, <2>3, <3>1
  <2>5. \A t \in Types \ {t0} : Asking(t)' = Asking(t)
    BY <1>1, <1>2, <2>0, AskingNext
  <2>6. MemoryOK'
    <3>1. \A t \in Types : nccd'[t] = Cardinality(Asking(t)')
      <4> SUFFICES ASSUME NEW t \in Types PROVE nccd'[t] = Cardinality(Asking(t)')
        OBVIOUS
      <4>1. CASE t = t0
        BY <1>4, <2>1, <2>2, <2>4, <4>1
      <4>2. CASE t # t0
        BY <1>4, <2>1, <2>2, <2>5, <4>2
      <4> QED
        BY <4>1, <4>2
    <3> QED
      BY <1>1, <1>2, <3>1 DEF MemoryOK
  <2>7. CcdOK'
    <3>1. CASE reports' \subseteq reports \cup {"hfield"}
      BY <1>2, <1>3, <3>1 DEF LossInv, CcdOK
    <3>2. CASE nccd[t0] >= naccdmax
      <4>1. Asking(t0)' \subseteq OfType(t0)
        <5>1. collision_pair[s] \in OfType(t0)
          BY <2>0, <2>9 DEF OfType
        <5> QED
          BY <1>1, <2>3, <5>1, AskingFinite
      <4>2. Cardinality(Asking(t0)') <= Cardinality(OfType(t0))
        BY <1>1, <4>1, AskingFinite, FS_Subset
      <4>3. naccdmax \in Nat /\ nccd[t0] \in Nat /\ Cardinality(OfType(t0)) \in Nat
        BY <1>1, <1>4, <2>2, SizesAssumption, AskingFinite DEF IndInv, ListInv, TypeOK
      <4>4. Cardinality(OfType(t0)) > naccdmax
        BY <2>4, <3>2, <4>2, <4>3
      <4> QED
        BY <1>3, <2>2, <4>4 DEF CcdOK
    <3> QED
      BY <2>1, <3>1, <3>2 DEF WorksInPart
  <2>8. HfieldOK'
    <3>1. CASE reports' \subseteq reports \cup {"ccd"}
      BY <1>2, <1>3, <3>1 DEF LossInv, HfieldOK
    <3>2. CASE collision_pair[s] \in Crowded[pose]
      BY <1>3, <2>9, <3>2 DEF HfieldOK
    <3> QED
      BY <2>1, <3>1, <3>2
  <2>10. /\ UNCHANGED left \/ Turns(s)
         /\ \/ reports' = reports \cup {"ccd"}
            \/ reports' = reports \cup {"hfield"}
            \/ reports' = reports /\ (Skips(s) \/ Works(s))
    BY <1>1, <2>1, WorksTurns DEF IndInv, WorksInPart
  <2> QED
    BY <1>1, <1>2, <2>6, <2>7, <2>8, <2>10, TurnLoss
<1> QED
  BY <1>5, <1>6

-----------------------------------------------------------------------------
(* Flex elements.                                                          *)

LEMMA FlexLoss ==
  ASSUME IndInv, LossInv, NEW e \in Elements, FlexThread(e)
  PROVE  LossInv'
<1>1. /\ kernel = "flex" /\ e \notin ran /\ ran' = ran \cup {e}
      /\ left' = [left EXCEPT ![e] = IF e \in FlexTouching[pose] THEN 1 ELSE 0]
      /\ UNCHANGED <<config, setting, globals, ncollision, nacon, contact, nccd,
                     collision_pair, kernel, reports, mode>>
  BY DEF FlexThread, Begin, data
<1>2. /\ UNCHANGED <<Examined, Candidates, Reached, Slots, Forces, Readings, pose, naconmax, naccdmax>>
      /\ \A t : OfType(t)' = OfType(t)
      /\ \A q : Purpose(q)' = Purpose(q)
  BY <1>1, SameStep
<1>3. left \in [Writers -> Nat] /\ e \in Writers
  BY DEF IndInv, ListInv, TypeOK, Writers
<1>4. Recording' = Recording /\ ~ Idle /\ ~ Idle'
  BY <1>1 DEF Recording, Detecting, Idle
<1>5. Made' = Made
  <2> SUFFICES ASSUME NEW x \in Forces \cup Readings
               PROVE  x \in Made' <=> x \in Made
    BY <1>2 DEF Made
  <2>1. CASE x[1] \in Elements
    <3>1. x \in Made <=> x[1] \in ran /\ left[x[1]] < x[2]
      BY <1>1, <2>1, MadeElement DEF IndInv
    <3>2. x \in Made' <=> x[1] \in ran' /\ left'[x[1]] < x[2]
      BY <1>1, <1>2, <2>1 DEF Made, Passed
    <3>3. CASE x[1] = e
      <4>1. x[1] \in FlexTouching[pose] /\ x[2] = 1
        BY <2>1, ResultPoint DEF IndInv
      <4> QED
        BY <1>1, <1>3, <3>1, <3>2, <3>3, <4>1
    <3>4. CASE x[1] # e
      <4>1. x[1] \in Writers
        BY <2>1 DEF Writers
      <4> QED
        BY <1>1, <1>3, <3>1, <3>2, <3>4, <4>1
    <3> QED
      BY <3>3, <3>4
  <2>2. CASE x[1] \notin Elements
    BY <1>1, <1>2, <2>2, SameRoutes DEF Made, Passed, Kernels
  <2> QED
    BY <2>1, <2>2
<1>6. ListedOK' /\ MemoryOK' /\ CcdOK' /\ HfieldOK' /\ EarlyOK' /\ PurposeOK'
  BY <1>1, <1>2, <1>4 DEF LossInv, ListedOK, MemoryOK, CcdOK, HfieldOK, EarlyOK, PurposeOK
<1>7. RoutedOK'
  BY <1>1, <1>4, SameRoutes DEF LossInv, RoutedOK
<1>8. NumberOK' /\ KeptOK'
  BY <1>1, <1>2, <1>4, <1>5 DEF LossInv, NumberOK, KeptOK
<1>9. NoContactLostSilently' /\ AlarmsJustified'
  BY <1>4 DEF NoContactLostSilently, AlarmsJustified
<1> QED
  BY <1>6, <1>7, <1>8, <1>9 DEF LossInv

-----------------------------------------------------------------------------
(* Recording.                                                              *)

LEMMA ResultTuple ==
  ASSUME ListInv, NEW x \in Forces \cup Readings
  PROVE  x = <<x[1], x[2]>>
<1>1. CASE x \in FlexTouching[pose] \X {1}
  BY <1>1
<1>2. ASSUME NEW p, x \in {p} \X (1..Points[p])
      PROVE  x = <<x[1], x[2]>>
  BY <1>2
<1> QED
  BY <1>1, <1>2 DEF Forces, Readings, PointsOf

\* A point recorded is one more point behind us.
LEMMA WriteMade ==
  ASSUME IndInv, NEW w \in Writers, WriteContact(w)
  PROVE  /\ Made' = Made \cup {<<Record(w).of, Record(w).point>>}
         /\ <<Record(w).of, Record(w).point>> \notin Made
<1> DEFINE r == Record(w)
           y == <<r.of, r.point>>
<1>1. /\ UNCHANGED <<config, setting, globals, ncollision, collision_pair, kernel, ran, mode>>
      /\ left[w] > 0 /\ left' = [left EXCEPT ![w] = @ - 1]
  BY DEF WriteContact
<1>2. UNCHANGED <<Slots, Forces, Readings>> /\ \A k, t : Takes(k, t)' <=> Takes(k, t)
  BY <1>1, SameStep, SameRoutes
<1>3. left \in [Writers -> Nat]
  BY DEF IndInv, ListInv, TypeOK
<1>4. y \in Forces \cup Readings
  BY <1>1, NewContact
<1>5. CASE w \in Elements
  <2>1. kernel = "flex" /\ left[w] = 1 /\ r.of = w /\ r.point = 1 /\ w \in ran
    BY <1>1, <1>5 DEF IndInv, ContactInv, WorkOK, Record
  <2>2. ASSUME NEW x \in Forces \cup Readings, x[1] \in Elements
        PROVE  /\ x \in Made <=> x[1] \in ran /\ left[x[1]] < 1
               /\ x \in Made' <=> x[1] \in ran /\ left'[x[1]] < 1
               /\ x = <<x[1], 1>>
    <3>1. x[2] = 1 /\ x = <<x[1], x[2]>>
      BY <2>2, ResultPoint, ResultTuple DEF IndInv
    <3>2. x \in Made <=> x[1] \in ran /\ left[x[1]] < x[2]
      BY <2>1, <2>2, MadeElement DEF IndInv
    <3>3. x \in Made' <=> x[1] \in ran /\ left'[x[1]] < x[2]
      BY <1>1, <1>2, <2>1, <2>2 DEF Made, Passed
    <3> QED
      BY <3>1, <3>2, <3>3
  <2>3. ASSUME NEW x \in Forces \cup Readings, x[1] \notin Elements
        PROVE  x \in Made' <=> x \in Made
    BY <1>1, <1>2, <2>1, <2>3 DEF Made, Passed, Kernels
  <2>4. y \notin Made /\ y \in Made'
    <3>1. y[1] = w /\ y[1] \in Elements
      BY <1>5, <2>1
    <3>2. left'[w] = 0
      BY <1>1, <1>3, <2>1
    <3> QED
      BY <1>4, <2>1, <2>2, <3>1, <3>2
  <2>5. ASSUME NEW x \in Forces \cup Readings, x # y
        PROVE  x \in Made' <=> x \in Made
    <3>1. CASE x[1] \in Elements
      <4>1. x[1] # w /\ x[1] \in Writers
        BY <2>1, <2>2, <2>5, <3>1 DEF Writers
      <4>2. left'[x[1]] = left[x[1]]
        BY <1>1, <1>3, <4>1
      <4> QED
        BY <2>2, <3>1, <4>2
    <3> QED
      BY <2>3, <3>1
  <2> QED
    BY <1>2, <1>4, <2>4, <2>5 DEF Made
<1>6. CASE w \notin Elements
  <2> DEFINE p == collision_pair[w]
  <2>1. kernel \in Kernels /\ kernel \notin {"flex", "step"} /\ w \in Slots /\ w < ncollision
        /\ w \in ran /\ Takes(kernel, TypeOf[p]) /\ kernel \in Upto[kernel]
        /\ r.of = p /\ r.point = left[w]
    BY <1>1, <1>6, UptoGrows DEF IndInv, ListInv, LeftOK, ContactInv, WorkOK, Record, Kernels
  <2>2. p \in Pairs /\ p \notin Elements
    BY <2>1, KernelOrder, CandidatesFinite, DistinctAssumption
    DEF IndInv, ListInv, ListOK, Detecting, TypeOK
  <2>3. \A s \in Slots : s < ncollision /\ collision_pair[s] = p => s = w
    BY <2>1, KernelOrder DEF IndInv, ContactInv, DistinctOK, Detecting
  <2>4. ASSUME NEW x \in Forces \cup Readings, x[1] \in Elements
        PROVE  x \notin Made /\ x \notin Made'
    BY <1>1, <2>1, <2>4 DEF Made, Passed
  <2>5. ASSUME NEW x \in Forces \cup Readings, x[1] \notin Elements
        PROVE  x \in Made' <=>
                 \E s \in Slots :
                   /\ s < ncollision /\ collision_pair[s] = x[1]
                   /\ \E k \in Upto[kernel] : Takes(k, TypeOf[x[1]])
                   /\ kernel \in Kernels /\ Takes(kernel, TypeOf[x[1]]) => s \in ran /\ left'[s] < x[2]
    BY <1>1, <1>2, <2>1, <2>5 DEF Made, Passed
  <2>6. ASSUME NEW x \in Forces \cup Readings, x[1] = p
        PROVE  /\ x \in Made <=> left[w] < x[2]
               /\ x \in Made' <=> left[w] - 1 < x[2]
    <3>1. left'[w] = left[w] - 1
      BY <1>1, <1>3
    <3>2. x \in Made <=> left[w] < x[2]
      BY <2>1, <2>2, <2>3, <2>6, MadePair DEF IndInv
    <3>3. x \in Made' <=> left'[w] < x[2]
      BY <2>1, <2>2, <2>3, <2>5, <2>6
    <3> QED
      BY <3>1, <3>2, <3>3
  <2>7. y \notin Made /\ y \in Made'
    <3>1. y[1] = p /\ y[2] = left[w] /\ left[w] \in Nat
      BY <1>3, <2>1
    <3> QED
      BY <1>4, <2>6, <3>1
  <2>8. ASSUME NEW x \in Forces \cup Readings, x # y
        PROVE  x \in Made' <=> x \in Made
    <3>1. CASE x[1] = p
      <4>1. x[2] # left[w]
        BY <2>1, <2>8, <3>1, ResultTuple DEF IndInv
      <4>2. x[2] \in Nat
        <5>1. x[2] \in 1..Points[p] /\ Points[p] \in Nat
          BY <2>2, <3>1, ResultPoint, ModelAssumption DEF IndInv
        <5> QED
          BY <5>1
      <4> QED
        BY <1>3, <2>6, <3>1, <4>1, <4>2
    <3>2. CASE x[1] # p /\ x[1] \notin Elements
      <4>1. \A s \in Slots : s \in Writers
        BY SlotsInLimits DEF IndInv, ListInv, TypeOK, Writers
      <4>2. \A s \in Slots : collision_pair[s] = x[1] => left'[s] = left[s]
        BY <1>1, <1>3, <3>2, <4>1
      <4> QED
        BY <2>5, <3>2, <4>2, MadePair DEF IndInv
    <3> QED
      BY <2>2, <2>4, <3>1, <3>2
  <2> QED
    BY <1>2, <1>4, <2>7, <2>8 DEF Made
<1> QED
  BY <1>5, <1>6

LEMMA WriteLoss ==
  ASSUME IndInv, LossInv, NEW w \in Writers, WriteContact(w)
  PROVE  LossInv'
<1> DEFINE r == Record(w)
<1>1. /\ UNCHANGED <<config, setting, globals, ncollision, nccd, collision_pair, kernel, ran,
                     reports, mode>>
      /\ left[w] > 0 /\ nacon' = nacon + 1
      /\ contact' = IF nacon < naconmax THEN [contact EXCEPT ![nacon] = r] ELSE contact
  BY DEF WriteContact
<1>2. /\ UNCHANGED <<Examined, Candidates, Reached, Slots, Forces, Readings, pose, naconmax, naccdmax>>
      /\ \A t : OfType(t)' = OfType(t)
      /\ \A q : Purpose(q)' = Purpose(q)
      /\ \A k, t : Takes(k, t)' <=> Takes(k, t)
  BY <1>1, SameStep, SameRoutes
<1>3. nacon \in Nat /\ naconmax \in Nat /\ Slots \subseteq Limits
      /\ contact \in [Limits -> Records \cup {Unwritten}]
  BY SizesAssumption, SlotsInLimits DEF IndInv, ListInv, TypeOK
<1>4. Recording' = Recording /\ Recording /\ kernel \in {"flex"} \cup Kernels /\ ~ Idle /\ ~ Idle'
  <2>1. kernel \in {"flex"} \cup Kernels
    BY <1>1, NothingLeft DEF IndInv, ContactInv
  <2> QED
    BY <1>1, <2>1, NewContact DEF Recording, Detecting, Idle, Kernels
<1>5. ASSUME NEW n \in Slots, n < nacon'
      PROVE  \/ n < nacon /\ contact'[n] = contact[n]
             \/ n = nacon /\ contact'[n] = r
  <2>1. n \in Nat /\ n < naconmax /\ n \in Limits
    BY <1>3 DEF Slots
  <2>2. nacon' = nacon + 1 /\ (n < nacon \/ n = nacon)
    BY <2>1, <1>1, <1>3, <1>5
  <2> QED
    BY <2>1, <2>2, <1>1, <1>3
<1>6. ListedOK' /\ RoutedOK' /\ CcdOK' /\ HfieldOK' /\ EarlyOK'
  BY <1>1, <1>2, <1>4 DEF LossInv, ListedOK, RoutedOK, CcdOK, HfieldOK, EarlyOK
<1>7. MemoryOK'
  <2>1. \A t \in Types : Asking(t)' = Asking(t)
    BY <1>1, <1>2 DEF Asking
  <2> QED
    BY <1>1, <2>1 DEF LossInv, MemoryOK
<1>8. PurposeOK'
  <2> SUFFICES ASSUME NEW n \in Slots, n < nacon'
               PROVE  contact'[n].type = IF contact'[n].of \in Elements THEN {"constraint"}
                                         ELSE Purpose(contact'[n].of)
    BY <1>2 DEF PurposeOK
  <2>1. CASE n < nacon /\ contact'[n] = contact[n]
    BY <1>4, <2>1 DEF LossInv, PurposeOK
  <2>2. CASE contact'[n] = r
    <3>1. CASE w \in Elements
      BY <2>2, <3>1 DEF Record
    <3>2. CASE w \notin Elements
      <4>1. collision_pair[w] \in Candidates
        BY <1>1, <3>2, KernelOrder DEF IndInv, ListInv, LeftOK, ListOK, Detecting
      <4>2. collision_pair[w] \notin Elements
        BY <4>1, CandidatesFinite, DistinctAssumption DEF IndInv, ListInv, TypeOK
      <4> QED
        BY <2>2, <3>2, <4>2 DEF Record
    <3> QED
      BY <3>1, <3>2
  <2> QED
    BY <1>5, <2>1, <2>2
<1>9. Made' = Made \cup {<<r.of, r.point>>} /\ <<r.of, r.point>> \notin Made
  BY WriteMade
<1>10. NumberOK'
  <2>1. IsFiniteSet(Made) /\ Cardinality(Made) \in Nat
    BY MadeFinite DEF IndInv
  <2>2. Cardinality(Made') = Cardinality(Made) + 1
    BY <1>9, <2>1, FS_AddElement
  <2> QED
    BY <1>1, <1>3, <1>4, <2>1, <2>2 DEF LossInv, NumberOK
<1>11. KeptOK'
  <2> SUFFICES ASSUME nacon' <= naconmax, "ccd" \notin reports, "hfield" \notin reports,
                      NEW x \in Made'
               PROVE  \E n \in Slots :
                        n < nacon' /\ contact'[n].of = x[1] /\ contact'[n].point = x[2]
    BY <1>1, <1>2 DEF KeptOK
  <2>1. nacon < naconmax /\ nacon \in Slots /\ contact' = [contact EXCEPT ![nacon] = r]
    BY <1>1, <1>3 DEF Slots
  <2>2. CASE x \in Made
    <3>1. PICK n \in Slots : n < nacon /\ contact[n].of = x[1] /\ contact[n].point = x[2]
      BY <1>3, <1>4, <2>1, <2>2 DEF LossInv, KeptOK
    <3>2. n \in Int /\ n # nacon /\ n < nacon'
      BY <1>1, <1>3, <3>1 DEF Slots
    <3>3. contact'[n] = contact[n]
      BY <1>3, <2>1, <3>2
    <3> QED
      BY <3>1, <3>2, <3>3
  <2>3. CASE x \notin Made
    <3>1. x = <<r.of, r.point>>
      BY <1>9, <2>3
    <3>2. contact'[nacon] = r /\ nacon < nacon'
      BY <1>1, <1>3, <2>1
    <3> QED
      BY <2>1, <3>1, <3>2
  <2> QED
    BY <2>2, <2>3
<1>12. NoContactLostSilently' /\ AlarmsJustified'
  BY <1>4 DEF NoContactLostSilently, AlarmsJustified
<1> QED
  BY <1>6, <1>7, <1>8, <1>10, <1>11, <1>12 DEF LossInv

-----------------------------------------------------------------------------
(* A kernel ends and the next one starts.                                  *)

LEMMA UptoNext ==
  \A k \in DOMAIN Following :
    /\ Following[k] \in Kernels => Upto[Following[k]] = Upto[k] \cup {Following[k]}
    /\ Following[k] \notin Kernels => Upto[Following[k]] = Upto[k]
BY DEF Upto, Following, Kernels

LEMMA EndsMade == IndInv /\ KernelEnds => Made' = Made
<1> SUFFICES ASSUME IndInv, KernelEnds PROVE Made' = Made
  OBVIOUS
<1>1. /\ kernel \in DOMAIN Following /\ ran = Threads(kernel) /\ \A v \in Writers : left[v] = 0
      /\ kernel' = Following[kernel] /\ ran' = {} /\ left' = [v \in Writers |-> 0]
      /\ UNCHANGED <<config, setting, globals, ncollision, collision_pair, mode>>
  BY DEF KernelEnds, Start, data
<1>2. UNCHANGED <<Slots, Forces, Readings>> /\ \A k, t : Takes(k, t)' <=> Takes(k, t)
  BY <1>1, SameStep, SameRoutes
<1>3. Slots \subseteq Writers
  BY SlotsInLimits DEF IndInv, ListInv, TypeOK, Writers
<1> SUFFICES ASSUME NEW x \in Forces \cup Readings
             PROVE  x \in Made' <=> x \in Made
  BY <1>2 DEF Made
<1>4. CASE x[1] \in Elements
  <2>1. x[2] = 1 /\ x[1] \in Writers
    BY <1>4, ResultPoint DEF IndInv, Writers
  <2>2. x \in Made' <=> kernel' \in {"flex", "step"} /\ (kernel' = "flex" => x[1] \in ran' /\ left'[x[1]] < x[2])
    BY <1>2, <1>4 DEF Made, Passed
  <2>3. CASE kernel = "flex"
    <3>1. x \in Made
      BY <1>1, <1>4, <2>1, <2>3, MadeElement, ThreadsOf DEF IndInv
    <3> QED
      BY <1>1, <2>2, <2>3, <3>1, KernelOrder
  <2>4. CASE kernel # "flex"
    <3>1. kernel \notin {"flex", "step"} /\ kernel' # "step"
      BY <1>1, <2>4, KernelOrder DEF Kernels
    <3> QED
      BY <1>1, <1>4, <2>2, <3>1, MadeElement DEF IndInv
  <2> QED
    BY <2>3, <2>4
<1>5. CASE x[1] \notin Elements
  <2> DEFINE T == TypeOf[x[1]]
             Here(s) == s < ncollision /\ collision_pair[s] = x[1]
  <2>1. x[2] \in Nat /\ x[2] > 0
    <3>1. x[2] \in 1..Points[x[1]] /\ Points[x[1]] \in Nat
      BY <1>5, ResultPoint, ModelAssumption DEF IndInv
    <3> QED
      BY <3>1
  <2>2. x \in Made <=> (\E s \in Slots : Here(s)) /\ \E k \in Upto[kernel] : Takes(k, T)
    <3>1. \A s \in Slots : kernel \in Kernels => s \in ran /\ left[s] < x[2]
      BY <1>1, <1>3, <2>1, ThreadsOf
    <3> QED
      BY <1>5, <3>1, MadePair DEF IndInv
  <2>3. x \in Made' <=>
          /\ \E s \in Slots : Here(s)
          /\ \E k \in Upto[kernel'] : Takes(k, T)
          /\ ~ (kernel' \in Kernels /\ Takes(kernel', T))
    BY <1>1, <1>2, <1>5 DEF Made, Passed
  <2>4. CASE kernel' \in Kernels
    <3>1. Upto[kernel'] = Upto[kernel] \cup {kernel'} /\ kernel' \notin Upto[kernel]
          /\ Upto[kernel] \subseteq Kernels
      BY <1>1, <2>4, UptoNext, UptoGrows
    <3>2. \A k \in Upto[kernel] : Takes(k, T) => ~ Takes(kernel', T)
      BY <2>4, <3>1, OneKernel DEF IndInv, ContactInv
    <3> QED
      BY <2>2, <2>3, <2>4, <3>1, <3>2
  <2>5. CASE kernel' \notin Kernels
    BY <1>1, <2>2, <2>3, <2>5, UptoNext
  <2> QED
    BY <2>4, <2>5
<1> QED
  BY <1>4, <1>5

LEMMA KernelEndsLoss == IndInv /\ LossInv /\ KernelEnds => LossInv'
<1> SUFFICES ASSUME IndInv, LossInv, KernelEnds PROVE LossInv'
  OBVIOUS
<1>1. /\ kernel \in DOMAIN Following /\ ran = Threads(kernel)
      /\ kernel' = Following[kernel] /\ ran' = {}
      /\ UNCHANGED <<config, setting, globals, ncollision, nacon, contact, nccd, collision_pair,
                     reports, mode>>
  BY DEF KernelEnds, Start, data
<1>2. /\ UNCHANGED <<Examined, Candidates, Reached, Slots, Forces, Readings, pose, naconmax, naccdmax>>
      /\ \A t : OfType(t)' = OfType(t)
      /\ \A q : Purpose(q)' = Purpose(q)
      /\ \A k, t : Takes(k, t)' <=> Takes(k, t)
  BY <1>1, SameStep, SameRoutes
<1>3. Recording /\ Recording' /\ ~ Idle /\ ~ Idle' /\ kernel' # "broad"
      /\ (kernel' = "convex" => kernel = "broad")
  <2>1. mode # "disabled"
    BY <1>1 DEF IndInv, ListInv, ModeOK, Detecting
  <2>2. /\ kernel # "idle" /\ kernel' \in DOMAIN Following \cup {"step"}
        /\ kernel' \notin {"idle", "broad"} /\ (kernel' = "convex" => kernel = "broad")
    BY <1>1 DEF Following
  <2> QED
    BY <1>1, <2>1, <2>2 DEF Recording, Detecting, Idle
<1>4. ListedOK'
  <2> SUFFICES ASSUME mode = "searched", ncollision <= naconmax, NEW p \in Candidates
               PROVE  \E s \in Slots : s < ncollision /\ collision_pair[s] = p
    BY <1>1, <1>2 DEF ListedOK
  <2>1. kernel = "broad" => p \in ran
    BY <1>1, ThreadsOf DEF Candidates
  <2> QED
    BY <1>3, <2>1 DEF LossInv, ListedOK
<1>5. RoutedOK' /\ CcdOK' /\ HfieldOK' /\ EarlyOK' /\ PurposeOK'
  BY <1>1, <1>2, <1>3 DEF LossInv, RoutedOK, CcdOK, HfieldOK, EarlyOK, PurposeOK
<1>6. MemoryOK'
  <2>1. ASSUME NEW t \in Types, kernel' = "convex"
        PROVE  nccd'[t] = Cardinality(Asking(t)')
    <3>1. Asking(t)' = {}
      BY <1>1 DEF Asking
    <3>2. nccd'[t] = 0
      BY <1>1, <1>3, <2>1 DEF LossInv, MemoryOK
    <3> QED
      BY <3>1, <3>2, FS_EmptySet
  <2> QED
    BY <1>3, <2>1 DEF MemoryOK
<1>7. Made' = Made
  BY EndsMade
<1>8. NumberOK' /\ KeptOK'
  BY <1>1, <1>2, <1>3, <1>7 DEF LossInv, NumberOK, KeptOK
<1>9. NoContactLostSilently' /\ AlarmsJustified'
  BY <1>3 DEF NoContactLostSilently, AlarmsJustified
<1> QED
  BY <1>4, <1>5, <1>6, <1>8, <1>9 DEF LossInv

-----------------------------------------------------------------------------
(* The end of the step.                                                    *)

\* If the list of pairs was long enough everything is behind us.
LEMMA AllMade ==
  ASSUME IndInv, LossInv, kernel = "step", mode = "searched", ncollision <= naconmax
  PROVE  Made = Forces \cup Readings
<1>1. Recording /\ ~ Idle /\ kernel \notin Kernels /\ Upto[kernel] = Kernels
  BY DEF Recording, Idle, Kernels, Upto
<1>2. ASSUME NEW x \in Forces \cup Readings PROVE x \in Made
  <2>1. CASE x[1] \in Elements
    BY <2>1, MadeElement DEF IndInv
  <2>2. CASE x[1] \notin Elements
    <3>1. x[1] \in Candidates /\ x[1] \in Pairs
      BY <2>2, ResultPoint DEF IndInv
    <3>2. \E s \in Slots : s < ncollision /\ collision_pair[s] = x[1]
      BY <1>1, <3>1 DEF LossInv, ListedOK
    <3>3. TypeOf[x[1]] \in Types
      BY <3>1, ModelAssumption
    <3>4. \E k \in Upto[kernel] : Takes(k, TypeOf[x[1]])
      BY <1>1, <3>3 DEF LossInv, RoutedOK
    <3> QED
      BY <1>1, <2>2, <3>2, <3>4, MadePair DEF IndInv
  <2> QED
    BY <2>1, <2>2
<1> QED
  BY <1>2 DEF Made

\* What a point is recorded for.
LEMMA PurposeExact ==
  ASSUME ListInv, NEW x \in Forces \cup Readings
  PROVE  /\ x \in Forces <=> x[1] \in Elements \/ "constraint" \in Purpose(x[1])
         /\ x \in Readings <=> x[1] \notin Elements /\ "sensor" \in Purpose(x[1])
<1>1. pose \in Poses /\ x = <<x[1], x[2]>>
  BY ResultTuple DEF ListInv, TypeOK
<1>2. \A p \in Pairs : p \notin Elements
  BY DistinctAssumption
<1>3. CASE x[1] \in Elements
  <2>1. x[1] \in FlexTouching[pose] /\ x[2] = 1
    BY <1>2, <1>3, ResultPoint
  <2>2. x \in FlexTouching[pose] \X {1}
    BY <1>1, <2>1
  <2>3. x \notin Readings
    BY <1>2, <1>3, ModelAssumption DEF Readings, PointsOf
  <2> QED
    BY <1>3, <2>2, <2>3 DEF Forces
<1>4. CASE x[1] \notin Elements
  <2>1. x[1] \in Reached /\ x[1] \in Pairs /\ x[2] \in 1..Points[x[1]]
    BY <1>4, ResultPoint DEF Reached
  <2>2. x \in {x[1]} \X (1..Points[x[1]])
    BY <1>1, <2>1
  <2>3. x \notin FlexTouching[pose] \X {1}
    BY <1>1, <1>4, GeometryAssumption
  <2>4. x \in Forces <=> x[1] \in Collidable \cap Touching[pose]
    BY <2>1, <2>2, <2>3 DEF Forces, PointsOf
  <2>5. x \in Readings <=> x[1] \in Sensed
    BY <2>1, <2>2 DEF Readings, PointsOf
  <2>6. /\ "constraint" \in Purpose(x[1]) <=> x[1] \in Collidable \cap Touching[pose]
        /\ "sensor" \in Purpose(x[1]) <=> x[1] \in Sensed
    BY DEF Purpose
  <2> QED
    BY <1>4, <2>4, <2>5, <2>6
<1> QED
  BY <1>3, <1>4

\* A step with nothing to report has recorded what there is, and what for.
LEMMA StepComplete ==
  ASSUME IndInv, LossInv, kernel = "step", mode = "searched",
         ncollision <= naconmax, nacon <= naconmax, "ccd" \notin reports, "hfield" \notin reports
  PROVE  Forces = Having("constraint") /\ Readings = Having("sensor")
<1>1. Recording /\ Made = Forces \cup Readings
  BY AllMade DEF Recording
<1>2. ASSUME NEW x \in Forces \cup Readings
      PROVE  \E n \in Slots : n < nacon /\ contact[n].of = x[1] /\ contact[n].point = x[2]
  BY <1>1, <1>2 DEF LossInv, KeptOK
<1>3. ASSUME NEW n \in Slots, n < nacon
      PROVE  /\ <<contact[n].of, contact[n].point>> \in Forces \cup Readings
             /\ contact[n].type = IF contact[n].of \in Elements THEN {"constraint"}
                                  ELSE Purpose(contact[n].of)
  BY <1>1, <1>3 DEF IndInv, ContactInv, RecordsOK, LossInv, PurposeOK
<1>4. \A kind : Having(kind) = {<<contact[n].of, contact[n].point>> :
                                  n \in {m \in Slots : m < nacon /\ kind \in contact[m].type}}
  BY DEF Having, Contacts
<1>5. ASSUME NEW n \in Slots, n < nacon, NEW x, x = <<contact[n].of, contact[n].point>>
      PROVE  /\ "constraint" \in contact[n].type <=> x \in Forces
             /\ "sensor" \in contact[n].type <=> x \in Readings
  <2>1. x \in Forces \cup Readings /\ x[1] = contact[n].of
    BY <1>3, <1>5
  <2> QED
    BY <1>3, <1>5, <2>1, PurposeExact DEF IndInv
<1>6. ASSUME NEW x \in Forces \cup Readings
      PROVE  /\ x \in Having("constraint") <=> x \in Forces
             /\ x \in Having("sensor") <=> x \in Readings
  <2>1. PICK n \in Slots : n < nacon /\ contact[n].of = x[1] /\ contact[n].point = x[2]
    BY <1>2
  <2>2. x = <<contact[n].of, contact[n].point>>
    BY <2>1, ResultTuple DEF IndInv
  <2>3. \A m \in Slots : m < nacon /\ x = <<contact[m].of, contact[m].point>> =>
          /\ "constraint" \in contact[m].type <=> x \in Forces
          /\ "sensor" \in contact[m].type <=> x \in Readings
    BY <1>5
  <2> QED
    BY <1>4, <2>1, <2>2, <2>3
<1>7. Having("constraint") \subseteq Forces \cup Readings /\ Having("sensor") \subseteq Forces \cup Readings
  BY <1>3, <1>4
<1> QED
  BY <1>6, <1>7

\* The contacts the result lacks are those of pairs a filter dropped: the broadphase
\* lists every other pair in contact.
LEMMA OthersReached ==
  ASSUME pose \in Poses
  PROVE  {x \in Contacting : x[1] \notin Missed} = Forces
<1>1. \A p \in Pairs : p \notin Elements
  BY DistinctAssumption
<1>2. ASSUME NEW p \in Collidable \cap Touching[pose]
      PROVE  p \notin Missed <=> p \in Reached
  <2>1. CASE p \in Explicit
    BY <2>1 DEF Missed, Reached
  <2>2. CASE p \notin Explicit
    <3>1. p \in Pairs /\ p \in InRange[pose] /\ p \in Swept[pose]
      BY <1>2, <2>2, GeometryAssumption, ModelAssumption
    <3>2. p \in Candidates
      BY <3>1 DEF Candidates, Examined, Candidate
    <3> QED
      BY <2>2, <3>2 DEF Missed, Reached
  <2> QED
    BY <2>1, <2>2
<1>3. Missed \cap Elements = {}
  BY <1>1, GeometryAssumption, ModelAssumption DEF Missed
<1>4. ASSUME NEW x \in FlexTouching[pose] \X {1}
      PROVE  x \in Contacting /\ x[1] \notin Missed /\ x \in Forces
  BY <1>3, GeometryAssumption DEF Contacting, Forces
<1>5. ASSUME NEW p \in Collidable \cap Touching[pose], NEW x \in {p} \X (1..Points[p])
      PROVE  /\ x \in Contacting /\ x[1] = p
             /\ p \in Reached => x \in Forces
  BY DEF Contacting, Forces, PointsOf
<1>6. ASSUME NEW x \in Contacting, x[1] \notin Missed PROVE x \in Forces
  BY <1>2, <1>4, <1>5, <1>6 DEF Contacting, PointsOf
<1>7. ASSUME NEW x \in Forces PROVE x \in Contacting /\ x[1] \notin Missed
  <2>1. CASE x \in FlexTouching[pose] \X {1}
    BY <1>4, <2>1
  <2>2. CASE x \in PointsOf(Collidable \cap Touching[pose] \cap Reached)
    <3>1. PICK p \in Collidable \cap Touching[pose] \cap Reached : x \in {p} \X (1..Points[p])
      BY <2>2 DEF PointsOf
    <3> QED
      BY <1>2, <1>5, <3>1
  <2> QED
    BY <2>1, <2>2 DEF Forces
<1> QED
  BY <1>6, <1>7

LEMMA NextTimeLoss == IndInv /\ LossInv /\ NextTime => LossInv'
<1> SUFFICES ASSUME IndInv, LossInv, NextTime PROVE LossInv'
  OBVIOUS
<1>1. /\ kernel = "step" /\ kernel' = "idle" /\ reports' = reports \cup Overflows
      /\ UNCHANGED <<config, setting, globals, ncollision, nacon, contact, mode>>
  BY DEF NextTime, data
<1>2. /\ UNCHANGED <<Candidates, Reached, Slots, Forces, Readings, pose, naconmax, naccdmax>>
      /\ \A t : OfType(t)' = OfType(t)
  BY <1>1, SameStep
<1>3. ~ Recording' /\ kernel' \notin {"broad", "convex"} /\ Idle' /\ ~ Idle
  BY <1>1 DEF Recording, Detecting, Idle, Following
<1>4. naconmax \in Nat /\ naccdmax \in Nat /\ nacon \in Nat /\ ncollision \in Int
  BY SizesAssumption, GeometryAssumption, FS_CardinalityType DEF IndInv, ListInv, TypeOK
<1>5. reports \subseteq {"ccd", "hfield"}
  BY <1>3 DEF LossInv, EarlyOK
<1>6. /\ "broadphase" \in reports' => ncollision > naconmax
      /\ "narrowphase" \in reports' => nacon > naconmax
      /\ "ccd" \in reports' => "ccd" \in reports
      /\ "hfield" \in reports' => "hfield" \in reports
  BY <1>1, <1>5 DEF Overflows
<1>7. CcdOK' /\ HfieldOK'
  BY <1>1, <1>2, <1>6 DEF LossInv, CcdOK, HfieldOK
<1>8. NoContactLostSilently'
  <2> SUFFICES ASSUME mode = "searched", reports' = {}
               PROVE  /\ {x \in Contacting : x[1] \notin Missed}' = Having("constraint")'
                      /\ Readings' = Having("sensor")'
    BY <1>1 DEF NoContactLostSilently
  <2>1. reports = {} /\ Overflows = {}
    BY <1>1
  <2>2. ncollision <= naconmax /\ nacon <= naconmax
    BY <1>4, <2>1 DEF Overflows
  <2>3. Forces = Having("constraint") /\ Readings = Having("sensor")
    BY <1>1, <2>1, <2>2, StepComplete
  <2>4. \A kind : Having(kind)' = Having(kind)
    BY <1>1, <1>2 DEF Having, Contacts
  <2>5. {x \in Contacting : x[1] \notin Missed}' = {x \in Contacting : x[1] \notin Missed}
    BY <1>1, <1>2 DEF Contacting, Missed, setting
  <2>6. {x \in Contacting : x[1] \notin Missed} = Forces
    BY OthersReached DEF IndInv, ListInv, TypeOK
  <2> QED
    BY <1>2, <2>3, <2>4, <2>5, <2>6
<1>9. AlarmsJustified'
  <2> SUFFICES ASSUME mode = "searched"
               PROVE  /\ "broadphase" \in reports' => Cardinality(Candidates) > naconmax
                      /\ "narrowphase" \in reports' => Cardinality(Forces \cup Readings) > naconmax
                      /\ "ccd" \in reports' => \E t \in Types : Cardinality(OfType(t)) > naccdmax
                      /\ "hfield" \in reports' => Reached \cap Crowded[pose] # {}
    BY <1>1, <1>2 DEF AlarmsJustified, OfType
  <2>1. ncollision = Cardinality(Candidates)
    BY <1>1 DEF IndInv, ListInv, CountOK
  <2>2. nacon <= Cardinality(Forces \cup Readings)
    <3>1. Recording
      BY <1>1 DEF Recording
    <3>2. nacon <= Cardinality(Made)
      BY <3>1 DEF LossInv, NumberOK
    <3>3. /\ Cardinality(Made) \in Nat /\ Cardinality(Forces \cup Readings) \in Nat
          /\ Cardinality(Made) <= Cardinality(Forces \cup Readings)
      BY MadeFinite, ResultFinite, FS_CardinalityType DEF IndInv
    <3> QED
      BY <1>4, <3>2, <3>3
  <2>3. Cardinality(Forces \cup Readings) \in Nat
    BY ResultFinite, FS_CardinalityType DEF IndInv
  <2> QED
    BY <1>4, <1>6, <2>1, <2>2, <2>3 DEF LossInv, CcdOK, HfieldOK
<1> QED
  BY <1>1, <1>3, <1>7, <1>8, <1>9
  DEF LossInv, ListedOK, RoutedOK, MemoryOK, EarlyOK, PurposeOK, NumberOK, KeptOK

LEMMA CallerLoss == Caller => LossInv'
<1> SUFFICES ASSUME Caller PROVE LossInv'
  OBVIOUS
<1>1. kernel' = "idle" /\ mode' = "none"
  BY DEF Caller, Idle
<1>2. ~ Recording'
  BY <1>1 DEF Recording, Detecting, Following
<1> QED
  BY <1>1, <1>2
  DEF LossInv, ListedOK, RoutedOK, MemoryOK, CcdOK, HfieldOK, EarlyOK, PurposeOK, NumberOK, KeptOK,
      Idle,
      NoContactLostSilently, AlarmsJustified

LEMMA UnchangedLoss == LossInv /\ UNCHANGED vars => LossInv'
<1> SUFFICES ASSUME LossInv, UNCHANGED vars PROVE LossInv'
  OBVIOUS
<1>1. /\ UNCHANGED <<config, setting, globals, ncollision, nacon, contact, nccd, collision_pair,
                     kernel, ran, left, reports, mode>>
  BY DEF vars, data, device
<1>2. /\ UNCHANGED <<Examined, Candidates, Reached, Slots, Forces, Readings, pose, naconmax, naccdmax>>
      /\ \A t : OfType(t)' = OfType(t)
      /\ \A q : Purpose(q)' = Purpose(q)
      /\ \A k, t : Takes(k, t)' <=> Takes(k, t)
  BY <1>1, SameStep, SameRoutes
<1>3. (Recording' <=> Recording) /\ (Idle' <=> Idle)
  BY <1>1 DEF Recording, Detecting, Idle
<1>4. \A t : Asking(t)' = Asking(t)
  BY <1>1, <1>2 DEF Asking
<1>5. \A kind : Having(kind)' = Having(kind)
  BY <1>1, <1>2 DEF Having, Contacts
<1>6. Made' = Made
  BY <1>1, <1>2 DEF Made, Passed
<1>7. ListedOK' /\ RoutedOK' /\ EarlyOK' /\ PurposeOK'
  BY <1>1, <1>2, <1>3 DEF LossInv, ListedOK, RoutedOK, EarlyOK, PurposeOK
<1>8. MemoryOK' /\ CcdOK' /\ HfieldOK'
  BY <1>1, <1>2, <1>4 DEF LossInv, MemoryOK, CcdOK, HfieldOK
<1>9. NumberOK' /\ KeptOK'
  BY <1>1, <1>2, <1>3, <1>6 DEF LossInv, NumberOK, KeptOK
<1>10. NoContactLostSilently'
  <2>1. {x \in Contacting : x[1] \notin Missed}' = {x \in Contacting : x[1] \notin Missed}
    BY <1>2 DEF Contacting, Missed
  <2> QED
    BY <1>1, <1>2, <1>3, <1>5, <2>1 DEF LossInv, NoContactLostSilently
<1>11. AlarmsJustified'
  BY <1>1, <1>2, <1>3 DEF LossInv, AlarmsJustified, OfType
<1> QED
  BY <1>7, <1>8, <1>9, <1>10, <1>11 DEF LossInv

-----------------------------------------------------------------------------
(* Theorems.                                                               *)

LEMMA NextLoss == IndInv /\ LossInv /\ [Next]_vars => LossInv'
<1> SUFFICES ASSUME IndInv, LossInv, [Next]_vars PROVE LossInv'
  OBVIOUS
<1>1. CASE Host
  BY <1>1, DisabledLoss, BeginsLoss DEF Host
<1>2. CASE Device
  <2>1. ASSUME NEW p \in Pairs, BroadphaseThread(p) PROVE LossInv'
    BY <2>1, BroadphaseLoss
  <2>2. ASSUME NEW s \in Limits, NarrowphaseThread(s) PROVE LossInv'
    BY <2>2, NarrowphaseLoss
  <2>3. ASSUME NEW s \in Limits, ConvexThread(s) PROVE LossInv'
    BY <2>3, ConvexLoss
  <2>4. ASSUME NEW e \in Elements, FlexThread(e) PROVE LossInv'
    BY <2>4, FlexLoss
  <2>5. ASSUME NEW w \in Writers, WriteContact(w) PROVE LossInv'
    BY <2>5, WriteLoss
  <2> QED
    BY <1>2, <2>1, <2>2, <2>3, <2>4, <2>5, KernelEndsLoss, NextTimeLoss DEF Device
<1>3. CASE Caller
  BY <1>3, CallerLoss
<1>4. CASE UNCHANGED vars
  BY <1>4, UnchangedLoss
<1> QED
  BY <1>1, <1>2, <1>3, <1>4 DEF Next

\* With the invariant of the pipeline, what has been lost so far is known.
LEMMA LossInductive == Spec => [](IndInv /\ LossInv)
<1>1. Init => LossInv
  BY InitLoss
<1>2. IndInv /\ LossInv /\ [Next]_vars => LossInv'
  BY NextLoss
<1> QED
  BY <1>1, <1>2, PipelineInductive, PTL DEF Spec

\* Whatever the geometry, the routing table and the sizes of the lists, a step
\* that searched for pairs and printed nothing has recorded every contact but of the
\* explicit pairs and pairs with a height field that a filter dropped.
THEOREM NothingLostSilently == Spec => []NoContactLostSilently
<1>1. LossInv => NoContactLostSilently
  BY DEF LossInv
<1> QED
  BY <1>1, LossInductive, PTL

\* Every message of a step that searched for pairs has a list that was too short.
THEOREM AlarmsHaveCauses == Spec => []AlarmsJustified
<1>1. LossInv => AlarmsJustified
  BY DEF LossInv
<1> QED
  BY <1>1, LossInductive, PTL
=============================================================================

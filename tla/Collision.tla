------------------------------ MODULE Collision ------------------------------
(***************************************************************************)
(* Collision detection of one step (collision_driver.collision).  The      *)
(* broadphase lists candidate pairs, the narrowphase kernels turn listed   *)
(* pairs into contacts; both number what they write with atomic counters   *)
(* that run past their limits, and the end of the step reports an          *)
(* overflow.  On a HIP device the list is kept in a cache after the first  *)
(* step.                                                                   *)
(*                                                                         *)
(* Kernels run in order, the threads of one in any order.  A thread's      *)
(* steps are its atomic operations: what it writes besides is read by      *)
(* later kernels only.  Geometry is data: the constants say, for each      *)
(* pose, which pairs the filters pass and which are in contact.  The       *)
(* broadphase measures with the margins and gaps of the geoms; an explicit *)
(* pair has a margin and a gap of its own, which decide whether it is in   *)
(* contact.                                                                *)
(***************************************************************************)
EXTENDS Integers, FiniteSets

CONSTANTS
  Poses,       (* configurations of the geoms                              *)
  Pairs,       (* candidate pairs of geoms, each in a world                *)
  InRange,     (* pose -> pairs that pass the broadphase filter            *)
  Swept,       (* pose -> pairs whose projections overlap                  *)
  Touching,    (* pose -> pairs nearer than their margin and gap           *)
  Filtered,    (* pose -> pairs the height field filter drops              *)
  Crowded,     (* pose -> pairs with more prisms than MJ_MAXCONPAIR        *)
  Collidable,  (* pairs that may exert a force (pairid[0] >= -1)           *)
  Explicit,    (* pairs with a margin and a gap of their own (pairid[0] >= 0) *)
  Sensed,      (* pairs of a distance sensor (pairid[1] >= 0)              *)
  TypeOf,      (* pair -> types of its geoms                               *)
  Types, BoxBox,
  Route,       (* MJ_COLLISION_TABLE as the module defines it, and SDF     *)
  Points,      (* pair -> points of its contact                            *)
  Elements,    (* flex elements                                            *)
  FlexTouching,(* pose -> elements in contact                              *)
  NaconMaxes, NaccdMaxes, (* values of d.naconmax and d.naccdmax           *)
  Unwritten    (* what an entry nobody has written holds                   *)

Kernels == {"convex", "primitive", "sdf"}

ASSUME GeometryAssumption ==
  /\ IsFiniteSet(Pairs) /\ IsFiniteSet(Elements)
  /\ InRange \in [Poses -> SUBSET Pairs] /\ Swept \in [Poses -> SUBSET Pairs]
  /\ Touching \in [Poses -> SUBSET Pairs]
  /\ Filtered \in [Poses -> SUBSET Pairs] /\ Crowded \in [Poses -> SUBSET Pairs]
  /\ FlexTouching \in [Poses -> SUBSET Elements]
  \* Both tests are conservative, for the margins they know; neither implies the other.
  /\ \A q \in Poses : Touching[q] \ Explicit \subseteq InRange[q] \cap Swept[q]
ASSUME ModelAssumption ==
  /\ Collidable \subseteq Pairs /\ Sensed \subseteq Pairs
  /\ Pairs = Collidable \cup Sensed /\ Explicit \subseteq Collidable
  /\ BoxBox \in Types /\ TypeOf \in [Pairs -> Types]
  /\ Route \in [Types -> Kernels] /\ Route[BoxBox] = "convex"
  /\ Points \in [Pairs -> Nat \ {0}]
  \* The convex kernels of height fields are not those of two boxes.
  /\ \A q \in Poses : \A p \in Filtered[q] \cup Crowded[q] :
       TypeOf[p] # BoxBox /\ Route[TypeOf[p]] = "convex"
ASSUME SizesAssumption ==
  /\ NaconMaxes \subseteq Nat /\ \E n \in NaconMaxes : \A k \in NaconMaxes : k <= n
  /\ NaccdMaxes \subseteq Nat

\* Entries of d.contact: points of a pair or an element, by their purpose.
Records == [of : Pairs \cup Elements, point : Nat, pose : Poses,
            type : SUBSET {"constraint", "sensor"}]

ASSUME DistinctAssumption ==
  /\ Unwritten \notin Pairs \cup Records
  /\ Elements \cap Pairs = {} /\ Elements \cap Nat = {}

VARIABLES
  \* Model, data and device, fixed when they are made.
  is_hip, broadphase, naconmax, naccdmax,
  \* What the caller sets between steps.
  enabled,         (* neither CONSTRAINT nor CONTACT is disabled           *)
  nativeccd,       (* NATIVECCD is not disabled                            *)
  pose,
  \* Module globals of the process.
  table,           (* MJ_COLLISION_TABLE[BOX, BOX]                         *)
  primitive_types, (* _PRIMITIVE_COLLISION_TYPES                           *)
  \* Data.
  ncollision, nacon, contact, nccd,
  collision_pair,  (* of the context in use                                *)
  cached,          (* d._bvh_cached_ctx is not None                        *)
  \* Device.
  kernel,          (* the kernel that runs, "step" after the last, "idle"  *)
  ran,             (* its threads that have begun                          *)
  left,            (* contacts a thread that has begun is still to write   *)
  reports,         (* messages printed in this step                        *)
  mode             (* history: how the pairs were found in this step       *)

config == <<is_hip, broadphase, naconmax, naccdmax>>
setting == <<enabled, nativeccd, pose>>
globals == <<table, primitive_types>>
data == <<ncollision, nacon, contact, nccd, collision_pair, cached>>
device == <<kernel, ran, left, reports, mode>>
vars == <<config, setting, globals, data, device>>

Limits == 0..(CHOOSE n \in NaconMaxes : \A k \in NaconMaxes : k <= n) - 1
Slots == 0..naconmax - 1
Writers == Limits \cup Elements

Init ==
  /\ is_hip \in BOOLEAN /\ broadphase \in {"NXN", "SAP"}
  /\ naconmax \in NaconMaxes /\ naccdmax \in NaccdMaxes
  /\ enabled \in BOOLEAN /\ nativeccd \in BOOLEAN /\ pose \in Poses
  /\ table = "convex" /\ primitive_types = {}
  /\ ncollision = 0 /\ nacon = 0
  /\ contact = [s \in Limits |-> Unwritten] /\ nccd = [t \in Types |-> 0]
  /\ collision_pair = [s \in Limits |-> Unwritten] /\ cached = FALSE
  /\ kernel = "idle" /\ ran = {} /\ left = [w \in Writers |-> 0]
  /\ reports = {} /\ mode = "none"

-----------------------------------------------------------------------------
(* The host: collision() enqueues the kernels.                             *)

\* The pairs the broadphase examines.
Examined == IF broadphase = "NXN" THEN Pairs ELSE Swept[pose]

Threads(k) ==
  CASE k = "broad" -> Examined
    [] k \in Kernels -> Slots
    [] k = "flex" -> Elements

Start(k) == kernel' = k /\ ran' = {} /\ left' = [w \in Writers |-> 0]

\* Mutant: the table is computed afresh, the list of primitive types is kept.
BugNarrowphaseTable ==
  /\ table' = IF nativeccd THEN "convex" ELSE "primitive"
  /\ primitive_types' =
       primitive_types \cup {t \in Types : IF t = BoxBox THEN table' = "primitive"
                                                         ELSE Route[t] = "primitive"}
  /\ nccd' = [t \in Types |-> 0]

\* _narrowphase overwrites the table of the module; primitive_narrowphase
\* appends to a list of the module; convex_narrowphase allocates its counters.
NarrowphaseTable ==
  /\ table' = IF nativeccd THEN table ELSE "primitive"
  /\ primitive_types' =
       primitive_types \cup {t \in Types : IF t = BoxBox THEN table' = "primitive"
                                                         ELSE Route[t] = "primitive"}
  /\ nccd' = [t \in Types |-> 0]

Idle == kernel = "idle"
Disabled == naconmax = 0 \/ ~enabled

\* The early return: one counter is cleared.
CollisionDisabled ==
  /\ Idle /\ Disabled
  /\ nacon' = 0
  /\ kernel' = "step"
  /\ reports' = {} /\ mode' = "disabled"
  /\ UNCHANGED <<config, setting, globals, ncollision, contact, nccd, collision_pair,
                 cached, ran, left>>

\* Mutant: only the contacts are counted from zero.
BugZeroCounters == nacon' = 0 /\ UNCHANGED ncollision

ZeroCounters == nacon' = 0 /\ ncollision' = 0

\* A fresh context, which a HIP device keeps.
CollisionSearched ==
  /\ Idle /\ ~Disabled /\ ~(is_hip /\ cached)
  /\ ZeroCounters
  /\ collision_pair' = [s \in Limits |-> Unwritten]
  /\ cached' = is_hip
  /\ NarrowphaseTable
  /\ Start("broad")
  /\ reports' = {} /\ mode' = "searched"
  /\ UNCHANGED <<config, setting, contact>>

\* The kept context; both counters are cleared all the same.
CollisionCached ==
  /\ Idle /\ ~Disabled /\ is_hip /\ cached
  /\ ZeroCounters
  /\ NarrowphaseTable
  /\ Start("convex")
  /\ reports' = {} /\ mode' = "cached"
  /\ UNCHANGED <<config, setting, contact, collision_pair, cached>>

-----------------------------------------------------------------------------
(* The device.                                                             *)

Begin(k, t) == kernel = k /\ t \in Threads(k) \ ran /\ ran' = ran \cup {t}

Candidate(p) == p \in InRange[pose] \/ p \in Sensed

\* _add_geom_pair: beyond the limit pairs are counted and dropped.
BroadphaseThread(p) ==
  /\ Begin("broad", p)
  /\ IF Candidate(p)
     THEN /\ ncollision' = ncollision + 1
          /\ collision_pair' = IF ncollision < naconmax
                               THEN [collision_pair EXCEPT ![ncollision] = p]
                               ELSE collision_pair
     ELSE UNCHANGED <<ncollision, collision_pair>>
  /\ UNCHANGED <<config, setting, globals, nacon, contact, nccd, cached, kernel, left,
                 reports, mode>>

\* The kernels that take pairs of a type: box-box is routed by the table.
Takes(k, t) ==
  IF k = "primitive" THEN t \in primitive_types
  ELSE IF t = BoxBox THEN table = k ELSE Route[t] = k

\* write_contact writes a record for the pair, or returns at once.
Recorded(p) == (p \in Collidable /\ p \in Touching[pose]) \/ p \in Sensed

\* A thread finds its pair in the list, if it is not beyond the end.
Listed(s) == s < ncollision

Idles(s) ==
  /\ ~(Listed(s) /\ Takes(kernel, TypeOf[collision_pair[s]]))
  /\ UNCHANGED <<left, nccd, reports>>

Finds(s, k) == left' = [left EXCEPT ![s] = IF Recorded(collision_pair[s]) THEN k ELSE 0]

Works(s) == Finds(s, Points[collision_pair[s]])

\* Prisms beyond the limit are skipped with a message: fewer points may be found.
WorksInPart(s) ==
  /\ \E k \in 0..Points[collision_pair[s]] : Finds(s, k)
  /\ reports' = reports \cup {"hfield"}

NarrowphaseThread(s) ==
  /\ \E k \in {"primitive", "sdf"} : Begin(k, s)
  /\ \/ Idles(s)
     \/ /\ Listed(s) /\ Takes(kernel, TypeOf[collision_pair[s]])
        /\ Works(s)
        /\ UNCHANGED <<nccd, reports>>
  /\ UNCHANGED <<config, setting, globals, ncollision, nacon, contact, collision_pair,
                 cached, kernel, mode>>

\* Mutant: the convex kernel gives up without a word.
BugCcdOverflow == UNCHANGED reports

CcdOverflow == reports' = reports \cup {"ccd"}

\* The convex kernel also needs working memory, numbered per pair of types, unless
\* the filter of height fields sends the thread home before.
ConvexThread(s) ==
  /\ Begin("convex", s)
  /\ \/ Idles(s)
     \/ /\ Listed(s) /\ Takes("convex", TypeOf[collision_pair[s]])
        /\ collision_pair[s] \in Filtered[pose]
        /\ UNCHANGED <<left, nccd, reports>>
     \/ /\ Listed(s) /\ Takes("convex", TypeOf[collision_pair[s]])
        /\ collision_pair[s] \notin Filtered[pose]
        /\ LET t == TypeOf[collision_pair[s]]
           IN /\ nccd' = [nccd EXCEPT ![t] = @ + 1]
              /\ \/ /\ nccd[t] < naccdmax /\ collision_pair[s] \notin Crowded[pose]
                    /\ Works(s) /\ UNCHANGED reports
                 \/ /\ nccd[t] < naccdmax /\ collision_pair[s] \in Crowded[pose]
                    /\ WorksInPart(s)
                 \/ nccd[t] >= naccdmax /\ CcdOverflow /\ UNCHANGED left
  /\ UNCHANGED <<config, setting, globals, ncollision, nacon, contact, collision_pair,
                 cached, kernel, mode>>

FlexThread(e) ==
  /\ Begin("flex", e)
  /\ left' = [left EXCEPT ![e] = IF e \in FlexTouching[pose] THEN 1 ELSE 0]
  /\ UNCHANGED <<config, setting, globals, data, kernel, reports, mode>>

Purpose(p) ==
  (IF p \in Collidable /\ p \in Touching[pose] THEN {"constraint"} ELSE {})
    \cup (IF p \in Sensed THEN {"sensor"} ELSE {})

Record(w) ==
  IF w \in Elements
  THEN [of |-> w, point |-> 1, pose |-> pose, type |-> {"constraint"}]
  ELSE [of |-> collision_pair[w], point |-> left[w], pose |-> pose,
        type |-> Purpose(collision_pair[w])]

\* write_contact: beyond the limit contacts are counted and dropped.
WriteContact(w) ==
  /\ left[w] > 0
  /\ left' = [left EXCEPT ![w] = @ - 1]
  /\ nacon' = nacon + 1
  /\ contact' = IF nacon < naconmax THEN [contact EXCEPT ![nacon] = Record(w)] ELSE contact
  /\ UNCHANGED <<config, setting, globals, ncollision, nccd, collision_pair, cached,
                 kernel, ran, reports, mode>>

Following == [broad |-> "convex", convex |-> "primitive", primitive |-> "sdf",
              sdf |-> "flex", flex |-> "step"]

KernelEnds ==
  /\ kernel \in DOMAIN Following
  /\ ran = Threads(kernel) /\ \A w \in Writers : left[w] = 0
  /\ Start(Following[kernel])
  /\ UNCHANGED <<config, setting, globals, data, reports, mode>>

\* Mutant: a full list is reported as an overflow.
BugOverflowsFull ==
  (IF ncollision >= naconmax THEN {"broadphase"} ELSE {})
    \cup (IF nacon > naconmax THEN {"narrowphase"} ELSE {})

Overflows ==
  (IF ncollision > naconmax THEN {"broadphase"} ELSE {})
    \cup (IF nacon > naconmax THEN {"narrowphase"} ELSE {})

\* The end of the step: _next_time prints what overflowed.
NextTime ==
  /\ kernel = "step"
  /\ kernel' = "idle"
  /\ reports' = reports \cup Overflows
  /\ UNCHANGED <<config, setting, globals, data, ran, left, mode>>

\* Between two steps: the geoms have moved, the caller sets options.
Caller ==
  /\ Idle
  /\ \E q \in Poses, e, n \in BOOLEAN :
       <<q, e, n>> # <<pose, enabled, nativeccd>> /\ pose' = q /\ enabled' = e /\ nativeccd' = n
  /\ mode' = "none"
  /\ UNCHANGED <<config, globals, data, kernel, ran, left, reports>>

Host == CollisionDisabled \/ CollisionSearched \/ CollisionCached

Device ==
  \/ \E p \in Pairs : BroadphaseThread(p)
  \/ \E s \in Limits : NarrowphaseThread(s) \/ ConvexThread(s)
  \/ \E e \in Elements : FlexThread(e)
  \/ \E w \in Writers : WriteContact(w)
  \/ KernelEnds
  \/ NextTime

Next == Host \/ Device \/ Caller

Spec == Init /\ [][Next]_vars
-----------------------------------------------------------------------------
(* Properties.                                                             *)

TypeOK ==
  /\ is_hip \in BOOLEAN /\ broadphase \in {"NXN", "SAP"}
  /\ naconmax \in NaconMaxes /\ naccdmax \in NaccdMaxes
  /\ enabled \in BOOLEAN /\ nativeccd \in BOOLEAN /\ pose \in Poses
  /\ table \in {"convex", "primitive"} /\ primitive_types \subseteq Types
  /\ ncollision \in 0..Cardinality(Pairs) /\ nacon \in Nat /\ nccd \in [Types -> Nat]
  /\ collision_pair \in [Limits -> Pairs \cup {Unwritten}]
  /\ contact \in [Limits -> Records \cup {Unwritten}]
  /\ cached \in BOOLEAN /\ (cached => is_hip)
  /\ kernel \in {"idle", "step"} \cup DOMAIN Following
  /\ ran \subseteq Pairs \cup Limits \cup Elements /\ left \in [Writers -> Nat]
  /\ reports \subseteq {"broadphase", "narrowphase", "ccd", "hfield"}
  /\ mode \in {"none", "disabled", "searched", "cached"}

\* What the rest of the step reads: the array up to the counter, clamped.
Contacts == {contact[s] : s \in {n \in Slots : n < nacon}}
Having(kind) == {<<c.of, c.point>> : c \in {d \in Contacts : kind \in d.type}}

Candidates == {p \in Examined : Candidate(p)}

\* The pairs a narrowphase kernel sees, and the points to expect of them.
Reached == Candidates \ Filtered[pose]
PointsOf(P) == UNION {{p} \X (1..Points[p]) : p \in P}
Forces == PointsOf(Collidable \cap Touching[pose] \cap Reached) \cup (FlexTouching[pose] \X {1})
Readings == PointsOf(Sensed \cap Reached)

\* All points nearer than margin and gap of their pair, and the pairs that two filters
\* may drop, because they measure with the margins of the geoms.
Contacting == PointsOf(Collidable \cap Touching[pose]) \cup (FlexTouching[pose] \X {1})
Missed == (Explicit \ Candidates) \cup Filtered[pose]

\* A narrowphase thread that passes the test against ncollision finds a pair the
\* broadphase of this step has written, although the counter runs past the list
\* and the list is reused uninitialised memory or an old one.
ListIsFresh ==
  kernel \in Kernels =>
    \A s \in Slots : Listed(s) => collision_pair[s] \in Candidates

\* No contact is listed twice and none is left from an earlier step, whichever
\* kernels a pair is routed to and wherever its threads found a slot.
ContactsExact ==
  (kernel = "step" /\ mode # "disabled") =>
    /\ \A c \in Contacts : c # Unwritten /\ c.pose = pose
                           /\ <<c.of, c.point>> \in Forces \cup Readings
    /\ \A s, t \in {n \in Slots : n < nacon} :
         s # t => <<contact[s].of, contact[s].point>> # <<contact[t].of, contact[t].point>>

\* A step that searched for pairs and printed nothing has recorded every contact
\* that exerts a force, with either broadphase, except of explicit pairs the
\* broadphase did not list and of pairs the height field filter dropped.  Every
\* distance sensor finds its contact if the broadphase examined its pair (always
\* with NXN, not always with SAP) and that filter did not drop it.
NoContactLostSilently ==
  (Idle /\ mode = "searched" /\ reports = {}) =>
    /\ {x \in Contacting : x[1] \notin Missed} = Having("constraint")
    /\ Readings = Having("sensor")

\* A message is printed only when a list was too short for what there was, or a
\* height field had more prisms in contact than a pair may have.
AlarmsJustified ==
  Idle /\ mode = "searched" =>
    /\ "broadphase" \in reports => Cardinality(Candidates) > naconmax
    /\ "narrowphase" \in reports => Cardinality(Forces \cup Readings) > naconmax
    /\ "ccd" \in reports
         => \E t \in Types : Cardinality({p \in Reached : TypeOf[p] = t}) > naccdmax
    /\ "hfield" \in reports => Reached \cap Crowded[pose] # {}

-----------------------------------------------------------------------------
(* What the comments say and the code does not do.                         *)

\* "CRITICAL: must still run narrowphase (contact positions change each step)" and
\* "Reuse cached pairs": a step that printed nothing has its contacts, searched for
\* or found in the cache.
StepHasItsContacts ==
  Idle /\ mode \in {"searched", "cached"} /\ reports = {} => Forces = Having("constraint")
=============================================================================

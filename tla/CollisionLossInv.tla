--------------------------- MODULE CollisionLossInv ---------------------------
(***************************************************************************)
(* What Collision has lost so far.  The counter of contacts is at most the *)
(* number of points whose thread has passed them, and a step that has      *)
(* nothing to report has recorded all of these.                            *)
(***************************************************************************)
EXTENDS CollisionInv

\* The points of the result that are behind us: recorded, counted beyond the
\* limit, or given up for want of working memory.
Made == {x \in Forces \cup Readings : Passed([of |-> x[1], point |-> x[2]])}

\* As long as the list is not full every candidate examined is in it.
ListedOK ==
  mode = "searched" /\ ~ Idle /\ ncollision <= naconmax =>
    \A p \in Candidates : (kernel = "broad" => p \in ran) =>
      \E s \in Slots : s < ncollision /\ collision_pair[s] = p

\* Some kernel takes a pair, whatever its types.
RoutedOK == Recording => \A t \in Types : \E k \in Kernels : Takes(k, t)

\* The pairs of a type that asked for working memory.
Asking(t) ==
  {collision_pair[s] : s \in {u \in Slots : u \in ran /\ u < ncollision
                                /\ TypeOf[collision_pair[u]] = t /\ Takes("convex", t)
                                /\ collision_pair[u] \notin Filtered[pose]}}

MemoryOK ==
  /\ kernel = "broad" => nccd = [t \in Types |-> 0]
  /\ kernel = "convex" => \A t \in Types : nccd[t] = Cardinality(Asking(t))

OfType(t) == {p \in Reached : TypeOf[p] = t}

\* Who reports lack of memory has found more pairs than there is memory for.
CcdOK ==
  mode = "searched" /\ "ccd" \in reports => \E t \in Types : Cardinality(OfType(t)) > naccdmax

\* Who reports too many prisms has met a pair that has them.
HfieldOK ==
  mode = "searched" /\ "hfield" \in reports => Reached \cap Crowded[pose] # {}

\* The end of the step reports the rest.
EarlyOK == ~ Idle => reports \subseteq {"ccd", "hfield"}

PurposeOK ==
  Recording => \A n \in Slots : n < nacon =>
    contact[n].type = IF contact[n].of \in Elements THEN {"constraint"} ELSE Purpose(contact[n].of)

NumberOK == Recording => nacon <= Cardinality(Made)

KeptOK ==
  Recording /\ nacon <= naconmax /\ "ccd" \notin reports /\ "hfield" \notin reports =>
    \A x \in Made : \E n \in Slots :
      n < nacon /\ contact[n].of = x[1] /\ contact[n].point = x[2]

LossInv ==
  /\ ListedOK /\ RoutedOK /\ MemoryOK /\ CcdOK /\ HfieldOK /\ EarlyOK /\ PurposeOK /\ NumberOK /\ KeptOK
  /\ NoContactLostSilently /\ AlarmsJustified
=============================================================================

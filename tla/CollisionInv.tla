----------------------------- MODULE CollisionInv -----------------------------
(***************************************************************************)
(* The inductive invariant of Collision: what the counter of pairs and the *)
(* list say of each other, kernel by kernel, and which slots a thread may  *)
(* still be working on.                                                    *)
(***************************************************************************)
EXTENDS Collision

Detecting == kernel \in DOMAIN Following

\* How the pairs were found is known as long as it matters.
ModeOK ==
  /\ Detecting => mode \in {"searched", "cached"}
  /\ kernel = "broad" => mode = "searched"

\* The counter of pairs counts the candidates examined, also beyond the limit.
CountOK ==
  /\ kernel = "broad" =>
       ran \subseteq Examined /\ ncollision = Cardinality({p \in ran : Candidate(p)})
  /\ mode = "searched" /\ kernel # "broad" => ncollision = Cardinality(Candidates)
  /\ mode = "cached" => ncollision = 0

\* Below the counter the list is of this step.
ListOK == Detecting => \A s \in Slots : s < ncollision => collision_pair[s] \in Candidates

\* Contacts are still to be written for listed pairs only.
LeftOK ==
  \A w \in Writers \ Elements :
    left[w] > 0 => kernel \in Kernels /\ w \in Slots /\ w < ncollision

ReportOK == "broadphase" \in reports => Idle /\ ncollision > naconmax

ListInv == TypeOK /\ ModeOK /\ CountOK /\ ListOK /\ LeftOK /\ ReportOK

-----------------------------------------------------------------------------
(* What the contacts recorded so far say of the threads that are still at  *)
(* work: who has recorded a point will not record it again.                *)

\* Primitive kernels take what the table gives them, now and in earlier steps.
RoutesOK ==
  \A t \in primitive_types :
    IF t = BoxBox THEN table = "primitive" ELSE Route[t] = "primitive"

\* A pair is listed once, by the thread that examined it.
DistinctOK ==
  /\ Detecting => \A s, t \in Slots :
       s < ncollision /\ t < ncollision /\ collision_pair[s] = collision_pair[t] => s = t
  /\ kernel = "broad" => \A s \in Slots : s < ncollision => collision_pair[s] \in ran

\* What a thread is still to write is part of the result.
WorkOK ==
  \A w \in Writers : left[w] > 0 =>
    /\ w \in ran
    /\ IF w \in Elements
       THEN kernel = "flex" /\ w \in FlexTouching[pose] /\ left[w] = 1
       ELSE LET p == collision_pair[w] IN
              /\ p \notin Filtered[pose]
              /\ Takes(kernel, TypeOf[p]) /\ Recorded(p) /\ left[w] <= Points[p]

\* The narrowphase kernels that have run or are running.
Upto == [broad |-> {}, convex |-> {"convex"}, primitive |-> {"convex", "primitive"},
         sdf |-> Kernels, flex |-> Kernels, step |-> Kernels]

\* The thread that recorded contact c had its turn and has passed this point.
Passed(c) ==
  IF c.of \in Elements
  THEN kernel \in {"flex", "step"} /\ (kernel = "flex" => c.of \in ran /\ left[c.of] < c.point)
  ELSE \E s \in Slots :
         /\ s < ncollision /\ collision_pair[s] = c.of
         /\ \E k \in Upto[kernel] : Takes(k, TypeOf[c.of])
         /\ kernel \in Kernels /\ Takes(kernel, TypeOf[c.of])
              => s \in ran /\ left[s] < c.point

Recording == (Detecting \/ kernel = "step") /\ mode # "disabled"

RecordsOK ==
  Recording => \A n \in Slots : n < nacon =>
    /\ contact[n] \in Records /\ contact[n].pose = pose
    /\ <<contact[n].of, contact[n].point>> \in Forces \cup Readings
    /\ Passed(contact[n])

UniqueOK ==
  Recording => \A m, n \in Slots :
    m < nacon /\ n < nacon /\ m # n
      => <<contact[m].of, contact[m].point>> # <<contact[n].of, contact[n].point>>

ContactInv == RoutesOK /\ DistinctOK /\ WorkOK /\ RecordsOK /\ UniqueOK

\* The inductive invariant of the pipeline.
IndInv == ListInv /\ ContactInv
=============================================================================

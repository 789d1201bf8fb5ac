----------------------------- MODULE MCCollision -----------------------------
(***************************************************************************)
(* An instance of Collision for TLC: two pairs of boxes of one or two      *)
(* points, a body over a height field, a sensor's pair of spheres that     *)
(* exerts no force, a flex element.  The pairs far and hill are explicit.  *)
(* In the pose apart they touch by their own gaps only: one broadphase     *)
(* misses far and the filter of height fields hill; another pair that the  *)
(* filters pass is not swept, nor is the sensor's.  In the pose stacked    *)
(* there are more contacts than the smaller limits allow, in the pose sunk *)
(* the height field has too many.                                          *)
(***************************************************************************)
EXTENDS CollisionLossInv, TLC

CONSTANTS near, far, hill, gauge, cloth

AllPairs == {near, far, hill, gauge}
Range4 == "apart" :> {near, hill} @@ "stacked" :> {near, far, gauge} @@ "sunk" :> {near, hill}
Sweep4 == "apart" :> {far, hill} @@ "stacked" :> {near, far, gauge} @@ "sunk" :> {near, hill}
Touch4 == "apart" :> {far, hill} @@ "stacked" :> {near, far} @@ "sunk" :> {near, hill}
Filtered4 == "apart" :> {hill} @@ "stacked" :> {} @@ "sunk" :> {}
Crowded4 == "apart" :> {} @@ "stacked" :> {} @@ "sunk" :> {hill}
Cloth3 == "apart" :> {} @@ "stacked" :> {cloth} @@ "sunk" :> {}
Geoms4 == near :> "boxbox" @@ far :> "boxbox" @@ hill :> "heights" @@ gauge :> "spheres"
Routes3 == "boxbox" :> "convex" @@ "heights" :> "convex" @@ "spheres" :> "primitive"
Points4 == near :> 2 @@ far :> 1 @@ hill :> 1 @@ gauge :> 1
==============================================================================

-------------------------- MODULE MCConstraintRows --------------------------
(***************************************************************************)
(* An instance of ConstraintRows for TLC: a connect, a tendon equality     *)
(* whose zeros are dropped and two limits of one kernel; a contact of two  *)
(* rows, one that is too far to make a row, and a frictionless flex        *)
(* contact, in two slots.  The scenes pass the smaller limits by one and   *)
(* by several constraints, and fill the slots in different ways.           *)
(***************************************************************************)
EXTENDS ConstraintRowsInv, TLC

CONSTANTS anchor, cable, stop, catch, block, drop, cloth

Constraints4 == {anchor, cable, stop, catch}
Kernels4 == anchor :> 1 @@ cable :> 4 @@ stop :> 10 @@ catch :> 10
Contacts3 == {block, drop, cloth}
Rows7 == anchor :> 3 @@ cable :> 1 @@ stop :> 1 @@ catch :> 1
         @@ block :> 2 @@ drop :> 0 @@ cloth :> 1
Nnz7 == anchor :> 1 @@ cable :> 2 @@ stop :> 2 @@ catch :> 1
        @@ block :> 1 @@ drop :> 0 @@ cloth :> 1

\* make_data, and put_data of an MjData without contacts.
Data(address) ==
  [efc_address |-> [s \in Slots |-> [d \in Dims |-> address]],
   rownnz |-> [r \in Rows |-> 0], rowadr |-> [r \in Rows |-> 0]]
FirstData2 == {Data(0), Data(-1)}

Scene(a, x, y) == [active |-> a, contact |-> 0 :> x @@ 1 :> y]
Scenes6 == {Scene({anchor}, None, None),
            Scene({anchor, cable}, drop, None),
            Scene({cable}, block, block),
            Scene({stop, catch}, cloth, block),
            Scene({stop, catch}, block, cloth),
            Scene(Constraints4, None, None)}
=============================================================================

------------------------------ MODULE MCFlock ------------------------------
(* Model checking of the record locks: instances for TLC.                  *)
EXTENDS Flock

CONSTANTS t1, t2, t3, t4, o1, o2, o3

OnePerOwner   == (t1 :> o1) @@ (t2 :> o2)
ThreeOwners   == (t1 :> o1) @@ (t2 :> o2) @@ (t3 :> o3)
TwoOfOne      == (t1 :> o1) @@ (t2 :> o1) @@ (t3 :> o2) @@ (t4 :> o3)

=============================================================================

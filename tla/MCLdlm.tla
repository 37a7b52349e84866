------------------------------- MODULE MCLdlm -------------------------------
(***************************************************************************)
(* Small instances of Ldlm for TLC: up to three locks of three clients.    *)
(***************************************************************************)
EXTENDS Ldlm, TLC

CONSTANTS l1, l2, l3, c1, c2, c3, e1, e2

\* The enqueue threads are interchangeable.
ThreadSymmetry == Permutations({e1, e2})

\* Two readers and a writer of one bit.
Owner3 == [l \in Lock |-> (l1 :> c1 @@ l2 :> c2 @@ l3 :> c3)[l]]
Mode3 == [l \in Lock |-> (l1 :> "PR" @@ l2 :> "PW" @@ l3 :> "PR")[l]]
Bits3 == [l \in Lock |-> {"dom"}]

\* A cached lock of two bits and two locks that each want one of them.
ModeConv == [l \in Lock |-> (l1 :> "PR" @@ l2 :> "PW" @@ l3 :> "PW")[l]]
BitsConv == [l \in Lock |-> (l1 :> {"dom", "upd"} @@ l2 :> {"dom"}
                             @@ l3 :> {"upd"})[l]]
=============================================================================

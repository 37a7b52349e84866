------------------------------- MODULE MCFid -------------------------------
(***************************************************************************)
(* Small instances of Fid for TLC.                                         *)
(***************************************************************************)
EXTENDS Fid, TLC

CONSTANTS s1, s2, c1, c2

Space9 == [start |-> 1, end |-> 10]
Space4 == [start |-> 1, end |-> 5]
Space5 == [start |-> 1, end |-> 6]
Space7 == [start |-> 1, end |-> 8]

\* Skips the first sequence.
SpecGap == {[start |-> 2, end |-> 3]}

Shared == [c \in Client |-> s1]

ClientSymmetry == Permutations({c1, c2})
=============================================================================

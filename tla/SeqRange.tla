------------------------------ MODULE SeqRange ------------------------------
(***************************************************************************)
(* Ranges of FID sequences (struct lu_seq_range): start inclusive, end     *)
(* exclusive.                                                              *)
(***************************************************************************)
EXTENDS Integers

Range == [start : Nat, end : Nat]

Zero == [start |-> 0, end |-> 0]

\* The sequences of a range (lu_seq_range_within).
Within(r) == r.start .. (r.end - 1)

IsSane(r) == r.end >= r.start
SaneRange == {r \in Range : IsSane(r)}

\* The sequences of a set of ranges.
Covered(R) == UNION {Within(r) : r \in R}

Space(r) == r.end - r.start
IsExhausted(r) == Space(r) = 0
IsZero(r) == r = Zero

\* range_alloc(to, from, width): what "to" becomes and what is left of "from".
AllocEndWidth(from, width) == from.start + width  \* mutant: no min()
AllocEnd(from, width) ==
    from.start + (IF Space(from) < width THEN Space(from) ELSE width)
Taken(from, width) == [start |-> from.start, end |-> AllocEnd(from, width)]
Left(from, width) == [start |-> AllocEnd(from, width), end |-> from.end]
=============================================================================

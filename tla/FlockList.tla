----------------------------- MODULE FlockList -----------------------------
(***************************************************************************)
(* The list of POSIX record locks granted on one resource and what         *)
(* ldlm_process_flock_lock does to it when a request is granted: the locks *)
(* of the requesting owner that overlap or adjoin the request are merged,  *)
(* trimmed, split or removed.                                              *)
(*                                                                         *)
(* The locks of one owner are next to each other in the list, in order of  *)
(* their first byte.  "cur" is the set of threads that keep a pointer to   *)
(* the lock while they do not hold the resource lock.                      *)
(***************************************************************************)
EXTENDS LdlmModes, Integers, SequencesExt

CONSTANT Eof   \* OBD_OBJECT_EOF, the largest unsigned offset

ASSUME EofAssumption == Eof \in Nat \ {0}

\* 64-bit arithmetic wraps around.
Inc(x) == (x + 1) % (Eof + 1)
Dec(x) == (x - 1) % (Eof + 1)

FlocksOverlap(l, q) == q.start <= l.end /\ q.end >= l.start

\* The granted locks that a request q of owner o has to wait for.
BlockersInside(g, o, q) ==
    {i \in DOMAIN g : /\ q.mode # "NL"
                      /\ g[i].owner # o
                      /\ ~LockmodeCompat(g[i].mode, q.mode)
                      /\ q.start >= g[i].start /\ q.start <= g[i].end}

Blockers(g, o, q) ==
    {i \in DOMAIN g : /\ q.mode # "NL"
                      /\ g[i].owner # o
                      /\ ~LockmodeCompat(g[i].mode, q.mode)
                      /\ FlocksOverlap(g[i], q)}

-----------------------------------------------------------------------------
(* The scan of the owner's locks.  c is its state: the list, the position  *)
(* in it, the range as it has grown, whether the request is in the list    *)
(* already (as lock number c.new) and why the scan stops.                  *)

\* A lock of the same mode is not even adjacent to the range.
BeforeTouching(l, c) == c.start > l.end
Before(l, c) == c.start > Inc(l.end) /\ l.end # Eof
After(l, c)  == c.end < Dec(l.start) /\ l.start # 0

\* A lock of the same mode: the range grows to the union of both.  The first
\* such lock stands for the request from now on, the later ones go.
MergeLock(c, l) ==
    LET u == [start |-> Min({c.start, l.start}), end |-> Max({c.end, l.end})]
        Grown(i) == [c.g EXCEPT ![i].start = u.start, ![i].end = u.end]
        d == [c EXCEPT !.start = u.start, !.end = u.end]
    IN  IF c.added
        THEN [d EXCEPT !.g = RemoveAt(Grown(c.new), c.pos)]
        ELSE [d EXCEPT !.g = Grown(c.pos), !.new = c.pos, !.added = TRUE,
                       !.pos = c.pos + 1]

CoversStart(c, l) == c.start <= l.start
CoversInside(c, l) == c.start < l.start /\ c.end >= l.end
Covers(c, l) == c.start <= l.start /\ c.end >= l.end

\* Stop and allocate the lock that a split needs.
NeedLockCut(c) == [c EXCEPT !.stop = "alloc", !.g[c.pos].end = Dec(c.start)]
NeedLock(c) == [c EXCEPT !.stop = "alloc"]

\* A lock of another mode that overlaps the range loses what they share.  If
\* that splits it the second half needs a lock (c.new2): without one the scan
\* stops for the thread to allocate it.
CutLock(c, l) ==
    IF Covers(c, l) THEN [c EXCEPT !.g = RemoveAt(c.g, c.pos)]
    ELSE IF c.start <= l.start
    THEN [c EXCEPT !.g[c.pos].start = Inc(c.end), !.stop = "done"]
    ELSE IF c.end >= l.end
    THEN [c EXCEPT !.g[c.pos].end = Dec(c.start), !.pos = c.pos + 1]
    ELSE IF ~c.new2 THEN NeedLock(c)
    ELSE [c EXCEPT !.g = InsertAt([c.g EXCEPT ![c.pos].start = Inc(c.end)], c.pos,
                                  [l EXCEPT !.end = Dec(c.start), !.cur = {}]),
                   !.pos = c.pos + 1, !.stop = "done"]

RECURSIVE ScanOwn(_, _, _)
ScanOwn(c, o, m) ==
    IF c.stop # "" \/ c.pos > Len(c.g) THEN c
    ELSE LET l == c.g[c.pos]
             same == l.mode = m
             next == [c EXCEPT !.pos = c.pos + 1]
         IN  IF l.owner # o THEN c
             ELSE IF IF same THEN Before(l, c) ELSE c.start > l.end
             THEN ScanOwn(next, o, m)
             ELSE IF IF same THEN After(l, c) ELSE c.end < l.start THEN c
             ELSE IF same THEN ScanOwn(MergeLock(c, l), o, m)
             ELSE ScanOwn([CutLock(c, l) EXCEPT !.overlaps = TRUE], o, m)

\* Grant the request q of owner o with a scan that starts at position first.
\* If the result's stop is "alloc" then its pos is the lock to be split.
GrantFlock(g, o, q, first, new2, cur) ==
    LET c == ScanOwn([g |-> g, pos |-> first, start |-> q.start, end |-> q.end,
                      new |-> 0, added |-> q.mode = "NL", new2 |-> new2,
                      overlaps |-> FALSE, stop |-> ""], o, q.mode)
        l == [owner |-> o, mode |-> q.mode, start |-> q.start, end |-> q.end,
              cur |-> cur]
    IN  IF c.stop = "alloc" \/ c.added THEN c
        ELSE [c EXCEPT !.g = InsertAt(c.g, c.pos, l)]
=============================================================================

------------------------- MODULE LdlmEvictionProofs -------------------------
(***************************************************************************)
(* What the steps of Ldlm do to the record of a thread and to the lock of a *)
(* client, and that no step breaks EvictionInv.                            *)
(***************************************************************************)
EXTENDS Ldlm, TLAPS

\* What a free thread's record holds.
LEMMA IdleFields ==
    /\ Idle.pc = "idle" /\ Idle.ctx = "none" /\ Idle.lock = NoLock /\ Idle.bl = {}
    /\ Idle.cur = NoLock /\ Idle.out = {} /\ Idle.cp = {} /\ Idle.restart = FALSE
    /\ Idle.rescan = FALSE /\ Idle.rc = "error" /\ Idle.ast = FALSE /\ Idle.drop = {}
BY Zenon DEF Idle

\* The compatibility matrix is symmetric (LCK_COMPAT_*), and so is conflict.
LEMMA ConflictSymmetric ==
    ASSUME NEW m1 \in LdlmMode, NEW m2 \in LdlmMode, NEW b1, NEW b2,
           InodebitsConflict(m1, b1, m2, b2)
    PROVE  InodebitsConflict(m2, b2, m1, b1)
<1>1. \A x, y \in LdlmMode : LockmodeCompat(x, y) => LockmodeCompat(y, x)
  BY DEF LdlmMode, LockmodeCompat, LckCompat
<1> QED
  BY <1>1 DEF InodebitsConflict

\* The requested modes are lock modes, so conflicts are symmetric.
LEMMA LockConflictSymmetric ==
    ASSUME NEW l \in Lock, NEW m \in Lock,
           InodebitsConflict(Mode[l], bits[l], Mode[m], bits[m])
    PROVE  InodebitsConflict(Mode[m], bits[m], Mode[l], bits[l])
BY LockAssumption, ConflictSymmetric

-----------------------------------------------------------------------------
(* The halves of the type invariant, of the server and of its clients.     *)

SInv == ServerTypeOK /\ LocksCreated /\ net \subseteq Message

CInv == ClientTypeOK /\ net \subseteq Message

TypeInv == TypeOK /\ LocksCreated

QInv == WaitingOrdered /\ GrantedCompatible

Phase == {"queued", "ast", "cancel", "convert"}

\* A thread is in a thread state and holds created locks only.
LEMMA ThreadTyped ==
    ASSUME SInv, NEW t \in Thread
    PROVE  thr[t] \in ThreadState /\ ThreadLocks(thr[t], created)
BY DEF SInv, ServerTypeOK, LocksCreated

-----------------------------------------------------------------------------
(* What each action does to the record of its thread.                      *)

\* Thread t goes to pc with these lists and this result, and keeps the rest.
Moves(t, pc, bl, cp, out, rescan, rc) ==
    /\ \A u \in Thread : u # t => thr'[u] = thr[u]
    /\ thr'[t].pc = pc /\ thr'[t].ctx = thr[t].ctx /\ thr'[t].lock = thr[t].lock
    /\ thr'[t].bl = bl /\ thr'[t].cp = cp /\ thr'[t].out = out
    /\ thr'[t].rescan = rescan /\ thr'[t].rc = rc /\ thr'[t].drop = thr[t].drop

\* Only the thread that takes the step changes.
LEMMA BecomeThread ==
    ASSUME SInv, NEW t \in Thread, NEW r, Become(t, r)
    PROVE  thr'[t] = r /\ \A u \in Thread : u # t => thr'[u] = thr[u]
BY DEF Become, SInv, ServerTypeOK

\* ldlm_handle_enqueue0 starts from a free thread.
LEMMA HandleEnqueueMoves ==
    ASSUME SInv, NEW t \in Thread, NEW l \in Lock, HandleEnqueue(t, l)
    PROVE  /\ \A u \in Thread : u # t => thr'[u] = thr[u]
           /\ thr'[t].pc = (IF Owner[l] \in failed THEN "reproc" ELSE "hash")
           /\ thr'[t].ctx = "enq" /\ thr'[t].lock = l /\ thr'[t].bl = {}
           /\ thr'[t].cp = {} /\ thr'[t].out = {} /\ thr'[t].rescan = FALSE
           /\ thr'[t].rc = "error"
<1> DEFINE pc == IF Owner[l] \in failed THEN "reproc" ELSE "hash"
           r == [Idle EXCEPT !.pc = pc, !.ctx = "enq", !.lock = l]
<1>1. Become(t, r)
  BY DEF HandleEnqueue
<1> HIDE DEF pc
<1>2. /\ r.pc = pc /\ r.ctx = "enq" /\ r.lock = l /\ r.bl = {} /\ r.cp = {}
      /\ r.out = {} /\ r.rescan = FALSE /\ r.rc = "error"
  BY Zenon DEF Idle
<1> HIDE DEF r
<1> QED
  BY <1>1, <1>2, BecomeThread, Zenon DEF pc

\* The lock enters the lock hash.
LEMMA ExportAddLockMoves ==
    ASSUME SInv, NEW t \in Thread, ExportAddLock(t)
    PROVE  Moves(t, "policy", thr[t].bl, thr[t].cp,
                 thr[t].out, thr[t].rescan, thr[t].rc)
<1> DEFINE r == [thr[t] EXCEPT !.pc = "policy"]
<1>1. Become(t, r) /\ thr[t] \in ThreadState
  BY ThreadTyped, Zenon DEF ExportAddLock, Goto
<1>2. /\ r.pc = "policy" /\ r.ctx = thr[t].ctx /\ r.lock = thr[t].lock
      /\ r.bl = thr[t].bl /\ r.cp = thr[t].cp /\ r.out = thr[t].out
      /\ r.rescan = thr[t].rescan /\ r.rc = thr[t].rc /\ r.drop = thr[t].drop
  BY <1>1, Zenon DEF ThreadState
<1> HIDE DEF r
<1> QED
  BY <1>1, <1>2, BecomeThread, Zenon DEF Moves

\* The policy calls the conflicting locks back ...
LEMMA BlockMoves ==
    ASSUME SInv, NEW t \in Thread, NEW N,
           Become(t, [thr[t] EXCEPT !.pc = "bl", !.bl = N, !.restart = FALSE])
    PROVE  Moves(t, "bl", N, thr[t].cp, thr[t].out, thr[t].rescan, thr[t].rc)
<1> DEFINE r == [thr[t] EXCEPT !.pc = "bl", !.bl = N, !.restart = FALSE]
<1>1. Become(t, r) /\ thr[t] \in ThreadState
  BY ThreadTyped, Zenon
<1>2. /\ r.pc = "bl" /\ r.ctx = thr[t].ctx /\ r.lock = thr[t].lock
      /\ r.bl = N /\ r.cp = thr[t].cp /\ r.out = thr[t].out
      /\ r.rescan = thr[t].rescan /\ r.rc = thr[t].rc /\ r.drop = thr[t].drop
  BY <1>1, Zenon DEF ThreadState
<1> HIDE DEF r
<1> QED
  BY <1>1, <1>2, BecomeThread, Zenon DEF Moves

\* ... or grants the lock; or all blocking ASTs of an enqueue are answered.
LEMMA FinishMoves ==
    ASSUME SInv, NEW t \in Thread, NEW rc,
           Become(t, [thr[t] EXCEPT !.pc = "finish", !.rc = rc])
    PROVE  Moves(t, "finish", thr[t].bl, thr[t].cp, thr[t].out, thr[t].rescan, rc)
<1> DEFINE r == [thr[t] EXCEPT !.pc = "finish", !.rc = rc]
<1>1. Become(t, r) /\ thr[t] \in ThreadState
  BY ThreadTyped, Zenon
<1>2. /\ r.pc = "finish" /\ r.ctx = thr[t].ctx /\ r.lock = thr[t].lock
      /\ r.bl = thr[t].bl /\ r.cp = thr[t].cp /\ r.out = thr[t].out
      /\ r.rescan = thr[t].rescan /\ r.rc = rc /\ r.drop = thr[t].drop
  BY <1>1, Zenon DEF ThreadState
<1> HIDE DEF r
<1> QED
  BY <1>1, <1>2, BecomeThread, Zenon DEF Moves

\* A blocking AST is sent ...
LEMMA BlAstSendMoves ==
    ASSUME SInv, NEW t \in Thread, NEW c, NEW o,
           Become(t, [thr[t] EXCEPT !.pc = "blfin", !.bl = @ \ {c}, !.cur = c, !.out = o])
    PROVE  /\ Moves(t, "blfin", thr[t].bl \ {c}, thr[t].cp, o, thr[t].rescan, thr[t].rc)
           /\ thr'[t].cur = c
<1> DEFINE r == [thr[t] EXCEPT !.pc = "blfin", !.bl = @ \ {c}, !.cur = c, !.out = o]
<1>1. Become(t, r) /\ thr[t] \in ThreadState
  BY ThreadTyped, Zenon
<1>2. /\ r.pc = "blfin" /\ r.ctx = thr[t].ctx /\ r.lock = thr[t].lock
      /\ r.bl = thr[t].bl \ {c} /\ r.cp = thr[t].cp /\ r.out = o
      /\ r.rescan = thr[t].rescan /\ r.rc = thr[t].rc /\ r.drop = thr[t].drop
      /\ r.cur = c
  BY <1>1, Zenon DEF ThreadState
<1> HIDE DEF r
<1> QED
  BY <1>1, <1>2, BecomeThread, Zenon DEF Moves

\* ... and the next one is looked at.
LEMMA BlAstFiniMoves ==
    ASSUME SInv, NEW t \in Thread, BlAstFini(t)
    PROVE  Moves(t, "bl", thr[t].bl, thr[t].cp, thr[t].out, thr[t].rescan, thr[t].rc)
<1> DEFINE r == [thr[t] EXCEPT !.pc = "bl", !.cur = NoLock]
<1>1. Become(t, r) /\ thr[t] \in ThreadState
  BY ThreadTyped, Zenon DEF BlAstFini
<1>2. /\ r.pc = "bl" /\ r.ctx = thr[t].ctx /\ r.lock = thr[t].lock
      /\ r.bl = thr[t].bl /\ r.cp = thr[t].cp /\ r.out = thr[t].out
      /\ r.rescan = thr[t].rescan /\ r.rc = thr[t].rc /\ r.drop = thr[t].drop
  BY <1>1, Zenon DEF ThreadState
<1> HIDE DEF r
<1> QED
  BY <1>1, <1>2, BecomeThread, Zenon DEF Moves

\* An AST is answered, or given up.
LEMMA AnsweredMoves ==
    ASSUME SInv, NEW t \in Thread, NEW c, NEW b,
           Become(t, [thr[t] EXCEPT !.out = @ \ {c}, !.restart = b])
    PROVE  /\ Moves(t, thr[t].pc, thr[t].bl, thr[t].cp,
                    thr[t].out \ {c}, thr[t].rescan, thr[t].rc)
           /\ thr'[t].cur = thr[t].cur
<1> DEFINE r == [thr[t] EXCEPT !.out = @ \ {c}, !.restart = b]
<1>1. Become(t, r) /\ thr[t] \in ThreadState
  BY ThreadTyped, Zenon
<1>2. /\ r.pc = thr[t].pc /\ r.ctx = thr[t].ctx /\ r.lock = thr[t].lock
      /\ r.bl = thr[t].bl /\ r.cp = thr[t].cp /\ r.out = thr[t].out \ {c}
      /\ r.rescan = thr[t].rescan /\ r.rc = thr[t].rc /\ r.drop = thr[t].drop
      /\ r.cur = thr[t].cur
  BY <1>1, Zenon DEF ThreadState
<1> HIDE DEF r
<1> QED
  BY <1>1, <1>2, BecomeThread, Zenon DEF Moves

\* The end of an enqueue, for a lock that is gone ...
LEMMA DeadMoves ==
    ASSUME SInv, NEW t \in Thread, NEW pc,
           Become(t, [thr[t] EXCEPT !.pc = pc, !.rc = "error"])
    PROVE  Moves(t, pc, thr[t].bl, thr[t].cp, thr[t].out, thr[t].rescan, "error")
<1> DEFINE r == [thr[t] EXCEPT !.pc = pc, !.rc = "error"]
<1>1. Become(t, r) /\ thr[t] \in ThreadState
  BY ThreadTyped, Zenon
<1>2. /\ r.pc = pc /\ r.ctx = thr[t].ctx /\ r.lock = thr[t].lock
      /\ r.bl = thr[t].bl /\ r.cp = thr[t].cp /\ r.out = thr[t].out
      /\ r.rescan = thr[t].rescan /\ r.rc = "error" /\ r.drop = thr[t].drop
  BY <1>1, Zenon DEF ThreadState
<1> HIDE DEF r
<1> QED
  BY <1>1, <1>2, BecomeThread, Zenon DEF Moves

\* ... and for one that is not.
LEMMA DoneMoves ==
    ASSUME SInv, NEW t \in Thread, NEW pc, NEW a,
           Become(t, [thr[t] EXCEPT !.pc = pc, !.ast = a])
    PROVE  Moves(t, pc, thr[t].bl, thr[t].cp, thr[t].out, thr[t].rescan, thr[t].rc)
<1> DEFINE r == [thr[t] EXCEPT !.pc = pc, !.ast = a]
<1>1. Become(t, r) /\ thr[t] \in ThreadState
  BY ThreadTyped, Zenon
<1>2. /\ r.pc = pc /\ r.ctx = thr[t].ctx /\ r.lock = thr[t].lock
      /\ r.bl = thr[t].bl /\ r.cp = thr[t].cp /\ r.out = thr[t].out
      /\ r.rescan = thr[t].rescan /\ r.rc = thr[t].rc /\ r.drop = thr[t].drop
  BY <1>1, Zenon DEF ThreadState
<1> HIDE DEF r
<1> QED
  BY <1>1, <1>2, BecomeThread, Zenon DEF Moves

\* A scan of the queue ends, with nothing blocked ...
LEMMA ScanEndMoves ==
    ASSUME SInv, NEW t \in Thread,
           Become(t, [thr[t] EXCEPT !.pc = "cp", !.rescan = TRUE, !.restart = FALSE,
                             !.cp = @ \cup Grantable])
    PROVE  Moves(t, "cp", thr[t].bl, thr[t].cp \cup Grantable,
                 thr[t].out, TRUE, thr[t].rc)
<1> DEFINE r == [thr[t] EXCEPT !.pc = "cp", !.rescan = TRUE, !.restart = FALSE, !.cp = @ \cup Grantable]
<1>1. Become(t, r) /\ thr[t] \in ThreadState
  BY ThreadTyped, Zenon
<1>2. /\ r.pc = "cp" /\ r.ctx = thr[t].ctx /\ r.lock = thr[t].lock
      /\ r.bl = thr[t].bl /\ r.cp = thr[t].cp \cup Grantable /\ r.out = thr[t].out
      /\ r.rescan = TRUE /\ r.rc = thr[t].rc /\ r.drop = thr[t].drop
  BY <1>1, Zenon DEF ThreadState
<1> HIDE DEF r
<1> QED
  BY <1>1, <1>2, BecomeThread, Zenon DEF Moves

\* ... or with locks to call back.
LEMMA ScanBlockMoves ==
    ASSUME SInv, NEW t \in Thread, NEW N,
           Become(t, [thr[t] EXCEPT !.pc = "bl", !.bl = N, !.rescan = TRUE,
                             !.restart = FALSE, !.cp = @ \cup Grantable])
    PROVE  Moves(t, "bl", N, thr[t].cp \cup Grantable, thr[t].out, TRUE, thr[t].rc)
<1> DEFINE r == [thr[t] EXCEPT !.pc = "bl", !.bl = N, !.rescan = TRUE, !.restart = FALSE, !.cp = @ \cup Grantable]
<1>1. Become(t, r) /\ thr[t] \in ThreadState
  BY ThreadTyped, Zenon
<1>2. /\ r.pc = "bl" /\ r.ctx = thr[t].ctx /\ r.lock = thr[t].lock
      /\ r.bl = N /\ r.cp = thr[t].cp \cup Grantable /\ r.out = thr[t].out
      /\ r.rescan = TRUE /\ r.rc = thr[t].rc /\ r.drop = thr[t].drop
  BY <1>1, Zenon DEF ThreadState
<1> HIDE DEF r
<1> QED
  BY <1>1, <1>2, BecomeThread, Zenon DEF Moves

\* The blocking ASTs of a scan are answered.
LEMMA ScanBlDoneMoves ==
    ASSUME SInv, NEW t \in Thread, NEW pc,
           Become(t, [thr[t] EXCEPT !.pc = pc, !.restart = FALSE])
    PROVE  Moves(t, pc, thr[t].bl, thr[t].cp, thr[t].out, thr[t].rescan, thr[t].rc)
<1> DEFINE r == [thr[t] EXCEPT !.pc = pc, !.restart = FALSE]
<1>1. Become(t, r) /\ thr[t] \in ThreadState
  BY ThreadTyped, Zenon
<1>2. /\ r.pc = pc /\ r.ctx = thr[t].ctx /\ r.lock = thr[t].lock
      /\ r.bl = thr[t].bl /\ r.cp = thr[t].cp /\ r.out = thr[t].out
      /\ r.rescan = thr[t].rescan /\ r.rc = thr[t].rc /\ r.drop = thr[t].drop
  BY <1>1, Zenon DEF ThreadState
<1> HIDE DEF r
<1> QED
  BY <1>1, <1>2, BecomeThread, Zenon DEF Moves

\* A completion AST is sent.
LEMMA CpAstSendMoves ==
    ASSUME SInv, NEW t \in Thread, NEW c, NEW o,
           Become(t, [thr[t] EXCEPT !.cp = @ \ {c}, !.out = o])
    PROVE  Moves(t, thr[t].pc, thr[t].bl, thr[t].cp \ {c}, o, thr[t].rescan, thr[t].rc)
<1> DEFINE r == [thr[t] EXCEPT !.cp = @ \ {c}, !.out = o]
<1>1. Become(t, r) /\ thr[t] \in ThreadState
  BY ThreadTyped, Zenon
<1>2. /\ r.pc = thr[t].pc /\ r.ctx = thr[t].ctx /\ r.lock = thr[t].lock
      /\ r.bl = thr[t].bl /\ r.cp = thr[t].cp \ {c} /\ r.out = o
      /\ r.rescan = thr[t].rescan /\ r.rc = thr[t].rc /\ r.drop = thr[t].drop
  BY <1>1, Zenon DEF ThreadState
<1> HIDE DEF r
<1> QED
  BY <1>1, <1>2, BecomeThread, Zenon DEF Moves

\* A thread goes on.
LEMMA GotoMoves ==
    ASSUME SInv, NEW t \in Thread, NEW pc, Goto(t, pc)
    PROVE  Moves(t, pc, thr[t].bl, thr[t].cp, thr[t].out, thr[t].rescan, thr[t].rc)
<1> DEFINE r == [thr[t] EXCEPT !.pc = pc]
<1>1. Become(t, r) /\ thr[t] \in ThreadState
  BY ThreadTyped, Zenon DEF Goto
<1>2. /\ r.pc = pc /\ r.ctx = thr[t].ctx /\ r.lock = thr[t].lock
      /\ r.bl = thr[t].bl /\ r.cp = thr[t].cp /\ r.out = thr[t].out
      /\ r.rescan = thr[t].rescan /\ r.rc = thr[t].rc /\ r.drop = thr[t].drop
  BY <1>1, Zenon DEF ThreadState
<1> HIDE DEF r
<1> QED
  BY <1>1, <1>2, BecomeThread, Zenon DEF Moves

-----------------------------------------------------------------------------
(* Most steps of the server only cancel locks, stop timers or go on.       *)

\* What a convert makes of its thread.
LEMMA HandleConvertMoves ==
    ASSUME SInv, NEW t \in Thread, NEW l, NEW d, thr[t] = Idle,
           Become(t, [thr[t] EXCEPT !.pc = "conv", !.ctx = "conv", !.lock = l, !.drop = d])
    PROVE  /\ \A u \in Thread : u # t => thr'[u] = thr[u]
           /\ thr'[t].pc = "conv" /\ thr'[t].ctx = "conv" /\ thr'[t].lock = l
           /\ thr'[t].bl = {} /\ thr'[t].cp = {} /\ thr'[t].out = {}
           /\ thr'[t].rescan = FALSE /\ thr'[t].rc = "error" /\ thr'[t].drop = d
<1> DEFINE r == [thr[t] EXCEPT !.pc = "conv", !.ctx = "conv", !.lock = l, !.drop = d]
<1>1. /\ r.pc = "conv" /\ r.ctx = "conv" /\ r.lock = l
      /\ r.bl = thr[t].bl /\ r.cp = thr[t].cp /\ r.out = thr[t].out
      /\ r.rescan = thr[t].rescan /\ r.rc = thr[t].rc /\ r.drop = d
  BY ThreadTyped, Zenon DEF ThreadState
<1>2. Become(t, r)
  BY Zenon
<1>3. /\ thr[t].bl = {} /\ thr[t].cp = {} /\ thr[t].out = {}
      /\ thr[t].rescan = FALSE /\ thr[t].rc = "error"
  BY IdleFields
<1> HIDE DEF r
<1> QED
  BY <1>1, <1>2, <1>3, BecomeThread, Zenon

-----------------------------------------------------------------------------
(* The steps that start and end an enqueue, queue locks and send ASTs.     *)

\* What the policy does for the lock of thread t.
LEMMA PolicyMoves ==
    ASSUME SInv, NEW t \in Thread, ProcessEnqueue(t, thr[t].lock)
    PROVE  \E pc \in {"finish", "bl"} : \E bl, rc :
             /\ Moves(t, pc, bl, thr[t].cp, thr[t].out, thr[t].rescan, rc)
             /\ pc = "finish" => bl = thr[t].bl /\ rc = "granted"
                                /\ thr[t].lock \in granted' \cup destroyed
             /\ pc = "bl" => granted' = granted /\ rc = thr[t].rc
             /\ granted \subseteq granted' /\ granted' \subseteq granted \cup {thr[t].lock}
             /\ waiting \subseteq waiting' \cup {thr[t].lock}
             /\ waiting' \subseteq waiting \cup {thr[t].lock}
             /\ thr[t].lock \in destroyed =>
                  granted' \subseteq granted /\ waiting' \subseteq waiting
             /\ \/ pc = "bl" /\ astSent' = astSent \cup bl
                \/ pc = "finish" /\ astSent' = astSent
<1> DEFINE l == thr[t].lock
           C == Conflicts(l, granted \cup QueueAhead(l))
<1>1. CASE C = {}
  <2>1. /\ Become(t, [thr[t] EXCEPT !.pc = "finish", !.rc = "granted"])
        /\ granted' = granted \cup ({l} \ destroyed) /\ waiting' = waiting \ {l}
        /\ astSent' = astSent
    BY <1>1, Zenon DEF ProcessEnqueue
  <2>2. Moves(t, "finish", thr[t].bl, thr[t].cp, thr[t].out, thr[t].rescan, "granted")
    BY <2>1, FinishMoves, ZenonT(40)
  <2> QED
    BY <2>1, <2>2
<1>2. CASE C # {}
  <2> DEFINE N == ToCallBack(C)
  <2>1. /\ Become(t, [thr[t] EXCEPT !.pc = "bl", !.bl = N, !.restart = FALSE])
        /\ granted' = granted /\ waiting' = waiting \cup ({l} \ destroyed)
        /\ astSent' = astSent \cup N
    BY <1>2, Zenon DEF ProcessEnqueue, AddBlWork
  <2> HIDE DEF N
  <2>2. Moves(t, "bl", N, thr[t].cp, thr[t].out, thr[t].rescan, thr[t].rc)
    BY <2>1, BlockMoves, Zenon
  <2> QED
    BY <2>1, <2>2
<1> QED
  BY <1>1, <1>2, Zenon

-----------------------------------------------------------------------------
(* What the transformations of ldlm_request.c do to a client's lock.       *)

\* What none of them touches.
SameGrant(c, d) == d.granted = c.granted /\ d.bits = c.bits

SameState(c, d) == SameGrant(c, d) /\ d.st = c.st /\ d.failed = c.failed

\* ldlm_lock_decref_internal.
LEMMA DropLastRefFields ==
    ASSUME NEW c \in ClientLock
    PROVE  LET d == DropLastRef(c) IN
           /\ SameState(c, d)
           /\ ~d.ref /\ d.cbpending = c.cbpending /\ d.canceling = c.canceling
           /\ d.converting = c.converting
           /\ d.work = c.work \/ d.work = c.work \cup {<<{}, "queued">>}
<1> DEFINE w == IF c.cbpending THEN c.work \cup {<<{}, "queued">>} ELSE c.work
           u == c.lru \/ ~(c.cbpending \/ c.blAst \/ c.converting)
           d == [c EXCEPT !.ref = FALSE, !.work = w, !.lru = u]
<1>1. DropLastRef(c) = d
  BY DEF DropLastRef, ClientLock
<1>2. w = c.work \/ w = c.work \cup {<<{}, "queued">>}
  OBVIOUS
<1> HIDE DEF w, u
<1>3. /\ d.st = c.st /\ d.granted = c.granted /\ d.bits = c.bits /\ d.failed = c.failed
      /\ d.ref = FALSE /\ d.cbpending = c.cbpending /\ d.canceling = c.canceling
      /\ d.converting = c.converting /\ d.work = w
  BY Zenon DEF ClientLock
<1> HIDE DEF d
<1> QED
  BY <1>1, <1>2, <1>3, Zenon DEF SameState, SameGrant

\* failed_lock_cleanup.
LEMMA FailedLockCleanupFields ==
    ASSUME NEW c \in ClientLock
    PROVE  LET d == FailedLockCleanup(c) IN
           /\ SameGrant(c, d) /\ d.st = "held" /\ (c.failed => d.failed)
           /\ ~d.ref /\ (c.cbpending => d.cbpending) /\ d.canceling = c.canceling
           /\ d.converting = c.converting
           /\ \/ d.work = c.work \/ d.work = c.work \cup {<<{}, "queued">>}
              \/ d.work = c.work \cup {<<{}, "ast">>} /\ d.cbpending
<1>1. CASE ~c.granted /\ ~c.failed
  <2> DEFINE w == c.work \cup {<<{}, "ast">>}
             d == [c EXCEPT !.st = "held", !.ref = FALSE, !.local = TRUE, !.failed = TRUE,
                            !.cbpending = TRUE, !.work = w]
  <2>1. FailedLockCleanup(c) = d
    BY <1>1 DEF FailedLockCleanup
  <2> HIDE DEF w
  <2>2. /\ d.st = "held" /\ d.granted = c.granted /\ d.bits = c.bits /\ d.failed = TRUE
        /\ d.ref = FALSE /\ d.cbpending = TRUE /\ d.canceling = c.canceling
        /\ d.converting = c.converting /\ d.work = w
    BY Zenon DEF ClientLock
  <2> HIDE DEF d
  <2> QED
    BY <2>1, <2>2, Zenon DEF SameGrant, w
<1>2. CASE ~(~c.granted /\ ~c.failed)
  <2> DEFINE e == [c EXCEPT !.st = "held"]
  <2>1. FailedLockCleanup(c) = DropLastRef(e)
    BY <1>2 DEF FailedLockCleanup
  <2>2. /\ e.st = "held" /\ e.granted = c.granted /\ e.bits = c.bits /\ e.failed = c.failed
        /\ e.cbpending = c.cbpending /\ e.canceling = c.canceling
        /\ e.converting = c.converting /\ e.work = c.work
    BY Zenon DEF ClientLock
  <2>3. e \in ClientLock
    BY DEF ClientLock
  <2> HIDE DEF e
  <2> QED
    BY <2>1, <2>2, <2>3, DropLastRefFields, Zenon DEF SameState, SameGrant
<1> QED
  BY <1>1, <1>2, Zenon

\* The start of a cancel, in ldlm_cli_cancel.
LEMMA StartCancelFields ==
    ASSUME NEW c \in ClientLock, NEW v
    PROVE  LET d == StartCancel(c, v) IN
           /\ SameState(c, d)
           /\ d.ref = c.ref /\ d.work = c.work /\ d.converting = c.converting
           /\ d.canceling /\ (c.canceling => d.cbpending = c.cbpending)
           /\ (~c.canceling => d.cbpending)
<1>1. CASE c.canceling
  BY <1>1, Zenon DEF StartCancel, SameState, SameGrant
<1>2. CASE ~c.canceling
  <2> DEFINE a == c.blAst \/ c.converting
             o == c.local \/ v
             d == [c EXCEPT !.canceling = TRUE, !.cbpending = TRUE, !.blAst = a, !.local = o]
  <2>1. StartCancel(c, v) = d
    BY <1>2 DEF StartCancel
  <2> HIDE DEF a, o
  <2>2. /\ d.st = c.st /\ d.granted = c.granted /\ d.bits = c.bits /\ d.failed = c.failed
        /\ d.ref = c.ref /\ d.work = c.work /\ d.converting = c.converting
        /\ d.canceling = TRUE /\ d.cbpending = TRUE
    BY Zenon DEF ClientLock
  <2> HIDE DEF d
  <2> QED
    BY <1>2, <2>1, <2>2, Zenon DEF SameState, SameGrant
<1> QED
  BY <1>1, <1>2, Zenon

\* lock_convert_interpret.
LEMMA ConvertFields ==
    ASSUME NEW c \in ClientLock, NEW b, NEW v
    PROVE  SameState(c, ConvertDone(c, b)) /\ SameState(c, ConvertFailed(c, v))
<1>1. SameState(c, ConvertDone(c, b))
  <2> DEFINE k == IF c.blAst THEN c.cancelBits ELSE {}
             d == [c EXCEPT !.converting = FALSE, !.cancelBits = k]
  <2>1. ConvertDone(c, b) \in {c, d}
    BY DEF ConvertDone
  <2> HIDE DEF k
  <2>2. /\ d.st = c.st /\ d.granted = c.granted /\ d.bits = c.bits /\ d.failed = c.failed
    BY Zenon DEF ClientLock
  <2> HIDE DEF d
  <2> QED
    BY <2>1, <2>2 DEF SameState, SameGrant
<1>2. SameState(c, ConvertFailed(c, v))
  <2> DEFINE e == [c EXCEPT !.converting = FALSE, !.cbpending = TRUE,
                            !.blAst = TRUE, !.cancelBits = {}]
             d == IF c.converting THEN e ELSE c
  <2>1. ConvertFailed(c, v) = StartCancel(d, v)
    BY DEF ConvertFailed
  <2>2. /\ e.st = c.st /\ e.granted = c.granted /\ e.bits = c.bits /\ e.failed = c.failed
    BY Zenon DEF ClientLock
  <2>3. e \in ClientLock
    BY Zenon DEF ClientLock
  <2> HIDE DEF e
  <2>4. d \in ClientLock /\ SameState(c, d)
    BY <2>2, <2>3 DEF SameState, SameGrant
  <2> HIDE DEF d
  <2>5. SameState(d, StartCancel(d, v))
    BY <2>4, StartCancelFields
  <2> QED
    BY <2>1, <2>4, <2>5, Zenon DEF SameState, SameGrant
<1> QED
  BY <1>1, <1>2

\* cleanup_resource: the lock is failed; it is cancelled unless in use.
LEMMA CleanupResourceFields ==
    ASSUME NEW c \in ClientLock
    PROVE  LET d == CleanupResource(c) IN
           /\ SameGrant(c, d) /\ d.st = "held" /\ d.failed
           /\ d.ref = c.ref /\ d.work = c.work /\ d.converting = c.converting
           /\ d.cbpending
           /\ d.canceling => c.canceling \/ ~c.ref \/ c.converting
<1> DEFINE f == [c EXCEPT !.st = "held", !.failed = TRUE, !.cbpending = TRUE, !.local = TRUE]
<1>1. CleanupResource(c) = IF c.ref /\ ~c.converting THEN f ELSE StartCancel(f, TRUE)
  BY DEF CleanupResource
<1>2. /\ f.st = "held" /\ f.granted = c.granted /\ f.bits = c.bits /\ f.failed = TRUE
      /\ f.ref = c.ref /\ f.work = c.work /\ f.converting = c.converting
      /\ f.canceling = c.canceling /\ f.cbpending = TRUE
  BY Zenon DEF ClientLock
<1>3. f \in ClientLock
  BY Zenon DEF ClientLock
<1> HIDE DEF f
<1>4. LET d == StartCancel(f, TRUE) IN
        /\ SameState(f, d)
        /\ d.ref = f.ref /\ d.work = f.work /\ d.converting = f.converting
        /\ (f.canceling => d.cbpending = f.cbpending) /\ (~f.canceling => d.cbpending)
  BY <1>3, StartCancelFields, Zenon
<1>5. CASE c.ref /\ ~c.converting
  BY <1>1, <1>2, <1>5, Zenon DEF SameGrant
<1>6. CASE ~(c.ref /\ ~c.converting)
  BY <1>1, <1>2, <1>4, <1>6, Zenon DEF SameGrant, SameState
<1> QED
  BY <1>5, <1>6, Zenon

-----------------------------------------------------------------------------
(* What a step of a client does, short of a new enqueue.                   *)

\* A message tells the client that l is granted.
Told(l) ==
    \E m \in net : m.lock = l /\ (m.type = "cp" \/ (m.type = "enqrep" /\ m.rc = "granted"))

\* The lock goes forward: what is given up stays given up, a grant comes from
\* a message, bits are dropped or come with the grant.
CliGoes(l) ==
    /\ \A k \in Lock : k # l => cl'[k] = cl[k]
    /\ cl'[l].st = "none" => cl'[l] = cl[l]
    /\ cl[l].st = "gone" => cl'[l].st = "gone"
    /\ Ended(l) => Ended(l)'
    /\ cl[l].granted => cl'[l].granted \/ cl'[l].st = "gone"
    /\ Held(l)' => Held(l) \/ Told(l)
    /\ \/ cl'[l].bits \subseteq cl[l].bits
       \/ /\ ~cl[l].granted /\ cl[l].st # "gone" /\ cl'[l].granted
          /\ \E m \in net : m.lock = l /\ m.type = "cp" /\ m.bits = cl'[l].bits

CliSends(l) ==
    /\ clbug' = {} => clbug = {}
    /\ \A m \in net' \ net :
         /\ m.lock = l
         /\ \/ m.type = "cancel" /\ cl'[l].st = "gone"
            \/ m.type = "convert" /\ m.bits = cl'[l].bits /\ (clbug' = {} => cl[l].granted)
            \/ /\ m.type = "astrep" /\ (m.rc = "einval" => Ended(l) \/ cl[l].st = "none")
               /\ \E n \in net : n.lock = l /\ n.type \in {"bl", "cp"}

\* One lock is updated.
LEMMA ClientChanged ==
    ASSUME CInv, NEW l \in Lock, NEW c, cl' = [cl EXCEPT ![l] = c]
    PROVE  cl'[l] = c /\ \A k \in Lock : k # l => cl'[k] = cl[k]
BY DEF CInv, ClientTypeOK

\* Steps on a lock the client knows that keep mode and bits.
LEMMA KnownGoes ==
    ASSUME CInv, NEW l \in Lock, NEW d, cl' = [cl EXCEPT ![l] = d],
           Known(l), SameGrant(cl[l], d), d.st \in {"held", cl[l].st},
           cl[l].failed => d.failed
    PROVE  CliGoes(l)
<1>1. cl'[l] = d /\ \A k \in Lock : k # l => cl'[k] = cl[k]
  BY ClientChanged, Zenon
<1>2. cl[l].st \in {"enq", "held"} /\ d.granted = cl[l].granted /\ d.bits = cl[l].bits
  BY Zenon DEF Known, SameGrant
<1> QED
  BY <1>1, <1>2, Zenon DEF CliGoes, Ended, Held

\* Steps that change no lock.
LEMMA SameGoes ==
    ASSUME cl' = cl, NEW l \in Lock
    PROVE  CliGoes(l)
BY Zenon DEF CliGoes, Ended, Held

\* ldlm_cli_enqueue_fini and the interrupted wait.
LEMMA FiniGoes ==
    ASSUME CInv, NEW l \in Lock, NEW rc \in EnqRc, NEW a \in BOOLEAN,
           CliEnqueueFini(l, rc, a) \/ InterruptedCompletionWait(l)
    PROVE  CliGoes(l) /\ CliSends(l)
<1>1. cl[l] \in ClientLock /\ cl \in [Lock -> ClientLock]
  BY DEF CInv, ClientTypeOK
<1>2. CliSends(l)
  BY DEF CliEnqueueFini, InterruptedCompletionWait, CliSends
<1>3. LET d == FailedLockCleanup(cl[l]) IN
        SameGrant(cl[l], d) /\ d.st = "held" /\ (cl[l].failed => d.failed)
  BY <1>1, FailedLockCleanupFields, Zenon
<1>4. CASE InterruptedCompletionWait(l)
  <2>1. cl' = [cl EXCEPT ![l] = FailedLockCleanup(cl[l])] /\ Known(l)
    BY <1>4, Zenon DEF InterruptedCompletionWait, Known
  <2> QED
    BY <1>2, <1>3, <2>1, KnownGoes, Zenon
<1>5. CASE CliEnqueueFini(l, rc, a)
  <2>1. CASE cl[l].st # "enq"
    <3>1. cl' = cl
      BY <1>1, <1>5, <2>1 DEF CliEnqueueFini
    <3> QED
      BY <1>2, <3>1, SameGoes
  <2>2. CASE cl[l].st = "enq" /\ rc = "error"
    <3>1. cl' = [cl EXCEPT ![l] = FailedLockCleanup(cl[l])] /\ Known(l)
      BY <1>5, <2>2 DEF CliEnqueueFini, Known
    <3> QED
      BY <1>2, <1>3, <3>1, KnownGoes, Zenon
  <2>3. CASE cl[l].st = "enq" /\ rc # "error"
    <3> DEFINE p == cl[l].cbpending \/ a
               q == cl[l].blAst \/ a
               g == cl[l].granted \/ rc = "granted"
               d == [cl[l] EXCEPT !.st = "held", !.cbpending = p, !.blAst = q, !.granted = g]
    <3>1. cl' = [cl EXCEPT ![l] = d]
      BY <1>5, <2>3 DEF CliEnqueueFini
    <3> HIDE DEF p, q, g
    <3>2. d.st = "held" /\ d.granted = g /\ d.bits = cl[l].bits /\ d.failed = cl[l].failed
      BY <1>1, Zenon DEF ClientLock
    <3> HIDE DEF d
    <3>3. cl'[l] = d /\ \A k \in Lock : k # l => cl'[k] = cl[k]
      BY <3>1, ClientChanged, Zenon
    <3>4. rc = "granted" => Told(l)
      BY <1>5 DEF CliEnqueueFini, Told, EnqRep
    <3> QED
      BY <1>2, <2>3, <3>2, <3>3, <3>4, Zenon DEF CliGoes, Ended, Held, g
  <2> QED
    BY <2>1, <2>2, <2>3, Zenon
<1> QED
  BY <1>4, <1>5

\* Use of a cached lock, and the cancels the client starts itself.
LEMMA UseGoes ==
    ASSUME CInv, NEW l \in Lock,
           LockMatch(l) \/ LockDecref(l) \/ CancelLru(l) \/ CliCancelLocal(l)
    PROVE  CliGoes(l) /\ CliSends(l)
<1>1. cl[l] \in ClientLock /\ cl \in [Lock -> ClientLock]
  BY DEF CInv, ClientTypeOK
<1>2. CASE LockMatch(l)
  <2> DEFINE d == [cl[l] EXCEPT !.ref = TRUE]
  <2>1. cl' = [cl EXCEPT ![l] = d] /\ cl[l].st = "held" /\ Known(l)
    BY <1>1, <1>2 DEF LockMatch, Known
  <2>2. SameState(cl[l], d)
    BY <1>1 DEF SameState, SameGrant, ClientLock
  <2> HIDE DEF d
  <2>3. CliGoes(l)
    BY <2>1, <2>2, KnownGoes, Zenon DEF SameState
  <2> QED
    BY <1>2, <2>3 DEF LockMatch, CliSends
<1>3. CASE LockDecref(l)
  <2>1. cl' = [cl EXCEPT ![l] = DropLastRef(cl[l])] /\ Known(l)
    BY <1>3 DEF LockDecref, Known
  <2>2. SameState(cl[l], DropLastRef(cl[l]))
    BY <1>1, DropLastRefFields, Zenon
  <2>3. CliGoes(l)
    BY <2>1, <2>2, KnownGoes, Zenon DEF SameState
  <2> QED
    BY <1>3, <2>3, Zenon DEF LockDecref, CliSends
<1>4. CASE CancelLru(l)
  <2>1. cl' = [cl EXCEPT ![l] = StartCancel(cl[l], FALSE)] /\ Known(l)
    BY <1>4, Zenon DEF CancelLru, Known
  <2>2. SameState(cl[l], StartCancel(cl[l], FALSE))
    BY <1>1, StartCancelFields, Zenon
  <2>3. CliGoes(l)
    BY <2>1, <2>2, KnownGoes, Zenon DEF SameState
  <2> QED
    BY <1>4, <2>3, Zenon DEF CancelLru, CliSends
<1>5. CASE CliCancelLocal(l)
  <2> DEFINE d == [NewLock EXCEPT !.st = "gone"]
  <2>1. cl' = [cl EXCEPT ![l] = d]
    BY <1>5, Zenon DEF CliCancelLocal
  <2>2. d.st = "gone" /\ d.bits = {}
    BY DEF NewLock
  <2> HIDE DEF d
  <2>3. cl'[l] = d /\ \A k \in Lock : k # l => cl'[k] = cl[k]
    BY <2>1, ClientChanged, Zenon
  <2>4. CliGoes(l)
    BY <2>2, <2>3, Zenon DEF CliGoes, Ended, Held
  <2>5. CliSends(l)
    <3>1. \A m \in net' \ net : m = CancelReq(l)
      BY <1>5, Zenon DEF CliCancelLocal
    <3>2. clbug' = {} => clbug = {}
      BY <1>5, Zenon DEF CliCancelLocal, CAssert
    <3>3. CancelReq(l).lock = l /\ CancelReq(l).type = "cancel"
      BY DEF CancelReq
    <3> QED
      BY <2>2, <2>3, <3>1, <3>2, <3>3, Zenon DEF CliSends
  <2> QED
    BY <2>4, <2>5
<1> QED
  BY <1>2, <1>3, <1>4, <1>5

\* The callbacks of the server.
LEMMA RecvGoes ==
    ASSUME CInv, NEW l \in Lock, NEW b \in SUBSET Bit, NEW t \in Thread, NEW a \in BOOLEAN,
           RecvBlAst(l, b, t) \/ RecvCpAst(l, b, a, t)
    PROVE  CliGoes(l) /\ CliSends(l)
<1>1. cl[l] \in ClientLock /\ cl \in [Lock -> ClientLock]
  BY DEF CInv, ClientTypeOK
<1>2. cl[l].st \in {"none", "enq", "held", "gone"}
  BY <1>1, Zenon DEF ClientLock
<1>3. CASE RecvBlAst(l, b, t)
  <2>1. CliGoes(l)
    <3>1. CASE Stale(l)
      <4>1. cl' = cl
        BY <1>3, <3>1 DEF RecvBlAst
      <4> QED
        BY <4>1, SameGoes
    <3>2. CASE ~Stale(l)
      <4> DEFINE w == cl[l].work \cup {<<b, "queued">>}
                 d == [cl[l] EXCEPT !.blAst = TRUE, !.work = w]
      <4>1. cl' = [cl EXCEPT ![l] = d] /\ Known(l)
        BY <1>3, <3>2 DEF RecvBlAst, Stale
      <4> HIDE DEF w
      <4>2. d.st = cl[l].st /\ d.granted = cl[l].granted /\ d.bits = cl[l].bits
            /\ d.failed = cl[l].failed
        BY <1>1, Zenon DEF ClientLock
      <4> HIDE DEF d
      <4> QED
        BY <4>1, <4>2, KnownGoes, Zenon DEF SameGrant
    <3> QED
      BY <3>1, <3>2
  <2>2. CliSends(l)
    <3>1. \A m \in net' \ net : m = AstRep(l, IF Stale(l) THEN "einval" ELSE "ok", t)
      BY <1>3 DEF RecvBlAst
    <3>2. Stale(l) => Ended(l) \/ cl[l].st = "none"
      BY <1>2, Zenon DEF Stale, Known, Ended
    <3>3. \E n \in net : n.lock = l /\ n.type \in {"bl", "cp"}
      BY <1>3 DEF RecvBlAst, BlAst
    <3>4. clbug' = clbug
      BY <1>3 DEF RecvBlAst
    <3>5. \A m \in net' \ net : /\ m.lock = l /\ m.type = "astrep"
                                /\ m.rc = "einval" => Stale(l)
      BY <3>1 DEF AstRep
    <3> QED
      BY <3>2, <3>3, <3>4, <3>5, Zenon DEF CliSends
  <2> QED
    BY <2>1, <2>2
<1>4. CASE RecvCpAst(l, b, a, t)
  <2>0. \E m \in net : m.lock = l /\ m.type = "cp" /\ m.bits = b
    BY <1>4 DEF RecvCpAst, CpAst
  <2>1. CliGoes(l)
    <3>1. CASE ~Known(l) \/ cl[l].granted
      <4>1. cl' = cl
        BY <1>4, <3>1 DEF RecvCpAst
      <4> QED
        BY <4>1, SameGoes
    <3>2. CASE Known(l) /\ ~cl[l].granted
      <4> DEFINE p == cl[l].cbpending \/ a
                 q == cl[l].blAst \/ a
                 d == [cl[l] EXCEPT !.granted = TRUE, !.bits = b, !.cbpending = p, !.blAst = q]
      <4>1. cl' = [cl EXCEPT ![l] = d]
        BY <1>4, <3>2 DEF RecvCpAst
      <4> HIDE DEF p, q
      <4>2. /\ d.st = cl[l].st /\ d.granted = TRUE /\ d.bits = b /\ d.failed = cl[l].failed
        BY <1>1, Zenon DEF ClientLock
      <4> HIDE DEF d
      <4>3. cl'[l] = d /\ \A k \in Lock : k # l => cl'[k] = cl[k]
        BY <4>1, ClientChanged, Zenon
      <4>4. Told(l)
        BY <2>0, Zenon DEF Told
      <4> QED
        BY <2>0, <3>2, <4>2, <4>3, <4>4, Zenon DEF CliGoes, Ended, Held, Known
    <3> QED
      BY <3>1, <3>2, Zenon
  <2>2. CliSends(l)
    <3>1. \A m \in net' \ net : m = AstRep(l, IF Known(l) THEN "ok" ELSE "einval", t)
      BY <1>4 DEF RecvCpAst
    <3>2. ~Known(l) => Ended(l) \/ cl[l].st = "none"
      BY <1>2, Zenon DEF Known, Ended
    <3>3. clbug' = clbug
      BY <1>4 DEF RecvCpAst
    <3>4. \A m \in net' \ net : /\ m.lock = l /\ m.type = "astrep"
                                /\ m.rc = "einval" => ~Known(l)
      BY <3>1 DEF AstRep
    <3>5. \E n \in net : n.lock = l /\ n.type \in {"bl", "cp"}
      BY <2>0, Zenon
    <3> QED
      BY <3>2, <3>3, <3>4, <3>5, Zenon DEF CliSends
  <2> QED
    BY <2>1, <2>2
<1> QED
  BY <1>3, <1>4

\* The bl threads.
LEMMA BlThreadGoes ==
    ASSUME CInv, NEW l \in Lock, NEW b \in SUBSET Bit,
           HandleBlCallback(l, b) \/ MdBlockingAst(l, b) \/ CliCancel(l, b)
    PROVE  CliGoes(l) /\ CliSends(l)
<1>1. cl[l] \in ClientLock /\ cl \in [Lock -> ClientLock]
  BY DEF CInv, ClientTypeOK
<1>2. CliSends(l)
  BY Zenon DEF HandleBlCallback, MdBlockingAst, CliCancel, CliSends
<1>3. Known(l)
  BY Zenon DEF HandleBlCallback, MdBlockingAst, CliCancel
<1>4. ASSUME NEW w, NEW d, d = [cl[l] EXCEPT !.work = w]
      PROVE  SameState(cl[l], d)
  BY <1>1, <1>4, Zenon DEF ClientLock, SameState, SameGrant
<1>5. CASE HandleBlCallback(l, b)
  <2> DEFINE k == IF b # {} THEN b ELSE IF cl[l].cbpending THEN cl[l].cancelBits ELSE {}
             w == (cl[l].work \ {<<b, "queued">>})
                    \cup (IF cl[l].ref THEN {} ELSE {<<b, "ast">>})
             d == [cl[l] EXCEPT !.cancelBits = k, !.cbpending = TRUE, !.work = w]
  <2>1. cl' = [cl EXCEPT ![l] = d]
    BY <1>5 DEF HandleBlCallback
  <2> HIDE DEF k, w
  <2>2. d.st = cl[l].st /\ d.granted = cl[l].granted /\ d.bits = cl[l].bits
        /\ d.failed = cl[l].failed
    BY <1>1, Zenon DEF ClientLock
  <2> HIDE DEF d
  <2> QED
    BY <1>2, <1>3, <2>1, <2>2, KnownGoes, Zenon DEF SameGrant
<1>6. CASE MdBlockingAst(l, b)
  <2>1. PICK how : cl' = [cl EXCEPT ![l].work = (@ \ {<<b, "ast">>}) \cup {<<b, how>>}]
    BY <1>6, Zenon DEF MdBlockingAst
  <2> DEFINE w == (cl[l].work \ {<<b, "ast">>}) \cup {<<b, how>>}
             d == [cl[l] EXCEPT !.work = w]
  <2>2. cl' = [cl EXCEPT ![l] = d]
    BY <1>1, <2>1
  <2>3. SameState(cl[l], d)
    BY <1>4
  <2> HIDE DEF d
  <2> QED
    BY <1>2, <1>3, <2>2, <2>3, KnownGoes, Zenon DEF SameState
<1>7. CASE CliCancel(l, b)
  <2> DEFINE w == cl[l].work \ {<<b, "cancel">>}
             c == [cl[l] EXCEPT !.work = w]
  <2>1. cl' = [cl EXCEPT ![l] = StartCancel(c, FALSE)]
    BY <1>7 DEF CliCancel
  <2>2. SameState(cl[l], c)
    BY <1>4
  <2>3. c \in ClientLock
    <3>1. w \in SUBSET ((SUBSET Bit) \X Phase)
      BY <1>1, Zenon DEF ClientLock, Phase
    <3> HIDE DEF w
    <3> QED
      BY <1>1, <3>1 DEF ClientLock, Phase
  <2> HIDE DEF c
  <2>4. SameState(c, StartCancel(c, FALSE))
    BY <2>3, StartCancelFields, Zenon
  <2>5. SameState(cl[l], StartCancel(c, FALSE))
    BY <2>2, <2>4, Zenon DEF SameState, SameGrant
  <2> QED
    BY <1>2, <1>3, <2>1, <2>5, KnownGoes, Zenon DEF SameState
<1> QED
  BY <1>5, <1>6, <1>7

\* ldlm_cli_dropbits.
LEMMA DropGoes ==
    ASSUME CInv, NEW l \in Lock, NEW b \in SUBSET Bit, CliDropbits(l, b)
    PROVE  CliGoes(l) /\ CliSends(l)
<1> DEFINE w == cl[l].work \ {<<b, "convert">>}
           c == [cl[l] EXCEPT !.work = w]
           drop == c.bits \cap c.cancelBits
<1>1. cl[l] \in ClientLock /\ cl \in [Lock -> ClientLock]
  BY DEF CInv, ClientTypeOK
<1>2. c.st = cl[l].st /\ c.granted = cl[l].granted /\ c.bits = cl[l].bits
      /\ c.failed = cl[l].failed /\ c.work = w /\ c.cancelBits = cl[l].cancelBits
  BY <1>1, Zenon DEF ClientLock
<1>3. c \in ClientLock
  <2>1. w \in SUBSET ((SUBSET Bit) \X Phase)
    BY <1>1, Zenon DEF ClientLock, Phase
  <2> HIDE DEF w
  <2> QED
    BY <1>1, <2>1 DEF ClientLock, Phase
<1>4. /\ Known(l) /\ (clbug' = {} => clbug = {})
      /\ clbug' = {} /\ drop # {} => c.granted
  BY Zenon DEF CliDropbits
<1>5. \/ cl' = [cl EXCEPT ![l] = [c EXCEPT !.work = @ \cup {<<b, "cancel">>}]] /\ net' = net
      \/ cl' = [cl EXCEPT ![l] = c] /\ net' = net
      \/ /\ cl' = [cl EXCEPT ![l] = [c EXCEPT !.cbpending = FALSE, !.blAst = FALSE,
                     !.converting = TRUE, !.cancelBits = drop, !.bits = @ \ drop]]
         /\ net' = net \cup {ConvReq(l, c.bits \ drop)} /\ drop # {}
  BY Zenon DEF CliDropbits
<1> HIDE DEF c, drop
<1>6. CASE net' = net /\ (\/ cl' = [cl EXCEPT ![l] = [c EXCEPT !.work = @ \cup {<<b, "cancel">>}]]
                          \/ cl' = [cl EXCEPT ![l] = c])
  <2> DEFINE v == c.work \cup {<<b, "cancel">>}
             d == [c EXCEPT !.work = v]
  <2>1. cl' = [cl EXCEPT ![l] = d] \/ cl' = [cl EXCEPT ![l] = c]
    BY <1>6
  <2> HIDE DEF v
  <2>2. d.st = c.st /\ d.granted = c.granted /\ d.bits = c.bits /\ d.failed = c.failed
    BY <1>3, Zenon DEF ClientLock
  <2> HIDE DEF d
  <2>3. SameState(cl[l], c) /\ SameState(cl[l], d)
    BY <1>2, <2>2, Zenon DEF SameState, SameGrant
  <2>4. CliGoes(l)
    BY <1>4, <2>1, <2>3, KnownGoes DEF SameState
  <2> QED
    BY <1>4, <1>6, <2>4 DEF CliSends
<1>7. CASE /\ cl' = [cl EXCEPT ![l] = [c EXCEPT !.cbpending = FALSE, !.blAst = FALSE,
                     !.converting = TRUE, !.cancelBits = drop, !.bits = @ \ drop]]
           /\ net' = net \cup {ConvReq(l, c.bits \ drop)} /\ drop # {}
  <2> DEFINE left == c.bits \ drop
             d == [c EXCEPT !.cbpending = FALSE, !.blAst = FALSE, !.converting = TRUE,
                            !.cancelBits = drop, !.bits = left]
  <2>1. cl' = [cl EXCEPT ![l] = d] /\ net' = net \cup {ConvReq(l, left)}
    BY <1>7
  <2>2. left \subseteq c.bits
    OBVIOUS
  <2> HIDE DEF left
  <2>3. d.st = c.st /\ d.granted = c.granted /\ d.bits = left /\ d.failed = c.failed
    BY <1>3, Zenon DEF ClientLock
  <2> HIDE DEF d
  <2>4. cl'[l] = d /\ \A k \in Lock : k # l => cl'[k] = cl[k]
    BY <2>1, ClientChanged, Zenon
  <2>5. CliGoes(l)
    BY <1>2, <1>4, <2>2, <2>3, <2>4, Zenon DEF CliGoes, Ended, Held, Known
  <2>6. \A m \in net' \ net : m.lock = l /\ m.type = "convert" /\ m.bits = left
    BY <2>1 DEF ConvReq
  <2>7. CliSends(l)
    BY <1>2, <1>4, <1>7, <2>3, <2>4, <2>6, Zenon DEF CliSends
  <2> QED
    BY <2>5, <2>7
<1> QED
  BY <1>5, <1>6, <1>7

\* lock_convert_interpret.
LEMMA InterpretGoes ==
    ASSUME CInv, NEW l \in Lock, NEW rc \in ConvRc, NEW b \in SUBSET Bit,
           LockConvertInterpret(l, rc, b)
    PROVE  CliGoes(l) /\ CliSends(l)
<1>1. cl[l] \in ClientLock /\ cl \in [Lock -> ClientLock]
  BY DEF CInv, ClientTypeOK
<1>2. CliSends(l)
  BY Zenon DEF LockConvertInterpret, CliSends
<1>3. CASE ~Known(l)
  <2>1. cl' = cl
    BY <1>1, <1>3, Zenon DEF LockConvertInterpret
  <2> QED
    BY <1>2, <2>1, SameGoes
<1>4. CASE Known(l)
  <2>1. PICK d : cl' = [cl EXCEPT ![l] = d] /\ SameState(cl[l], d)
    <3>1. CASE rc = "ok"
      BY <1>1, <1>4, <3>1, ConvertFields, Zenon DEF LockConvertInterpret
    <3>2. CASE rc # "ok"
      BY <1>1, <1>4, <3>2, ConvertFields, Zenon DEF LockConvertInterpret
    <3> QED
      BY <3>1, <3>2, Zenon
  <2> QED
    BY <1>2, <1>4, <2>1, KnownGoes, Zenon DEF SameState
<1> QED
  BY <1>3, <1>4

\* Every step of a client but a new enqueue.
LEMMA ClientGoes ==
    ASSUME CInv, NEW l \in Lock, ClientStep(l)
    PROVE  CliEnqueue(l) \/ (CliGoes(l) /\ CliSends(l))
BY FiniGoes, UseGoes, RecvGoes, BlThreadGoes, DropGoes, InterpretGoes, Zenon DEF ClientStep, EnqRc

-----------------------------------------------------------------------------
(* EvictionInv and the steps of the clients.                               *)

\* What ptlrpc_invalidate_import does to the locks of the client.
LEMMA LearnEvictionChanges ==
    ASSUME CInv, NEW c \in Client, LearnEviction(c), NEW k \in Lock
    PROVE  /\ Owner[k] = c /\ Known(k) => cl'[k] = CleanupResource(cl[k])
           /\ ~(Owner[k] = c /\ Known(k)) => cl'[k] = cl[k]
           /\ c \in failed /\ net' = net /\ clbug' = clbug
BY Zenon DEF LearnEviction, InvalidateImport

-----------------------------------------------------------------------------
(* Eviction and callbacks.  What a step must show for each conjunct of     *)
(* EvictionInv to be kept.                                                 *)

\* No thread takes up a new enqueue or goes back to an earlier phase of one.
GoOn ==
    \A u \in Thread :
        /\ thr'[u].ctx = "enq" => thr[u].ctx = "enq" /\ thr'[u].lock = thr[u].lock
        /\ thr'[u].pc \in {"hash", "policy"} => thr[u].pc \in {"hash", "policy"}

\* No enqueue starts.
NoneStarts ==
    /\ GoOn
    /\ \A l \in Lock : /\ cl'[l].st = "none" => cl[l].st = "none"
                       /\ EnqReq(l) \in net' => EnqReq(l) \in net

\* An enqueue that is handled once goes on to be handled once, and what the
\* policy has seen stays seen.
LEMMA OnceKept ==
    ASSUME EnqueuedOnce, NoneStarts
    PROVE  EnqueuedOnce' /\ \A l \in Lock : Fresh(l)' => Fresh(l)
<1>1. \A u \in Thread, l \in Lock : Enqueues(u, l)' => Enqueues(u, l)
  BY Zenon DEF Enqueues, NoneStarts, GoOn
<1>2. EnqueuedOnce'
  <2>1. \A u, v \in Thread : \A l \in Lock : Enqueues(u, l)' /\ Enqueues(v, l)' => u = v
    BY <1>1, Zenon DEF EnqueuedOnce
  <2>2. \A l \in Lock : EnqReq(l) \in net' \/ cl'[l].st = "none" =>
                          \A u \in Thread : ~Enqueues(u, l)'
    BY <1>1, Zenon DEF EnqueuedOnce, NoneStarts
  <2>3. \A l \in Lock : cl'[l].st = "none" => EnqReq(l) \notin net'
    BY Zenon DEF EnqueuedOnce, NoneStarts
  <2> QED
    BY <2>1, <2>2, <2>3, Zenon DEF EnqueuedOnce, EnqReq
<1>3. ASSUME NEW l \in Lock, Fresh(l)' PROVE Fresh(l)
  <2>1. \A u \in Thread : Enqueues(u, l)' /\ thr'[u].pc \in {"hash", "policy"}
                            => Enqueues(u, l) /\ thr[u].pc \in {"hash", "policy"}
    BY <1>1, Zenon DEF NoneStarts, GoOn
  <2> QED
    BY <1>3, <2>1, Zenon DEF Fresh, NoneStarts, EnqReq
<1> QED
  BY <1>2, <1>3, Zenon

\* The effect of Moves on the enqueues.
LEMMA MovesGoOn ==
    ASSUME NEW t \in Thread, NEW pc, NEW bl, NEW cp, NEW out, NEW rescan, NEW rc,
           Moves(t, pc, bl, cp, out, rescan, rc),
           pc \in {"hash", "policy"} => thr[t].pc \in {"hash", "policy"}
    PROVE  GoOn
BY Zenon DEF Moves, GoOn

\* What a step must show for FreshUntouched.
NoneTouched ==
    /\ failed \subseteq failed'
    /\ \A l \in Lock : Fresh(l) /\ Fresh(l)' =>
         /\ l \notin granted' \cup waiting'
         /\ \A u \in Thread : /\ l \notin thr'[u].cp \cup thr'[u].out
                              /\ ~(thr'[u].ctx = "conv" /\ thr'[u].lock = l)
         /\ \A m \in net' \ net : m.lock = l =>
              m.type \notin {"enqrep", "bl", "cp"} /\ (Alive(l)' => m.type = "enq")
         /\ Alive(l)' =>
              /\ l \notin destroyed'
              /\ cl'[l].st \in {"none", "enq"}
              /\ cl'[l].work = {} /\ ~cl'[l].canceling

\* A lock the policy has not seen stays untouched.
LEMMA FreshKept ==
    ASSUME FreshUntouched, NoneTouched, \A l \in Lock : Fresh(l)' => Fresh(l)
    PROVE  FreshUntouched'
<1> SUFFICES ASSUME NEW l \in Lock, Fresh(l)'
             PROVE  /\ l \notin granted' \cup waiting'
                    /\ \A u \in Thread : /\ l \notin thr'[u].cp \cup thr'[u].out
                              /\ ~(thr'[u].ctx = "conv" /\ thr'[u].lock = l)
                    /\ \A m \in net' : m.lock = l =>
                         m.type \notin {"enqrep", "bl", "cp"} /\ (Alive(l)' => m.type = "enq")
                    /\ Alive(l)' =>
                         /\ l \notin destroyed'
                         /\ cl'[l].st \in {"none", "enq"}
                         /\ cl'[l].work = {} /\ ~cl'[l].canceling
  BY Zenon DEF FreshUntouched
<1>1. Fresh(l)
  OBVIOUS
<1>2. Alive(l)' => Alive(l)
  BY DEF NoneTouched, Alive
<1>3. ASSUME NEW m \in net', m.lock = l
      PROVE  m.type \notin {"enqrep", "bl", "cp"} /\ (Alive(l)' => m.type = "enq")
  <2>1. CASE m \in net
    BY <1>1, <1>2, <1>3, <2>1, Zenon DEF FreshUntouched
  <2>2. CASE m \notin net
    BY <1>1, <1>3, <2>2, Zenon DEF NoneTouched
  <2> QED
    BY <2>1, <2>2
<1> QED
  BY <1>1, <1>3, Zenon DEF NoneTouched

\* For a step of the server.
LEMMA ServerTouches ==
    ASSUME FreshUntouched, cl' = cl, failed \subseteq failed',
           \A k \in Lock : Fresh(k) /\ Fresh(k)' => k \notin granted' \cup waiting',
           \A u \in Thread, k \in Lock :
              Fresh(k) /\ k \in thr'[u].cp \cup thr'[u].out => k \in thr[u].cp \cup thr[u].out,
           \A u \in Thread : thr'[u].ctx = "conv" =>
              \/ thr[u].ctx = "conv" /\ thr'[u].lock = thr[u].lock
              \/ ~Fresh(thr'[u].lock),
           \A m \in net' \ net : ~Fresh(m.lock) \/ (m.type = "convrep" /\ ~Alive(m.lock)),
           \A k \in destroyed' \ destroyed : ~(Fresh(k) /\ Alive(k))
    PROVE  NoneTouched
<1> SUFFICES ASSUME NEW l \in Lock, Fresh(l), Fresh(l)'
             PROVE  /\ l \notin granted' \cup waiting'
                    /\ \A u \in Thread : /\ l \notin thr'[u].cp \cup thr'[u].out
                                         /\ ~(thr'[u].ctx = "conv" /\ thr'[u].lock = l)
                    /\ \A m \in net' \ net : m.lock = l =>
                         m.type \notin {"enqrep", "bl", "cp"} /\ (Alive(l)' => m.type = "enq")
                    /\ Alive(l)' =>
                         /\ l \notin destroyed'
                         /\ cl'[l].st \in {"none", "enq"}
                         /\ cl'[l].work = {} /\ ~cl'[l].canceling
  BY Zenon DEF NoneTouched
<1>1. Alive(l)' => Alive(l)
  BY Zenon DEF Alive
<1>2. \A u \in Thread : /\ l \notin thr'[u].cp \cup thr'[u].out
                        /\ ~(thr'[u].ctx = "conv" /\ thr'[u].lock = l)
  <2>1. \A u \in Thread : /\ l \notin thr[u].cp \cup thr[u].out
                          /\ ~(thr[u].ctx = "conv" /\ thr[u].lock = l)
    BY Zenon DEF FreshUntouched
  <2> QED
    BY <2>1
<1>3. \A m \in net' \ net : m.lock = l =>
        m.type \notin {"enqrep", "bl", "cp"} /\ (Alive(l)' => m.type = "enq")
  BY <1>1, Zenon
<1>4. Alive(l)' => /\ l \notin destroyed'
                   /\ cl'[l].st \in {"none", "enq"}
                   /\ cl'[l].work = {} /\ ~cl'[l].canceling
  BY <1>1, Zenon DEF FreshUntouched
<1> QED
  BY <1>2, <1>3, <1>4

\* What a step must show for LeftoversUnfinished, for each lock left on the
\* resource.
LeftAlone(l) ==
    /\ l \in granted \cup waiting
    /\ l \in destroyed' => l \in destroyed
    /\ Owner[l] \in reaped' => Owner[l] \in reaped
    /\ \A u \in Thread : Unfinished(u, l) => Unfinished(u, l)'

\* Locks left over stay in the hands of their enqueue.
LEMMA LeftoversKept ==
    ASSUME LeftoversUnfinished,
           \A l \in granted' \cup waiting' :
              \/ LeftAlone(l)
              \/ l \notin destroyed' /\ Owner[l] \notin reaped'
              \/ l \notin destroyed' /\ \E u \in Thread : Unfinished(u, l)'
    PROVE  LeftoversUnfinished'
<1> SUFFICES ASSUME NEW l \in granted' \cup waiting'
             PROVE  /\ l \notin destroyed'
                    /\ Owner[l] \in reaped' => \E t \in Thread : Unfinished(t, l)'
  BY Zenon DEF LeftoversUnfinished
<1>1. CASE LeftAlone(l)
  BY <1>1, Zenon DEF LeftAlone, LeftoversUnfinished
<1> QED
  BY <1>1, Zenon

\* What a step must show for TimerPending, for each granted lock.
TimerKept(l) ==
    \/ tmr'[l] # "off"
    \/ ~Alive(l)'
    \/ \E u \in Thread : l \in thr'[u].bl \cup thr'[u].cp \/ Unfinished(u, l)'
    \/ /\ l \in granted \cap astSent /\ tmr[l] = "off" /\ Alive(l)
       /\ \A u \in Thread : /\ l \in thr[u].bl \cup thr[u].cp => l \in thr'[u].bl \cup thr'[u].cp
                            /\ Unfinished(u, l) => Unfinished(u, l)'

\* A called-back lock keeps its timer, or the thread that will arm it.
LEMMA TimersKept ==
    ASSUME TimerPending, \A l \in granted' \cap astSent' : TimerKept(l)
    PROVE  TimerPending'
<1> SUFFICES ASSUME NEW l \in granted' \cap astSent', Alive(l)', tmr'[l] = "off"
             PROVE  \E t \in Thread : l \in thr'[t].bl \cup thr'[t].cp \/ Unfinished(t, l)'
  BY Zenon DEF TimerPending
<1> QED
  BY Zenon DEF TimerPending, TimerKept

-----------------------------------------------------------------------------
(* Most steps of the server only cancel locks, stop timers or go on.       *)

ThreadKept(u) ==
    /\ ThreadPhase(thr'[u])
    /\ thr'[u].bl = thr[u].bl /\ thr'[u].cp = thr[u].cp
    /\ thr'[u].out \subseteq thr[u].out
    /\ thr'[u].ctx = "conv" =>
         (thr[u].ctx = "conv" /\ thr'[u].lock = thr[u].lock) \/ ~Fresh(thr'[u].lock)
    /\ \A l \in Lock : Unfinished(u, l) => Unfinished(u, l)'

Plain ==
    /\ NoneStarts /\ cl' = cl
    /\ \A u \in Thread : ThreadKept(u)
    /\ granted' \subseteq granted /\ waiting' \subseteq waiting
    /\ \A l \in destroyed' \ destroyed :
         l \notin granted' \cup waiting' /\ ~(Fresh(l) /\ Alive(l))
    /\ \A m \in net' \ net : ~Fresh(m.lock) \/ (m.type = "convrep" /\ ~Alive(m.lock))
    /\ failed \subseteq failed' /\ reaped' = reaped /\ astSent' \subseteq astSent
    /\ \A l \in granted' \cap astSent' :
         tmr'[l] = tmr[l] \/ tmr'[l] # "off" \/ ~Alive(l)'

\* Plain steps keep the invariant.
LEMMA PlainKept ==
    ASSUME SInv, EvictionInv, Plain
    PROVE  EvictionInv'
<1>1. EnqueuedOnce /\ FreshUntouched /\ LeftoversUnfinished /\ TimerPending
  BY Zenon DEF EvictionInv
<1>2. EnqueuedOnce' /\ \A l \in Lock : Fresh(l)' => Fresh(l)
  BY <1>1, OnceKept, Zenon DEF Plain
<1>3. \A l \in Lock : Alive(l)' => Alive(l)
  BY DEF Plain, Alive
<1>4. NoneTouched
  <2>1. \A k \in Lock : Fresh(k) => k \notin granted' \cup waiting'
    BY <1>1, Zenon DEF FreshUntouched, Plain
  <2>2. /\ \A u \in Thread, k \in Lock :
             k \in thr'[u].cp \cup thr'[u].out => k \in thr[u].cp \cup thr[u].out
        /\ \A u \in Thread : thr'[u].ctx = "conv" =>
             (thr[u].ctx = "conv" /\ thr'[u].lock = thr[u].lock) \/ ~Fresh(thr'[u].lock)
    BY DEF Plain, ThreadKept
  <2> QED
    BY <1>1, <2>1, <2>2, ServerTouches DEF Plain
<1>5. FreshUntouched'
  BY <1>1, <1>2, <1>4, FreshKept
<1>6. granted \subseteq Lock /\ waiting \subseteq Lock
  BY DEF SInv, ServerTypeOK
<1>7. LeftoversUnfinished'
  <2>1. ASSUME NEW l \in granted' \cup waiting' PROVE LeftAlone(l)
    BY <1>6, <2>1, Zenon DEF LeftAlone, Plain, ThreadKept
  <2>2. failed \subseteq failed'
    BY Zenon DEF Plain
  <2> QED
    BY <1>1, <2>1, <2>2, LeftoversKept, Zenon
<1>8. TimerPending'
  <2>1. ASSUME NEW l \in granted' \cap astSent' PROVE TimerKept(l)
    <3>1. l \in granted \cap astSent /\ l \in Lock
      BY <1>6 DEF Plain
    <3>2. tmr'[l] = tmr[l] \/ tmr'[l] # "off" \/ ~Alive(l)'
      BY DEF Plain
    <3>3. \A u \in Thread : /\ l \in thr[u].bl \cup thr[u].cp => l \in thr'[u].bl \cup thr'[u].cp
                            /\ Unfinished(u, l) => Unfinished(u, l)'
      BY <3>1, Zenon DEF Plain, ThreadKept
    <3> QED
      BY <1>3, <3>1, <3>2, <3>3, Zenon DEF TimerKept
  <2> QED
    BY <1>1, <2>1, TimersKept, Zenon
<1>9. \A u \in Thread : ThreadPhase(thr'[u])
  BY Zenon DEF Plain, ThreadKept
<1> QED
  BY <1>2, <1>5, <1>7, <1>8, <1>9, Zenon DEF EvictionInv, ThreadPhase

\* An enqueue that goes on to pc does not go back to the policy, and does not
\* end.
Onward(t, pc) ==
    /\ pc \in {"hash", "policy"} => thr[t].pc \in {"hash", "policy"}
    /\ thr[t].pc \in {"hash", "policy", "bl", "blfin", "finish"} =>
         pc \in {"hash", "policy", "bl", "blfin", "finish"} \/ thr[t].rescan

\* A move that keeps the work lists and the enqueue unfinished.
LEMMA MovesPlain ==
    ASSUME SInv, EvictionInv, NEW t \in Thread, NEW pc, NEW out, NEW rc,
           Moves(t, pc, thr[t].bl, thr[t].cp, out, thr[t].rescan, rc),
           out \subseteq thr[t].out,
           Onward(t, pc),
           ThreadPhase(thr'[t])
    PROVE  /\ GoOn
           /\ \A u \in Thread : ThreadKept(u)
<1>1. GoOn
  BY MovesGoOn, Zenon DEF Onward
<1>2. ASSUME NEW u \in Thread
      PROVE  ThreadKept(u)
  <2>1. CASE u = t
    BY <2>1, Zenon DEF ThreadKept, Moves, Unfinished, Enqueues, Onward
  <2>2. CASE u # t
    <3>1. thr'[u] = thr[u]
      BY <2>2, Zenon DEF Moves
    <3>2. \A l \in Lock : Unfinished(u, l) => Unfinished(u, l)'
      BY <3>1, Zenon DEF Unfinished, Enqueues
    <3>3. ThreadPhase(thr'[u])
      BY <3>1, Zenon DEF EvictionInv
    <3> QED
      BY <3>1, <3>2, <3>3, Zenon DEF ThreadKept
  <2> QED
    BY <2>1, <2>2
<1> QED
  BY <1>1, <1>2, Zenon

\* A step that leaves the threads alone.
LEMMA ThreadsPlain ==
    ASSUME EvictionInv, thr' = thr
    PROVE  /\ GoOn
           /\ \A u \in Thread : ThreadKept(u)
<1>1. GoOn
  BY Zenon DEF GoOn
<1>2. \A u \in Thread, l \in Lock : Unfinished(u, l) => Unfinished(u, l)'
  BY Zenon DEF Unfinished, Enqueues
<1> QED
  BY <1>1, <1>2, Zenon DEF ThreadKept, EvictionInv

\* Steps that change no queue and send nothing.
LEMMA QuietPlain ==
    ASSUME SInv, EvictionInv, cl' = cl, net' \subseteq net,
           granted' = granted, waiting' = waiting, destroyed' = destroyed,
           failed' = failed, reaped' = reaped, astSent' \subseteq astSent,
           \A l \in granted' \cap astSent' : tmr'[l] = tmr[l] \/ tmr'[l] # "off",
           NEW t \in Thread, NEW pc, NEW out, NEW rc,
           Moves(t, pc, thr[t].bl, thr[t].cp, out, thr[t].rescan, rc),
           out \subseteq thr[t].out,
           Onward(t, pc),
           ThreadPhase(thr'[t])
    PROVE  EvictionInv'
<1>1. /\ GoOn
      /\ \A u \in Thread : ThreadKept(u)
  BY MovesPlain, Zenon
<1>2. NoneStarts
  BY <1>1, Zenon DEF NoneStarts
<1>3. Plain
  BY <1>1, <1>2, Zenon DEF Plain
<1> QED
  BY <1>3, PlainKept

\* The thread's phase allows these moves.
LEMMA PhaseOf ==
    ASSUME EvictionInv, NEW t \in Thread
    PROVE  ThreadPhase(thr[t])
BY Zenon DEF EvictionInv

\* A lock is cancelled: it leaves the resource and the timer.
LEMMA CancelPlain ==
    ASSUME SInv, EvictionInv, cl' = cl, net' \subseteq net, NEW c \in Lock,
           CancelLock(c), ~(Fresh(c) /\ Alive(c)),
           failed' = failed, reaped' = reaped, astSent' = astSent,
           NEW t \in Thread, NEW pc, NEW out, NEW rc,
           Moves(t, pc, thr[t].bl, thr[t].cp, out, thr[t].rescan, rc),
           out \subseteq thr[t].out,
           Onward(t, pc),
           ThreadPhase(thr'[t])
    PROVE  EvictionInv'
<1>1. /\ GoOn
      /\ \A u \in Thread : ThreadKept(u)
  BY MovesPlain, Zenon
<1>2. NoneStarts
  BY <1>1, Zenon DEF NoneStarts
<1>3. /\ granted' \subseteq granted /\ waiting' \subseteq waiting
      /\ \A l \in destroyed' \ destroyed : l = c /\ l \notin granted' \cup waiting'
      /\ \A l \in granted' : tmr'[l] = tmr[l]
  BY Zenon DEF CancelLock, SInv, ServerTypeOK
<1>4. Plain
  BY <1>1, <1>2, <1>3, Zenon DEF Plain
<1> QED
  BY <1>4, PlainKept, Zenon

-----------------------------------------------------------------------------
(* The steps that start and end an enqueue, queue locks and send ASTs.     *)

\* What the four conjuncts need from a step of thread t that is not Plain.
LEMMA StepKept ==
    ASSUME SInv, EvictionInv, cl' = cl, NoneStarts, NoneTouched,
           failed \subseteq failed',
           \A u \in Thread : ThreadPhase(thr'[u]),
           \A l \in granted' \cup waiting' :
              LeftAlone(l) \/ (l \notin destroyed' /\ Owner[l] \notin reaped'),
           \A l \in granted' \cap astSent' : TimerKept(l)
    PROVE  EvictionInv'
<1>1. EnqueuedOnce /\ FreshUntouched /\ LeftoversUnfinished /\ TimerPending
  BY Zenon DEF EvictionInv
<1>2. EnqueuedOnce' /\ \A l \in Lock : Fresh(l)' => Fresh(l)
  BY <1>1, OnceKept, Zenon
<1>3. FreshUntouched'
  BY <1>1, <1>2, FreshKept, Zenon
<1>4. LeftoversUnfinished'
  BY <1>1, LeftoversKept, Zenon
<1>5. TimerPending'
  BY <1>1, TimersKept, Zenon
<1> QED
  BY <1>2, <1>3, <1>4, <1>5, Zenon DEF EvictionInv, ThreadPhase

\* The enqueue a thread has taken past the policy is not fresh.
LEMMA SeenNotFresh ==
    ASSUME EvictionInv, NEW t \in Thread, NEW l \in Lock, Enqueues(t, l),
           thr[t].pc \notin {"hash", "policy"}
    PROVE  ~Fresh(l)
<1>1. cl[l].st # "none" /\ EnqReq(l) \notin net /\ \A u \in Thread : Enqueues(u, l) => u = t
  BY Zenon DEF EvictionInv, EnqueuedOnce
<1> QED
  BY <1>1, Zenon DEF Fresh

-----------------------------------------------------------------------------
(* EvictionInv and the steps of the clients.                               *)

\* The server's half of the invariant does not depend on the clients.
LEMMA ClientStepKept ==
    ASSUME SInv, EvictionInv, UNCHANGED svars, EnqueuedOnce',
           \A k \in Lock : Fresh(k)' => Fresh(k), NoneTouched
    PROVE  EvictionInv'
<1>1. EnqueuedOnce /\ FreshUntouched /\ LeftoversUnfinished /\ TimerPending
  BY Zenon DEF EvictionInv
<1>2. /\ granted' = granted /\ waiting' = waiting /\ destroyed' = destroyed /\ tmr' = tmr
      /\ failed' = failed /\ reaped' = reaped /\ astSent' = astSent /\ thr' = thr
  BY DEF svars, queues, exports, astState
<1>3. FreshUntouched'
  BY <1>1, FreshKept
<1>4. \A u \in Thread, k \in Lock : Unfinished(u, k)' <=> Unfinished(u, k)
  BY <1>2, Zenon DEF Unfinished, Enqueues
<1>5. \A k \in Lock : Alive(k)' <=> Alive(k)
  BY <1>2, Zenon DEF Alive
<1>6. granted \subseteq Lock /\ waiting \subseteq Lock
  BY DEF SInv, ServerTypeOK
<1>7. LeftoversUnfinished'
  <2>1. \A k \in granted \cup waiting : LeftAlone(k)
    BY <1>2, <1>4, <1>6 DEF LeftAlone
  <2> QED
    BY <1>1, <1>2, <2>1, LeftoversKept
<1>8. TimerPending'
  <2>1. \A k \in granted \cap astSent : TimerKept(k)
    BY <1>2, <1>4, <1>5, <1>6, Zenon DEF TimerKept
  <2> QED
    BY <1>1, <1>2, <2>1, TimersKept
<1>9. \A u \in Thread : ThreadPhase(thr'[u])
  BY <1>2, Zenon DEF EvictionInv
<1> QED
  BY <1>3, <1>7, <1>8, <1>9, Zenon DEF EvictionInv, ThreadPhase

\* A client that is not evicted has nothing to do with a lock the policy has
\* not seen but to ask for it.
LEMMA FreshIdle ==
    ASSUME FreshUntouched, NEW l \in Lock, Fresh(l), Alive(l), ClientStep(l)
    PROVE  CliEnqueue(l)
<1>1. /\ \A m \in net : m.lock = l => m.type = "enq"
      /\ cl[l].st \in {"none", "enq"} /\ cl[l].work = {} /\ ~cl[l].canceling
  BY Zenon DEF FreshUntouched
<1>2. ~(InterruptedCompletionWait(l) \/ LockMatch(l) \/ LockDecref(l)
        \/ CancelLru(l) \/ CliCancelLocal(l))
  BY <1>1, Zenon DEF InterruptedCompletionWait, LockMatch, LockDecref, CancelLru, CliCancelLocal
<1>3. ASSUME NEW rc \in EnqRc, NEW a \in BOOLEAN PROVE ~CliEnqueueFini(l, rc, a)
  BY <1>1 DEF CliEnqueueFini, EnqRep
<1>4. ASSUME NEW b \in SUBSET Bit
      PROVE  ~(HandleBlCallback(l, b) \/ MdBlockingAst(l, b)
               \/ CliCancel(l, b) \/ CliDropbits(l, b))
  BY <1>1 DEF HandleBlCallback, MdBlockingAst, CliCancel, CliDropbits
<1>5. ASSUME NEW b \in SUBSET Bit, NEW rc \in ConvRc PROVE ~LockConvertInterpret(l, rc, b)
  BY <1>1, Zenon DEF LockConvertInterpret, ConvRep
<1>6. ASSUME NEW b \in SUBSET Bit, NEW t \in Thread, NEW a \in BOOLEAN
      PROVE  ~(RecvBlAst(l, b, t) \/ RecvCpAst(l, b, a, t))
  BY <1>1 DEF RecvBlAst, RecvCpAst, BlAst, CpAst
<1> QED
  BY <1>2, <1>3, <1>4, <1>5, <1>6, Zenon DEF ClientStep

\* ldlm_cli_enqueue sends the one enqueue of the lock.
LEMMA CliEnqueueEviction ==
    ASSUME SInv, CInv, EvictionInv, UNCHANGED svars, NEW l \in Lock, CliEnqueue(l)
    PROVE  EvictionInv'
<1>1. EnqueuedOnce /\ FreshUntouched
  BY Zenon DEF EvictionInv
<1>2. /\ granted' = granted /\ waiting' = waiting /\ destroyed' = destroyed
      /\ failed' = failed /\ thr' = thr
      /\ cl[l].st = "none" /\ net' = net \cup {EnqReq(l)}
  BY DEF svars, queues, exports, CliEnqueue
<1>3. /\ cl'[l].st = "enq" /\ cl'[l].work = {} /\ ~cl'[l].canceling
      /\ \A k \in Lock : k # l => cl'[k] = cl[k]
  <2> DEFINE b == ReqBits[l]
             d == [NewLock EXCEPT !.st = "enq", !.ref = TRUE, !.bits = b]
  <2>1. cl' = [cl EXCEPT ![l] = d]
    BY DEF CliEnqueue
  <2>2. d.st = "enq" /\ d.work = {} /\ d.canceling = FALSE
    BY Zenon DEF NewLock
  <2> HIDE DEF d
  <2> QED
    BY <2>1, <2>2, ClientChanged, Zenon
<1>4. \A u \in Thread, k \in Lock : Enqueues(u, k)' <=> Enqueues(u, k)
  BY <1>2, Zenon DEF Enqueues
<1>5. \A k \in Lock : k # l => (EnqReq(k) \in net' <=> EnqReq(k) \in net)
  BY <1>2, Zenon DEF EnqReq
<1>6. EnqueuedOnce'
  <2>1. \A u, v \in Thread : \A k \in Lock : Enqueues(u, k)' /\ Enqueues(v, k)' => u = v
    BY <1>1, <1>4, Zenon DEF EnqueuedOnce
  <2>2. ASSUME NEW k \in Lock, EnqReq(k) \in net' \/ cl'[k].st = "none"
        PROVE  \A u \in Thread : ~Enqueues(u, k)'
    <3>1. EnqReq(k) \in net \/ cl[k].st = "none"
      BY <1>2, <1>3, <1>5, <2>2, Zenon
    <3> QED
      BY <1>1, <1>4, <3>1, Zenon DEF EnqueuedOnce
  <2>3. ASSUME NEW k \in Lock, cl'[k].st = "none" PROVE EnqReq(k) \notin net'
    <3>1. k # l /\ cl[k].st = "none"
      BY <1>3, <2>3, Zenon
    <3> QED
      BY <1>1, <1>5, <3>1, Zenon DEF EnqueuedOnce
  <2> QED
    BY <2>1, <2>2, <2>3, Zenon DEF EnqueuedOnce, EnqReq
<1>7. ASSUME NEW k \in Lock, Fresh(k)' PROVE Fresh(k)
  <2>1. CASE k = l
    BY <1>2, <2>1, Zenon DEF Fresh
  <2>2. CASE k # l
    <3>1. cl'[k].st = cl[k].st /\ (EnqReq(k) \in net' => EnqReq(k) \in net)
      BY <1>3, <1>5, <2>2, Zenon
    <3>2. \A u \in Thread : thr'[u] = thr[u]
      BY <1>2, Zenon
    <3> QED
      BY <1>7, <3>1, <3>2, Zenon DEF Fresh, Enqueues, EnqReq
  <2> QED
    BY <2>1, <2>2
<1>8. NoneTouched
  <2>1. ASSUME NEW k \in Lock, Fresh(k)
        PROVE  /\ k \notin granted' \cup waiting'
               /\ \A u \in Thread : /\ k \notin thr'[u].cp \cup thr'[u].out
                                    /\ ~(thr'[u].ctx = "conv" /\ thr'[u].lock = k)
               /\ \A m \in net' \ net : m.lock = k =>
                    m.type \notin {"enqrep", "bl", "cp"} /\ (Alive(k)' => m.type = "enq")
               /\ Alive(k)' => /\ k \notin destroyed'
                               /\ cl'[k].st \in {"none", "enq"}
                               /\ cl'[k].work = {} /\ ~cl'[k].canceling
    <3>1. Alive(k)' => Alive(k)
      BY <1>2, Zenon DEF Alive
    <3>2. \A m \in net' \ net : m.type = "enq"
      BY <1>2 DEF EnqReq
    <3>3. CASE k = l
      BY <1>1, <1>2, <1>3, <2>1, <3>1, <3>2, <3>3, Zenon DEF FreshUntouched
    <3>4. CASE k # l
      BY <1>1, <1>2, <1>3, <2>1, <3>1, <3>2, <3>4, Zenon DEF FreshUntouched
    <3> QED
      BY <3>3, <3>4, Zenon
  <2> QED
    BY <1>2, <2>1, Zenon DEF NoneTouched
<1> QED
  BY <1>6, <1>7, <1>8, ClientStepKept, Zenon

\* The other steps of a client touch no lock the policy has not seen.
LEMMA ClientEviction ==
    ASSUME SInv, CInv, EvictionInv, UNCHANGED svars, NEW l \in Lock, ClientStep(l)
    PROVE  EvictionInv'
<1>1. CASE CliEnqueue(l)
  BY <1>1, CliEnqueueEviction
<1>2. CASE ~CliEnqueue(l)
  <2>1. EnqueuedOnce /\ FreshUntouched
    BY Zenon DEF EvictionInv
  <2>2. CliGoes(l) /\ CliSends(l)
    BY <1>2, ClientGoes
  <2>3. ~(Fresh(l) /\ Alive(l))
    BY <1>2, <2>1, FreshIdle
  <2>4. /\ granted' = granted /\ waiting' = waiting /\ destroyed' = destroyed
        /\ failed' = failed /\ thr' = thr
    BY Zenon DEF svars, queues, exports
  <2>5. \A k \in Lock : cl'[k].st = "none" => cl[k].st = "none"
    BY <2>2, Zenon DEF CliGoes
  <2>6. \A m \in net' \ net : m.lock = l /\ m.type \in {"cancel", "convert", "astrep"}
    BY <2>2, Zenon DEF CliSends
  <2>7. NoneStarts
    <3>1. GoOn
      BY <2>4, Zenon DEF GoOn
    <3>2. \A k \in Lock : EnqReq(k) \in net' => EnqReq(k) \in net
      BY <2>6 DEF EnqReq
    <3> QED
      BY <2>5, <3>1, <3>2, Zenon DEF NoneStarts
  <2>8. EnqueuedOnce' /\ \A k \in Lock : Fresh(k)' => Fresh(k)
    BY <2>1, <2>7, OnceKept
  <2>9. NoneTouched
    <3>1. ASSUME NEW k \in Lock, Fresh(k)
          PROVE  /\ k \notin granted' \cup waiting'
                 /\ \A u \in Thread : /\ k \notin thr'[u].cp \cup thr'[u].out
                                      /\ ~(thr'[u].ctx = "conv" /\ thr'[u].lock = k)
                 /\ \A m \in net' \ net : m.lock = k =>
                      m.type \notin {"enqrep", "bl", "cp"} /\ (Alive(k)' => m.type = "enq")
                 /\ Alive(k)' => /\ k \notin destroyed'
                                 /\ cl'[k].st \in {"none", "enq"}
                                 /\ cl'[k].work = {} /\ ~cl'[k].canceling
      <4>1. Alive(k)' => Alive(k)
        BY <2>4, Zenon DEF Alive
      <4>2. Alive(k) => k # l
        BY <2>3, <3>1
      <4>3. k # l => cl'[k] = cl[k]
        BY <2>2, Zenon DEF CliGoes
      <4>4. /\ k \notin granted' \cup waiting'
            /\ \A u \in Thread : /\ k \notin thr'[u].cp \cup thr'[u].out
                                 /\ ~(thr'[u].ctx = "conv" /\ thr'[u].lock = k)
        BY <2>1, <2>4, <3>1, Zenon DEF FreshUntouched
      <4>5. \A m \in net' \ net : m.lock = k =>
              m.type \notin {"enqrep", "bl", "cp"} /\ (Alive(k)' => m.type = "enq")
        <5>1. \A m \in net' \ net : m.lock = l /\ m.type \notin {"enqrep", "bl", "cp"}
          BY <2>6
        <5> QED
          BY <4>1, <4>2, <5>1, Zenon
      <4>6. Alive(k)' => /\ k \notin destroyed'
                         /\ cl'[k].st \in {"none", "enq"}
                         /\ cl'[k].work = {} /\ ~cl'[k].canceling
        <5>1. Alive(k) => /\ k \notin destroyed
                          /\ cl[k].st \in {"none", "enq"}
                          /\ cl[k].work = {} /\ ~cl[k].canceling
          BY <2>1, <3>1, Zenon DEF FreshUntouched
        <5> QED
          BY <2>4, <4>1, <4>2, <4>3, <5>1, Zenon
      <4> QED
        BY <4>4, <4>5, <4>6, Zenon
    <3> QED
      BY <2>4, <3>1, Zenon DEF NoneTouched
  <2> QED
    BY <2>8, <2>9, ClientStepKept
<1> QED
  BY <1>1, <1>2, Zenon

\* The eviction a client learns of is one the server knows of.
LEMMA LearnEvictionEviction ==
    ASSUME SInv, CInv, EvictionInv, NEW c \in Client, LearnEviction(c)
    PROVE  EvictionInv'
<1>1. EnqueuedOnce /\ FreshUntouched
  BY Zenon DEF EvictionInv
<1>2. c \in failed /\ net' = net /\ UNCHANGED svars
  BY Zenon DEF LearnEviction, InvalidateImport
<1>3. /\ granted' = granted /\ waiting' = waiting /\ destroyed' = destroyed
      /\ failed' = failed /\ thr' = thr
  BY <1>2, Zenon DEF svars, queues, exports
<1>4. ASSUME NEW k \in Lock
      PROVE  /\ cl'[k].st = "none" => cl[k].st = "none"
             /\ Alive(k)' => Alive(k) /\ cl'[k] = cl[k]
  <2>1. CASE Owner[k] = c /\ Known(k)
    <3>1. cl'[k] = CleanupResource(cl[k]) /\ cl[k] \in ClientLock
      BY <2>1, LearnEvictionChanges, Zenon DEF CInv, ClientTypeOK
    <3>2. cl'[k].st = "held"
      BY <3>1, CleanupResourceFields, Zenon
    <3> QED
      BY <1>2, <1>3, <2>1, <3>2, Zenon DEF Alive
  <2>2. CASE ~(Owner[k] = c /\ Known(k))
    <3>1. cl'[k] = cl[k]
      BY <2>2, LearnEvictionChanges, Zenon
    <3> QED
      BY <1>3, <3>1 DEF Alive
  <2> QED
    BY <2>1, <2>2, Zenon
<1>5. NoneStarts
  <2>1. GoOn
    BY <1>3, Zenon DEF GoOn
  <2> QED
    BY <1>2, <1>4, <2>1, Zenon DEF NoneStarts
<1>6. EnqueuedOnce' /\ \A k \in Lock : Fresh(k)' => Fresh(k)
  BY <1>1, <1>5, OnceKept
<1>7. NoneTouched
  <2>1. ASSUME NEW k \in Lock, Fresh(k)
        PROVE  /\ k \notin granted' \cup waiting'
               /\ \A u \in Thread : /\ k \notin thr'[u].cp \cup thr'[u].out
                                    /\ ~(thr'[u].ctx = "conv" /\ thr'[u].lock = k)
               /\ Alive(k)' => /\ k \notin destroyed'
                               /\ cl'[k].st \in {"none", "enq"}
                               /\ cl'[k].work = {} /\ ~cl'[k].canceling
    BY <1>1, <1>3, <1>4, <2>1, ZenonT(40) DEF FreshUntouched
  <2> QED
    BY <1>2, <1>3, <2>1, Zenon DEF NoneTouched
<1> QED
  BY <1>2, <1>6, <1>7, ClientStepKept, Zenon

\* Every step of the server keeps EvictionInv.
LEMMA ServerEviction ==
    ASSUME SInv, EvictionInv, cl' = cl, ServerNext
    PROVE  EvictionInv'
\* The lock enters the lock hash of the export.
<1>1. ASSUME NEW t \in Thread, ExportAddLock(t)
      PROVE  EvictionInv'
  <2> USE <1>1
  <2>0. thr[t].pc = "hash"
    BY DEF ExportAddLock
  <2>1. Moves(t, "policy", thr[t].bl, thr[t].cp, thr[t].out, thr[t].rescan, thr[t].rc)
    BY ExportAddLockMoves, Zenon
  <2>2. ThreadPhase(thr'[t])
    BY <2>1, PhaseOf, Zenon DEF ThreadPhase, Moves, ExportAddLock
  <2>9. /\ net' \subseteq net /\ granted' = granted /\ waiting' = waiting
        /\ destroyed' = destroyed /\ failed' = failed /\ reaped' = reaped
        /\ astSent' \subseteq astSent /\ tmr' = tmr
    BY Zenon DEF ExportAddLock, queues, astState, exports
  <2>8. Onward(t, "policy")
    BY <2>0, <2>1, <2>2, <2>9 DEF Onward
  <2>10. \A l \in granted' \cap astSent' : tmr'[l] = tmr[l] \/ tmr'[l] # "off"
    BY <2>0, <2>1, <2>2, <2>9
  <2> QED
    BY <2>0, <2>1, <2>2, <2>8, <2>9, <2>10, QuietPlain, Zenon
\* The enqueue is to finish.
<1>2. ASSUME NEW t \in Thread, EnqueueBlDone(t), NEW rc,
             Become(t, [thr[t] EXCEPT !.pc = "finish", !.rc = rc]),
             UNCHANGED <<granted, waiting, astSent>>
      PROVE  EvictionInv'
  <2> USE <1>2
  <2>1. Moves(t, "finish", thr[t].bl, thr[t].cp, thr[t].out, thr[t].rescan, rc)
    BY FinishMoves, Zenon
  <2>2. ThreadPhase(thr'[t])
    BY <2>1, PhaseOf, Zenon DEF ThreadPhase, Moves, EnqueueBlDone, AstWorkDone
  <2>9. /\ net' \subseteq net /\ granted' = granted /\ waiting' = waiting
        /\ destroyed' = destroyed /\ failed' = failed /\ reaped' = reaped
        /\ astSent' \subseteq astSent /\ tmr' = tmr
    BY Zenon DEF EnqueueBlDone, exports
  <2>8. Onward(t, "finish")
    BY <2>1, <2>2, <2>9 DEF Onward
  <2>10. \A l \in granted' \cap astSent' : tmr'[l] = tmr[l] \/ tmr'[l] # "off"
    BY <2>1, <2>2, <2>9
  <2> QED
    BY <2>1, <2>2, <2>8, <2>9, <2>10, QuietPlain, Zenon
\* l_blocking_lock is dropped.
<1>3. ASSUME NEW t \in Thread, BlAstFini(t)
      PROVE  EvictionInv'
  <2> USE <1>3
  <2>1. Moves(t, "bl", thr[t].bl, thr[t].cp, thr[t].out, thr[t].rescan, thr[t].rc)
    BY BlAstFiniMoves
  <2>2. ThreadPhase(thr'[t])
    BY <2>1, PhaseOf, Zenon DEF ThreadPhase, Moves, BlAstFini
  <2>9. /\ net' \subseteq net /\ granted' = granted /\ waiting' = waiting
        /\ destroyed' = destroyed /\ failed' = failed /\ reaped' = reaped
        /\ astSent' \subseteq astSent /\ tmr' = tmr
    BY DEF BlAstFini, queues, exports
  <2>8. Onward(t, "bl")
    BY <2>1, <2>2, <2>9 DEF Onward
  <2>10. \A l \in granted' \cap astSent' : tmr'[l] = tmr[l] \/ tmr'[l] # "off"
    BY <2>1, <2>2, <2>9
  <2> QED
    BY <2>1, <2>2, <2>8, <2>9, <2>10, QuietPlain, Zenon
\* An AST times out: the lock is put on the list of failed locks.
<1>4. ASSUME NEW t \in Thread, NEW c \in Lock, AstTimeout(t, c)
      PROVE  EvictionInv'
  <2> USE <1>4
  <2>1. Moves(t, thr[t].pc, thr[t].bl, thr[t].cp, thr[t].out \ {c}, thr[t].rescan, thr[t].rc)
    BY AnsweredMoves, Zenon DEF AstTimeout
  <2>2. ThreadPhase(thr'[t])
    BY <2>1, PhaseOf, Zenon DEF ThreadPhase, Moves
  <2>3. \A l \in granted' \cap astSent' : tmr'[l] = tmr[l] \/ tmr'[l] # "off"
    BY DEF AstTimeout, SInv, ServerTypeOK
  <2>9. /\ net' \subseteq net /\ granted' = granted /\ waiting' = waiting
        /\ destroyed' = destroyed /\ failed' = failed /\ reaped' = reaped
        /\ astSent' \subseteq astSent
    BY DEF AstTimeout, queues, exports, astState
  <2>8. Onward(t, thr[t].pc)
    BY DEF Onward
  <2> QED
    BY <2>1, <2>2, <2>3, <2>8, <2>9, QuietPlain, Zenon
\* The blocking ASTs of a scan are answered.
<1>5. ASSUME NEW t \in Thread, ReprocessBlDone(t)
      PROVE  EvictionInv'
  <2> USE <1>5
  <2>0. thr[t].pc = "bl" /\ thr[t].rescan
    BY DEF ReprocessBlDone, AstWorkDone
  <2>1. PICK pc : pc \in {"reproc", "cp"} /\
          Moves(t, pc, thr[t].bl, thr[t].cp, thr[t].out, thr[t].rescan, thr[t].rc)
    BY ScanBlDoneMoves, Zenon DEF ReprocessBlDone
  <2>2. ThreadPhase(thr'[t])
    BY <2>1, PhaseOf, Zenon DEF ThreadPhase, Moves, ReprocessBlDone, AstWorkDone
  <2>9. /\ net' \subseteq net /\ granted' = granted /\ waiting' = waiting
        /\ destroyed' = destroyed /\ failed' = failed /\ reaped' = reaped
        /\ astSent' \subseteq astSent /\ tmr' = tmr
    BY Zenon DEF ReprocessBlDone, queues, exports, astState
  <2>8. Onward(t, pc)
    BY <2>0, <2>1 DEF Onward
  <2>10. \A l \in granted' \cap astSent' : tmr'[l] = tmr[l] \/ tmr'[l] # "off"
    BY <2>9
  <2> QED
    BY <2>1, <2>2, <2>8, <2>9, <2>10, QuietPlain, Zenon
\* The locked part of a convert.
<1>6. ASSUME NEW t \in Thread, ConvertLocked(t)
      PROVE  EvictionInv'
  <2> USE <1>6
  <2>0. thr[t].pc = "conv"
    BY Zenon DEF ConvertLocked
  <2>1. Moves(t, "reproc", thr[t].bl, thr[t].cp, thr[t].out, thr[t].rescan, thr[t].rc)
    BY GotoMoves, Zenon DEF ConvertLocked
  <2>2. ThreadPhase(thr'[t])
    BY <2>1, PhaseOf, Zenon DEF ThreadPhase, Moves, ConvertLocked
  <2>3. \A l \in granted' \cap astSent' : tmr'[l] = tmr[l] \/ tmr'[l] # "off"
    BY Zenon DEF ConvertLocked, ForgetCallback, SInv, ServerTypeOK
  <2>9. /\ net' \subseteq net /\ granted' = granted /\ waiting' = waiting
        /\ destroyed' = destroyed /\ failed' = failed /\ reaped' = reaped
        /\ astSent' \subseteq astSent
    BY Zenon DEF ConvertLocked, ForgetCallback, exports
  <2>8. Onward(t, "reproc")
    BY <2>0, <2>1, <2>2, <2>3, <2>9 DEF Onward
  <2> QED
    BY <2>0, <2>1, <2>2, <2>3, <2>8, <2>9, QuietPlain, Zenon
\* ldlm_cb_interpret: a lock the client does not have is cancelled; it is
\* not fresh, for it was called back.
<1>7. ASSUME NEW t \in Thread, NEW c \in Lock, NEW rc,
             AstReply(t, c, rc)
      PROVE  EvictionInv'
  <2> USE <1>7
  <2>1. Moves(t, thr[t].pc, thr[t].bl, thr[t].cp, thr[t].out \ {c}, thr[t].rescan, thr[t].rc)
    BY AnsweredMoves, Zenon DEF AstReply
  <2>2. ThreadPhase(thr'[t])
    BY <2>1, PhaseOf, Zenon DEF ThreadPhase, Moves
  <2>3. /\ net' \subseteq net /\ failed' = failed /\ reaped' = reaped /\ astSent' = astSent
    BY DEF AstReply, exports, astState
  <2>4. CASE rc = "einval" /\ c \in thr[t].out
    <3>1. CancelLock(c)
      BY <2>4 DEF AstReply
    <3>2. ~Fresh(c)
      BY <2>4, Zenon DEF EvictionInv, FreshUntouched
    <3>8. Onward(t, thr[t].pc)
      BY DEF Onward
    <3> QED
      BY <2>1, <2>2, <2>3, <3>1, <3>2, <3>8, CancelPlain, Zenon
  <2>5. CASE ~(rc = "einval" /\ c \in thr[t].out)
    <3>1. UNCHANGED <<granted, waiting, destroyed, tmr>>
      BY <2>5 DEF AstReply
    <3>8. Onward(t, thr[t].pc)
      BY DEF Onward
    <3> QED
      BY <2>1, <2>2, <2>3, <3>1, <3>8, QuietPlain, Zenon
  <2> QED
    BY <2>4, <2>5
\* ldlm_handle_cancel: the CANCEL RPC of a client that is not evicted is about
\* a lock the policy has seen.
<1>8. ASSUME NEW t \in Thread, NEW l \in Lock, HandleCancel(t, l)
      PROVE  EvictionInv'
  <2> USE <1>8
  <2>1. /\ net' \subseteq net /\ failed' = failed /\ reaped' = reaped /\ astSent' = astSent
        /\ CancelReq(l) \in net /\ thr[t].pc = "idle"
    BY SMTT(20), IdleFields DEF HandleCancel, exports, astState
  <2>2. CASE CancelLock(l) /\ Goto(t, "reproc") /\ Owner[l] \notin failed
    <3>1. Moves(t, "reproc", thr[t].bl, thr[t].cp, thr[t].out, thr[t].rescan, thr[t].rc)
      BY <2>2, GotoMoves, Zenon
    <3>2. ThreadPhase(thr'[t])
      BY <2>1, <3>1, PhaseOf, Zenon DEF ThreadPhase, Moves
    <3>3. ~Fresh(l)
      <4>1. CancelReq(l).lock = l /\ CancelReq(l).type = "cancel"
        BY DEF CancelReq
      <4> QED
        BY <2>1, <2>2, <4>1, Zenon DEF EvictionInv, FreshUntouched, Alive
    <3>8. Onward(t, "reproc")
      BY <2>1, <2>2, <3>1, <3>2, <3>3 DEF Onward
    <3> QED
      BY <2>1, <2>2, <3>1, <3>2, <3>3, <3>8, CancelPlain, Zenon
  <2>3. CASE UNCHANGED <<granted, waiting, destroyed, tmr, thr>>
    <3>1. NoneStarts
      BY <2>1, <2>3, ThreadsPlain, Zenon DEF NoneStarts
    <3>2. Plain
      BY <2>1, <2>3, <3>1, ThreadsPlain, Zenon DEF Plain
    <3> QED
      BY <3>2, PlainKept
  <2> QED
    BY <2>2, <2>3 DEF HandleCancel
\* ldlm_cancel_lock_for_export.
<1>9. ASSUME NEW t \in Thread, NEW l \in Lock,
             ExportCancelLock(t, l)
      PROVE  EvictionInv'
  <2> USE <1>9
  <2>1. /\ net' \subseteq net /\ failed' = failed /\ reaped' = reaped /\ astSent' = astSent
        /\ thr[t].pc = "idle" /\ CancelLock(l) /\ Goto(t, "reproc") /\ ~Alive(l)
    BY IdleFields DEF ExportCancelLock, exports, astState, Alive
  <2>2. Moves(t, "reproc", thr[t].bl, thr[t].cp, thr[t].out, thr[t].rescan, thr[t].rc)
    BY <2>1, GotoMoves, Zenon
  <2>3. ThreadPhase(thr'[t])
    BY <2>1, <2>2, PhaseOf, Zenon DEF ThreadPhase, Moves
  <2>8. Onward(t, "reproc")
    BY <2>1, <2>2, <2>3 DEF Onward
  <2> QED
    BY <2>1, <2>2, <2>3, <2>8, CancelPlain, Zenon
\* ldlm_handle_convert0: only an evicted client sends converts for a lock the
\* policy has not seen.
<1>10. ASSUME NEW t \in Thread, NEW l \in Lock, NEW b,
              HandleConvert(t, l, b)
       PROVE  EvictionInv'
  <2> USE <1>10
  <2>1. /\ failed' = failed /\ reaped' = reaped /\ astSent' = astSent /\ tmr' = tmr
        /\ granted' = granted /\ waiting' = waiting /\ destroyed' = destroyed
        /\ ConvReq(l, b) \in net /\ thr[t] = Idle
    BY DEF HandleConvert, exports, astState, queues
  <2>2. ~(Fresh(l) /\ Alive(l))
    <3>1. ConvReq(l, b).lock = l /\ ConvReq(l, b).type = "convert"
      BY DEF ConvReq
    <3> QED
      BY <2>1, <3>1, Zenon DEF EvictionInv, FreshUntouched
  <2>3. \A m \in net' \ net : m.type = "convrep" /\ m.lock = l
    BY DEF HandleConvert, ConvRep
  <2>4. \A k \in Lock : EnqReq(k) \in net' => EnqReq(k) \in net
    BY <2>3 DEF EnqReq
  <2>5. /\ GoOn
        /\ \A u \in Thread : ThreadKept(u)
    <3>1. CASE thr' = thr
      BY <3>1, ThreadsPlain
    <3>2. CASE l \in granted /\ Become(t, [thr[t] EXCEPT !.pc = "conv", !.ctx = "conv",
                                   !.lock = l, !.drop = DropBits(l, b)])
      <4>1. /\ \A u \in Thread : u # t => thr'[u] = thr[u]
            /\ thr'[t].pc = "conv" /\ thr'[t].ctx = "conv" /\ thr'[t].lock = l
            /\ thr'[t].bl = {} /\ thr'[t].cp = {} /\ thr'[t].out = {}
        BY <2>1, <3>2, HandleConvertMoves, Zenon
      <4>2. /\ thr[t].bl = {} /\ thr[t].cp = {} /\ thr[t].out = {} /\ thr[t].ctx = "none"
        BY <2>1, IdleFields
      <4>5. GoOn
        BY <4>1, Zenon DEF GoOn
      <4>3. ~Fresh(l)
        BY <3>2, Zenon DEF EvictionInv, FreshUntouched
      <4>4. ASSUME NEW u \in Thread
            PROVE  ThreadKept(u)
        <5>1. CASE u = t
          BY <4>1, <4>2, <4>3, <5>1, Zenon DEF ThreadKept, ThreadPhase, Unfinished, Enqueues
        <5>2. CASE u # t
          <6>1. thr'[u] = thr[u]
            BY <4>1, <5>2, Zenon
          <6> QED
            BY <6>1, PhaseOf, Zenon DEF ThreadKept, Unfinished, Enqueues
        <5> QED
          BY <5>1, <5>2
      <4> QED
        BY <4>4, <4>5
    <3> QED
      BY <3>1, <3>2, Zenon DEF HandleConvert
  <2>6. NoneStarts
    BY <2>4, <2>5, Zenon DEF NoneStarts
  <2>7. Plain
    BY <2>1, <2>2, <2>3, <2>5, <2>6 DEF Plain
  <2> QED
    BY <2>7, PlainKept
\* The timer and expired_lock_main: a lock whose timer is stopped here is
\* gone, or its client is evicted.
<1>11. ASSUME NEW l \in Lock,
              TimerExpire(l) \/ ExpiredEvict(l) \/ ExpiredProlong(l)
       PROVE  EvictionInv'
  <2> USE <1>11
  <2>1. /\ thr' = thr /\ net' = net /\ astSent' = astSent /\ reaped' = reaped
        /\ granted' = granted /\ waiting' = waiting /\ destroyed' = destroyed
        /\ failed \subseteq failed'
    BY Zenon DEF TimerExpire, ExpiredEvict, ExpiredProlong, queues, astState, exports
  <2>2. NoneStarts
    BY <2>1, ThreadsPlain, Zenon DEF NoneStarts
  <2>3. \A k \in granted \cap astSent : tmr'[k] = tmr[k] \/ tmr'[k] # "off" \/ ~Alive(k)'
    <3>1. CASE TimerExpire(l) \/ ExpiredProlong(l)
      BY <3>1, Zenon DEF TimerExpire, ExpiredProlong, SInv, ServerTypeOK
    <3>2. CASE ExpiredEvict(l)
      <4>1. \A k \in granted : k # l => tmr'[k] = tmr[k]
        BY <3>2, Zenon DEF ExpiredEvict, SInv, ServerTypeOK
      <4>2. l \in granted => ~Alive(l)'
        BY <3>2, Zenon DEF ExpiredEvict, Alive, EvictionInv, LeftoversUnfinished
      <4> QED
        BY <4>1, <4>2, Zenon
    <3> QED
      BY <3>1, <3>2, Zenon
  <2>4. Plain
    BY <2>1, <2>2, <2>3, ThreadsPlain DEF Plain
  <2> QED
    BY <2>4, PlainKept, Zenon
\* The ping evictor.
<1>12. ASSUME NEW c \in Client, PingEvict(c)
       PROVE  EvictionInv'
  <2> USE <1>12
  <2>1. /\ thr' = thr /\ net' = net /\ astSent' = astSent /\ reaped' = reaped /\ tmr' = tmr
        /\ granted' = granted /\ waiting' = waiting /\ destroyed' = destroyed
        /\ failed \subseteq failed'
    BY DEF PingEvict, queues, astState
  <2>2. NoneStarts
    BY <2>1, ThreadsPlain, Zenon DEF NoneStarts
  <2>3. Plain
    BY <2>1, <2>2, ThreadsPlain DEF Plain
  <2> QED
    BY <2>3, PlainKept, Zenon
\* ldlm_handle_enqueue0 takes the only copy of the RPC.
<1>13. ASSUME NEW t \in Thread, NEW l \in Lock,
              HandleEnqueue(t, l)
       PROVE  EvictionInv'
  <2> USE <1>13
  <2>1. EnqueuedOnce /\ FreshUntouched /\ LeftoversUnfinished /\ TimerPending
    BY Zenon DEF EvictionInv
  <2>2. /\ \A u \in Thread : u # t => thr'[u] = thr[u]
        /\ thr'[t].pc \in {"hash", "reproc"}
        /\ thr'[t].ctx = "enq" /\ thr'[t].lock = l /\ thr'[t].bl = {}
        /\ thr'[t].cp = {} /\ thr'[t].out = {} /\ thr'[t].rescan = FALSE
    BY HandleEnqueueMoves, Zenon
  <2>3. /\ thr[t].ctx = "none" /\ thr[t].bl = {} /\ thr[t].cp = {} /\ thr[t].out = {}
        /\ EnqReq(l) \in net /\ net' = net \ {EnqReq(l)}
    BY IdleFields DEF HandleEnqueue
  <2>4. /\ granted' = granted /\ waiting' = waiting /\ destroyed' = destroyed
        /\ failed' = failed /\ reaped' = reaped /\ astSent' = astSent /\ tmr' = tmr
    BY DEF HandleEnqueue, queues, exports, astState
  <2>5. \A u \in Thread, k \in Lock : Enqueues(u, k)' => Enqueues(u, k) \/ (u = t /\ k = l)
    BY <2>2, Zenon DEF Enqueues
  <2>6. cl[l].st # "none" /\ \A u \in Thread : ~Enqueues(u, l)
    BY <2>1, <2>3, Zenon DEF EnqueuedOnce
  <2>7. EnqueuedOnce'
    <3>1. \A u, v \in Thread : \A k \in Lock : Enqueues(u, k)' /\ Enqueues(v, k)' => u = v
      <4> SUFFICES ASSUME NEW u \in Thread, NEW v \in Thread, NEW k \in Lock,
                          Enqueues(u, k)', Enqueues(v, k)'
                   PROVE  u = v
        OBVIOUS
      <4>1. CASE k = l
        BY <2>5, <2>6, <4>1, Zenon
      <4>2. CASE k # l
        <5>1. Enqueues(u, k) /\ Enqueues(v, k)
          BY <2>5, <4>2, Zenon
        <5> QED
          BY <2>1, <5>1, Zenon DEF EnqueuedOnce
      <4> QED
        BY <4>1, <4>2
    <3>2. \A k \in Lock : EnqReq(k) \in net' \/ cl'[k].st = "none" =>
                            \A u \in Thread : ~Enqueues(u, k)'
      BY <2>1, <2>3, <2>5, <2>6, Zenon DEF EnqueuedOnce
    <3>3. \A k \in Lock : cl'[k].st = "none" => EnqReq(k) \notin net'
      BY <2>1, <2>3, Zenon DEF EnqueuedOnce
    <3> QED
      BY <3>1, <3>2, <3>3, Zenon DEF EnqueuedOnce, EnqReq
  <2>8. \A k \in Lock : Fresh(k)' => Fresh(k)
    <3> SUFFICES ASSUME NEW k \in Lock, k # l, Fresh(k)' PROVE Fresh(k)
      BY <2>3, Zenon DEF Fresh
    <3>1. \A u \in Thread : Enqueues(u, k)' => u # t
      BY <2>2, Zenon DEF Enqueues
    <3>2. EnqReq(k) \in net' => EnqReq(k) \in net
      BY <2>3, Zenon
    <3>3. CASE \E u \in Thread : Enqueues(u, k)' /\ thr'[u].pc \in {"hash", "policy"}
      <4>1. PICK u \in Thread : Enqueues(u, k)' /\ thr'[u].pc \in {"hash", "policy"}
        BY <3>3, Zenon
      <4>2. Enqueues(u, k) /\ thr'[u] = thr[u]
        BY <2>2, <2>5, <3>1, <4>1, Zenon
      <4> QED
        BY <4>1, <4>2, Zenon DEF Fresh
    <3> QED
      BY <3>2, <3>3, Zenon DEF Fresh, EnqReq
  <2>9. NoneTouched
    <3>1. \A k \in Lock : Fresh(k) => k \notin granted' \cup waiting'
      BY <2>1, <2>4, Zenon DEF FreshUntouched
    <3>2. \A u \in Thread : /\ thr'[u].cp = thr[u].cp /\ thr'[u].out = thr[u].out
                            /\ thr'[u].ctx = "conv" => thr'[u] = thr[u]
      BY <2>2, <2>3, Zenon
    <3> QED
      BY <2>1, <2>3, <2>4, <3>1, <3>2, ServerTouches, Zenon
  <2>10. FreshUntouched'
    BY <2>1, <2>8, <2>9, FreshKept
  <2>11. \A u \in Thread, k \in Lock : Unfinished(u, k) => Unfinished(u, k)'
    BY <2>2, <2>3, Zenon DEF Unfinished, Enqueues
  <2>12. granted \subseteq Lock /\ waiting \subseteq Lock
    BY DEF SInv, ServerTypeOK
  <2>13. LeftoversUnfinished'
    <3>1. \A k \in granted' \cup waiting' : LeftAlone(k)
      BY <2>4, <2>11, <2>12, Zenon DEF LeftAlone
    <3> QED
      BY <2>1, <2>4, <3>1, LeftoversKept
  <2>14. TimerPending'
    <3>1. ASSUME NEW k \in granted' \cap astSent' PROVE TimerKept(k)
      BY <2>2, <2>3, <2>4, <2>11, <2>12, Zenon DEF TimerKept, Alive
    <3> QED
      BY <2>1, <3>1, TimersKept
  <2>15. \A u \in Thread : ThreadPhase(thr'[u])
    BY <2>2, PhaseOf, Zenon DEF ThreadPhase
  <2> QED
    BY <2>7, <2>10, <2>13, <2>14, <2>15, Zenon DEF EvictionInv, ThreadPhase
\* ldlm_lock_enqueue: the lock joins a queue in the hands of its enqueue, unless
\* it was cancelled already.
<1>14. ASSUME NEW t \in Thread, ProcessEnqueue(t, thr[t].lock),
              thr[t].lock \in Lock, thr[t].ctx = "enq", ~thr[t].rescan, thr[t].bl = {},
              UNCHANGED <<destroyed, tmr, failed, reaped, net>>
       PROVE  EvictionInv'
  <2> USE <1>14
  <2>0. PICK l \in Lock : l = thr[t].lock
    OBVIOUS
  <2>1. EnqueuedOnce /\ FreshUntouched /\ LeftoversUnfinished /\ TimerPending
    BY Zenon DEF EvictionInv
  <2>pc. PICK pc \in {"finish", "bl"} : \E bl, rc :
          /\ Moves(t, pc, bl, thr[t].cp, thr[t].out, thr[t].rescan, rc)
          /\ pc = "finish" => bl = {}
          /\ granted \subseteq granted' /\ granted' \subseteq granted \cup {l}
          /\ waiting \subseteq waiting' \cup {l} /\ waiting' \subseteq waiting \cup {l}
          /\ l \in destroyed => granted' \subseteq granted /\ waiting' \subseteq waiting
          /\ astSent' = astSent \cup bl
    BY <2>0, PolicyMoves, SMTT(30)
  <2>2. PICK bl, rc :
          /\ pc \in {"finish", "bl"}
          /\ Moves(t, pc, bl, thr[t].cp, thr[t].out, thr[t].rescan, rc)
          /\ pc = "finish" => bl = {}
          /\ granted \subseteq granted' /\ granted' \subseteq granted \cup {l}
          /\ waiting \subseteq waiting' \cup {l} /\ waiting' \subseteq waiting \cup {l}
          /\ l \in destroyed => granted' \subseteq granted /\ waiting' \subseteq waiting
          /\ astSent' = astSent \cup bl
    BY <2>pc, SMTT(30)
  <2>3. /\ \A u \in Thread : u # t => thr'[u] = thr[u]
        /\ thr'[t].pc = pc /\ thr'[t].ctx = "enq" /\ thr'[t].lock = l /\ thr'[t].bl = bl
        /\ thr'[t].cp = thr[t].cp /\ thr'[t].out = thr[t].out /\ ~thr'[t].rescan
    BY <2>0, <2>2, Zenon DEF Moves
  <2>4. EnqueuedOnce' /\ \A k \in Lock : Fresh(k)' => Fresh(k)
    <3>1. GoOn
      BY <2>0, <2>2, <2>3, Zenon DEF GoOn
    <3> QED
      BY <2>1, <3>1, OnceKept, Zenon DEF NoneStarts
  <2>5. Enqueues(t, l) /\ Enqueues(t, l)' /\ Unfinished(t, l)'
    BY <2>0, <2>2, <2>3, Zenon DEF Enqueues, Unfinished
  <2>6. ~Fresh(l)'
    <3>1. cl'[l].st # "none" /\ EnqReq(l) \notin net'
      BY <2>1, <2>5, Zenon DEF EnqueuedOnce
    <3>2. \A u \in Thread : Enqueues(u, l)' => u = t
      BY <2>4, <2>5, Zenon DEF EnqueuedOnce
    <3> QED
      BY <2>2, <2>3, <3>1, <3>2, Zenon DEF Fresh, EnqReq
  <2>7. NoneTouched
    <3>1. \A k \in Lock : Fresh(k) /\ Fresh(k)' => k \notin granted' \cup waiting'
      BY <2>1, <2>2, <2>6, Zenon DEF FreshUntouched
    <3>2. \A u \in Thread : /\ thr'[u].cp = thr[u].cp /\ thr'[u].out = thr[u].out
                            /\ thr'[u].ctx = "conv" => thr'[u] = thr[u]
      BY <2>3, Zenon
    <3> QED
      BY <2>1, <3>1, <3>2, ServerTouches, Zenon
  <2>8. FreshUntouched'
    BY <2>1, <2>4, <2>7, FreshKept, Zenon
  <2>9. \A u \in Thread, k \in Lock : Unfinished(u, k) => Unfinished(u, k)'
    BY <2>3, <2>5, Zenon DEF Unfinished, Enqueues
  <2>10. granted \subseteq Lock /\ waiting \subseteq Lock
    BY Zenon DEF SInv, ServerTypeOK
  <2>11. LeftoversUnfinished'
    <3>1. ASSUME NEW k \in granted' \cup waiting', k # l PROVE LeftAlone(k)
      BY <2>2, <2>9, <2>10, <3>1, Zenon DEF LeftAlone
    <3>2. l \in granted' \cup waiting' => l \notin destroyed'
      BY <2>1, <2>2, Zenon DEF LeftoversUnfinished
    <3> QED
      BY <2>1, <2>5, <3>1, <3>2, LeftoversKept, Zenon
  <2>12. TimerPending'
    <3>1. ASSUME NEW k \in granted' \cap astSent' PROVE TimerKept(k)
      <4>1. CASE k = l
        BY <2>5, <4>1, Zenon DEF TimerKept
      <4>2. CASE k \in bl
        BY <2>3, <4>2, Zenon DEF TimerKept
      <4>3. CASE k # l /\ k \notin bl
        <5>1. k \in granted \cap astSent /\ k \in Lock
          BY <2>2, <2>10, <4>3, Zenon
        <5>2. \A u \in Thread : k \in thr[u].bl \cup thr[u].cp => k \in thr'[u].bl \cup thr'[u].cp
          BY <2>3, Zenon
        <5> QED
          BY <2>9, <5>1, <5>2, Zenon DEF TimerKept, Alive
      <4> QED
        BY <4>1, <4>2, <4>3, Zenon
    <3> QED
      BY <2>1, <3>1, TimersKept, Zenon
  <2>13. \A u \in Thread : ThreadPhase(thr'[u])
    BY <2>2, <2>3, PhaseOf, Zenon DEF ThreadPhase
  <2> QED
    BY <2>4, <2>8, <2>11, <2>12, <2>13, Zenon DEF EvictionInv, ThreadPhase
\* ldlm_lock_enqueue and ldlm_handle_conflict_lock.
<1>15. ASSUME NEW t \in Thread,
              LockEnqueue(t) \/ EnqueueBlDone(t)
       PROVE  EvictionInv'
  <2> USE <1>15
  <2>1. created \subseteq Lock
    BY DEF SInv, ServerTypeOK
  <2>2. CASE LockEnqueue(t)
    <3>1. /\ thr[t].pc = "policy" /\ ProcessEnqueue(t, thr[t].lock)
          /\ UNCHANGED <<destroyed, tmr, failed, reaped, net>>
      BY <2>2 DEF LockEnqueue, exports
    <3>2. thr[t].lock \in Lock /\ thr[t].ctx = "enq" /\ ~thr[t].rescan /\ thr[t].bl = {}
      BY <2>1, <3>1, ThreadTyped, PhaseOf, Zenon DEF ThreadLocks, ThreadPhase
    <3> QED
      BY <3>1, <3>2, <1>14, Zenon
  <2>3. CASE EnqueueBlDone(t)
    <3>1. /\ thr[t].pc = "bl" /\ ~thr[t].rescan /\ thr[t].bl = {}
          /\ UNCHANGED <<destroyed, tmr, failed, reaped, net>>
      BY <2>3, Zenon DEF EnqueueBlDone, AstWorkDone, exports
    <3>2. thr[t].lock \in Lock /\ thr[t].ctx = "enq"
      BY <2>1, <3>1, ThreadTyped, PhaseOf, Zenon DEF ThreadLocks, ThreadPhase
    <3>3. CASE ProcessEnqueue(t, thr[t].lock) /\ thr[t].lock \notin destroyed
      BY <3>1, <3>2, <3>3, <1>14, Zenon
    <3>4. ASSUME NEW rc, Become(t, [thr[t] EXCEPT !.pc = "finish", !.rc = rc]),
                 UNCHANGED <<granted, waiting, astSent>>
          PROVE  EvictionInv'
      BY <2>3, <3>4, <1>2, Zenon
    <3> QED
      BY <2>3, <3>3, <3>4, Zenon DEF EnqueueBlDone
  <2> QED
    BY <2>2, <2>3, Zenon
\* ldlm_server_blocking_ast arms the timer of the lock it calls back.
<1>16. ASSUME NEW t \in Thread, NEW c \in Lock, BlAstSend(t, c)
       PROVE  EvictionInv'
  <2> USE <1>16
  <2>1. EnqueuedOnce /\ FreshUntouched /\ LeftoversUnfinished /\ TimerPending
    BY Zenon DEF EvictionInv
  <2>2. /\ granted' = granted /\ waiting' = waiting /\ destroyed' = destroyed
        /\ failed' = failed /\ reaped' = reaped /\ astSent' = astSent
        /\ thr[t].pc = "bl" /\ c \in thr[t].bl
    BY Zenon DEF BlAstSend, queues, exports
  <2>3. PICK o : /\ Moves(t, "blfin", thr[t].bl \ {c}, thr[t].cp, o, thr[t].rescan, thr[t].rc)
                 /\ o = thr[t].out \/ (c \in granted /\ o = thr[t].out \cup {c})
    BY BlAstSendMoves, Zenon DEF BlAstSend
  <2>4. /\ \A u \in Thread : u # t => thr'[u] = thr[u]
        /\ thr'[t].pc = "blfin" /\ thr'[t].ctx = thr[t].ctx /\ thr'[t].lock = thr[t].lock
        /\ thr'[t].bl = thr[t].bl \ {c} /\ thr'[t].cp = thr[t].cp /\ thr'[t].out = o
        /\ thr'[t].rescan = thr[t].rescan
    BY <2>3, Zenon DEF Moves
  <2>5. \A m \in net' \ net : m.type = "bl" /\ m.lock = c /\ c \in granted
    <3>1. net' = net \/ \E b : c \in granted /\ net' = net \cup {BlAst(c, b, t)}
      BY Zenon DEF BlAstSend
    <3> QED
      BY <3>1 DEF BlAst
  <2>6. NoneStarts
    <3>1. GoOn
      BY <2>4, Zenon DEF GoOn
    <3>2. \A k \in Lock : EnqReq(k) \in net' => EnqReq(k) \in net
      BY <2>5 DEF EnqReq
    <3> QED
      BY <3>1, <3>2, Zenon DEF NoneStarts
  <2>7. c \in granted => ~Fresh(c)
    BY <2>1, Zenon DEF FreshUntouched
  <2>8. NoneTouched
    <3>1. \A k \in Lock : Fresh(k) => k \notin granted' \cup waiting'
      BY <2>1, <2>2, Zenon DEF FreshUntouched
    <3>2. \A u \in Thread, k \in Lock :
            Fresh(k) /\ k \in thr'[u].cp \cup thr'[u].out => k \in thr[u].cp \cup thr[u].out
      BY <2>3, <2>4, <2>7, Zenon
    <3>3. \A u \in Thread : thr'[u].ctx = "conv" =>
            thr[u].ctx = "conv" /\ thr'[u].lock = thr[u].lock
      BY <2>4, Zenon
    <3>4. \A m \in net' \ net : ~Fresh(m.lock)
      BY <2>5, <2>7, Zenon
    <3> QED
      BY <2>1, <2>2, <3>1, <3>2, <3>3, <3>4, ServerTouches, Zenon
  <2>9. \A u \in Thread, k \in Lock : Unfinished(u, k) => Unfinished(u, k)'
    <3>1. \A k \in Lock : Unfinished(t, k) => Unfinished(t, k)'
      BY <2>4, Zenon DEF Unfinished, Enqueues
    <3> QED
      BY <2>4, <3>1, Zenon DEF Unfinished, Enqueues
  <2>10. granted \subseteq Lock /\ waiting \subseteq Lock
    BY Zenon DEF SInv, ServerTypeOK
  <2>11. \A k \in granted' \cup waiting' : LeftAlone(k)
    BY <2>2, <2>9, <2>10, Zenon DEF LeftAlone
  <2>12. ASSUME NEW k \in granted' \cap astSent' PROVE TimerKept(k)
    <3>1. tmr'[k] = tmr[k] \/ tmr'[k] # "off"
      BY <2>10, <2>2, Zenon DEF BlAstSend, AddWaiting, SInv, ServerTypeOK
    <3>2. CASE k = c
      <4>1. k \notin destroyed => tmr'[k] # "off"
        BY <2>2, <2>10, <3>2, Zenon DEF BlAstSend, AddWaiting, SInv, ServerTypeOK
      <4>2. k \in destroyed => ~Alive(k)'
        BY <2>1, <2>2 DEF LeftoversUnfinished, Alive
      <4> QED
        BY <4>1, <4>2 DEF TimerKept
    <3>3. CASE k # c
      <4>1. \A u \in Thread : k \in thr[u].bl \cup thr[u].cp => k \in thr'[u].bl \cup thr'[u].cp
        BY <2>4, <3>3, Zenon
      <4> QED
        BY <2>2, <2>9, <2>10, <3>1, <4>1, Zenon DEF TimerKept, Alive
    <3> QED
      BY <3>2, <3>3
  <2>13. \A u \in Thread : ThreadPhase(thr'[u])
    BY <2>2, <2>4, PhaseOf, Zenon DEF ThreadPhase
  <2> QED
    BY <2>2, <2>6, <2>8, <2>11, <2>12, <2>13, StepKept
\* ldlm_server_completion_ast arms the timer of a lock called back before it
\* was granted.
<1>17. ASSUME NEW t \in Thread, NEW c \in Lock, CpAstSend(t, c)
       PROVE  EvictionInv'
  <2> USE <1>17
  <2>1. EnqueuedOnce /\ FreshUntouched /\ LeftoversUnfinished /\ TimerPending
    BY Zenon DEF EvictionInv
  <2>2. /\ granted' = granted /\ waiting' = waiting /\ destroyed' = destroyed
        /\ failed' = failed /\ reaped' = reaped /\ astSent' = astSent
        /\ thr[t].pc = "cp" /\ c \in thr[t].cp
    BY DEF CpAstSend, queues, exports, astState
  <2>3. PICK o : /\ Moves(t, thr[t].pc, thr[t].bl, thr[t].cp \ {c}, o, thr[t].rescan, thr[t].rc)
                 /\ o = thr[t].out \/ o = thr[t].out \cup {c}
    BY CpAstSendMoves, Zenon DEF CpAstSend
  <2>4. /\ \A u \in Thread : u # t => thr'[u] = thr[u]
        /\ thr'[t].pc = "cp" /\ thr'[t].ctx = thr[t].ctx /\ thr'[t].lock = thr[t].lock
        /\ thr'[t].bl = thr[t].bl /\ thr'[t].cp = thr[t].cp \ {c} /\ thr'[t].out = o
        /\ thr'[t].rescan = thr[t].rescan
    BY <2>2, <2>3, Zenon DEF Moves
  <2>5. \A m \in net' \ net : m.type = "cp" /\ m.lock = c
    BY DEF CpAstSend, CpAst
  <2>6. NoneStarts
    <3>1. GoOn
      BY <2>4, Zenon DEF GoOn
    <3>2. \A k \in Lock : EnqReq(k) \in net' => EnqReq(k) \in net
      BY <2>5 DEF EnqReq
    <3> QED
      BY <3>1, <3>2, Zenon DEF NoneStarts
  <2>7. ~Fresh(c)
    BY <2>1, <2>2 DEF FreshUntouched
  <2>8. NoneTouched
    <3>1. \A k \in Lock : Fresh(k) => k \notin granted' \cup waiting'
      BY <2>1, <2>2, Zenon DEF FreshUntouched
    <3>2. \A u \in Thread, k \in Lock :
            Fresh(k) /\ k \in thr'[u].cp \cup thr'[u].out => k \in thr[u].cp \cup thr[u].out
      BY <2>3, <2>4, <2>7, Zenon
    <3>3. \A u \in Thread : thr'[u].ctx = "conv" =>
            thr[u].ctx = "conv" /\ thr'[u].lock = thr[u].lock
      BY <2>4, Zenon
    <3>4. \A m \in net' \ net : ~Fresh(m.lock)
      BY <2>5, <2>7
    <3> QED
      BY <2>1, <2>2, <3>1, <3>2, <3>3, <3>4, ServerTouches, Zenon
  <2>9. \A u \in Thread, k \in Lock : Unfinished(u, k) => Unfinished(u, k)'
    <3>1. \A k \in Lock : ~Unfinished(t, k)
      BY <2>2 DEF Unfinished
    <3> QED
      BY <2>4, <3>1, Zenon DEF Unfinished, Enqueues
  <2>10. granted \subseteq Lock /\ waiting \subseteq Lock
    BY Zenon DEF SInv, ServerTypeOK
  <2>11. \A k \in granted' \cup waiting' : LeftAlone(k)
    BY <2>2, <2>9, <2>10, Zenon DEF LeftAlone
  <2>12. ASSUME NEW k \in granted' \cap astSent' PROVE TimerKept(k)
    <3>1. tmr'[k] = tmr[k] \/ tmr'[k] # "off"
      BY <2>10, <2>2, Zenon DEF CpAstSend, AddWaiting, SInv, ServerTypeOK
    <3>2. CASE k = c
      <4>1. k \notin destroyed => tmr'[k] # "off"
        BY <2>2, <2>10, <3>2, Zenon DEF CpAstSend, AddWaiting, SInv, ServerTypeOK
      <4>2. k \in destroyed => ~Alive(k)'
        BY <2>1, <2>2, Zenon DEF LeftoversUnfinished, Alive
      <4> QED
        BY <4>1, <4>2, Zenon DEF TimerKept
    <3>3. CASE k # c
      <4>1. \A u \in Thread : k \in thr[u].bl \cup thr[u].cp => k \in thr'[u].bl \cup thr'[u].cp
        BY <2>4, <3>3, Zenon
      <4> QED
        BY <2>2, <2>9, <2>10, <3>1, <4>1, Zenon DEF TimerKept, Alive
    <3> QED
      BY <3>2, <3>3
  <2>13. \A u \in Thread : ThreadPhase(thr'[u])
    BY <2>2, <2>4, PhaseOf, Zenon DEF ThreadPhase
  <2> QED
    BY <2>2, <2>6, <2>8, <2>11, <2>12, <2>13, StepKept, Zenon
\* The handler returns and its reply is sent, or the scan starts again.
<1>18. ASSUME NEW t \in Thread, CpDone(t)
       PROVE  EvictionInv'
  <2> USE <1>18
  <2>1. EnqueuedOnce /\ FreshUntouched /\ LeftoversUnfinished /\ TimerPending
    BY Zenon DEF EvictionInv
  <2>2. /\ granted' = granted /\ waiting' = waiting /\ destroyed' = destroyed /\ tmr' = tmr
        /\ failed' = failed /\ reaped' = reaped /\ astSent' = astSent
        /\ thr[t].pc = "cp"
    BY Zenon DEF CpDone, queues, exports, astState, AstWorkDone
  <2>0. thr[t].cp = {} /\ thr[t].out = {}
    BY Zenon DEF CpDone, AstWorkDone
  <2>3. CASE Goto(t, "reproc") /\ net' = net
    <3>1. Moves(t, "reproc", thr[t].bl, thr[t].cp, thr[t].out, thr[t].rescan, thr[t].rc)
      BY <2>3, GotoMoves
    <3>2. ThreadPhase(thr'[t])
      BY <2>2, <3>1, PhaseOf, Zenon DEF ThreadPhase, Moves
    <3>8. Onward(t, "reproc")
      BY <2>2, <2>3, <3>1, <3>2 DEF Onward
    <3>10. \A l \in granted' \cap astSent' : tmr'[l] = tmr[l] \/ tmr'[l] # "off"
      BY <2>2, <2>3, <3>1, <3>2
    <3> QED
      BY <2>2, <2>3, <3>1, <3>2, <3>8, <3>10, QuietPlain, Zenon
  <2>4. CASE Become(t, Idle) /\ net' = net \cup Reply(t)
    <3>1. thr'[t] = Idle /\ \A u \in Thread : u # t => thr'[u] = thr[u]
      BY <2>4, BecomeThread
    <3>2. /\ thr'[t].pc = "idle" /\ thr'[t].ctx = "none" /\ thr'[t].bl = {}
          /\ thr'[t].cp = {} /\ thr'[t].out = {}
      BY <3>1, IdleFields
    <3>3. \A m \in net' \ net : /\ m.type \in {"enqrep", "convrep"}
                                /\ thr[t].ctx \in {"enq", "conv"} /\ m.lock = thr[t].lock
      BY <2>4 DEF Reply, EnqRep, ConvRep
    <3>4. thr[t].ctx \in {"enq", "conv"} => thr[t].lock \in Lock /\ ~Fresh(thr[t].lock)
      <4> SUFFICES ASSUME thr[t].ctx \in {"enq", "conv"}
                   PROVE  thr[t].lock \in Lock /\ ~Fresh(thr[t].lock)
        BY Zenon
      <4>1. thr[t].lock \in Lock
        BY ThreadTyped, Zenon DEF ThreadLocks
      <4>2. CASE thr[t].ctx = "enq"
        BY <2>2, <4>1, <4>2, SeenNotFresh, Zenon DEF Enqueues
      <4>3. CASE thr[t].ctx = "conv"
        BY <2>1, <4>1, <4>3, Zenon DEF FreshUntouched
      <4> QED
        BY <4>1, <4>2, <4>3, Zenon
    <3>5. NoneStarts
      <4>1. GoOn
        BY <3>1, <3>2, Zenon DEF GoOn
      <4>2. \A k \in Lock : EnqReq(k) \in net' => EnqReq(k) \in net
        BY <3>3 DEF EnqReq
      <4> QED
        BY <4>1, <4>2, Zenon DEF NoneStarts
    <3>6. NoneTouched
      <4>1. \A k \in Lock : Fresh(k) => k \notin granted' \cup waiting'
        BY <2>1, <2>2, Zenon DEF FreshUntouched
      <4>2. \A u \in Thread : /\ thr'[u].cp = thr[u].cp /\ thr'[u].out = thr[u].out
                              /\ thr'[u].ctx = "conv" => thr'[u] = thr[u]
        BY <2>0, <3>1, <3>2, Zenon
      <4>3. \A m \in net' \ net : ~Fresh(m.lock)
        BY <3>3, <3>4
      <4> QED
        BY <2>1, <2>2, <4>1, <4>2, <4>3, ServerTouches, Zenon
    <3>7. \A u \in Thread, k \in Lock : Unfinished(u, k) => Unfinished(u, k)'
      <4>1. \A k \in Lock : ~Unfinished(t, k)
        BY <2>2 DEF Unfinished
      <4> QED
        BY <3>1, <4>1, Zenon DEF Unfinished, Enqueues
    <3>8. granted \subseteq Lock /\ waiting \subseteq Lock
      BY Zenon DEF SInv, ServerTypeOK
    <3>9. \A k \in granted' \cup waiting' : LeftAlone(k)
      BY <2>2, <3>7, <3>8 DEF LeftAlone
    <3>10. ASSUME NEW k \in granted' \cap astSent' PROVE TimerKept(k)
      <4>1. thr[t].bl = {}
        BY <2>2, PhaseOf, Zenon DEF ThreadPhase
      <4>2. \A u \in Thread : k \in thr[u].bl \cup thr[u].cp => k \in thr'[u].bl \cup thr'[u].cp
        BY <2>0, <3>1, <4>1, Zenon
      <4> QED
        BY <2>2, <3>7, <3>8, <4>2, Zenon DEF TimerKept, Alive
    <3>11. \A u \in Thread : ThreadPhase(thr'[u])
      BY <3>1, <3>2, PhaseOf, Zenon DEF ThreadPhase
    <3> QED
      BY <2>2, <3>5, <3>6, <3>9, <3>10, <3>11, StepKept, Zenon
  <2> QED
    BY <2>3, <2>4, Zenon DEF CpDone
\* ldlm_handle_enqueue0 looks at exp_disconnected again before the reply: the
\* lock is cancelled if its client was evicted, or its timer armed if it was
\* called back.
<1>19. ASSUME NEW t \in Thread, EnqueueFinish(t)
       PROVE  EvictionInv'
  <2> USE <1>19
  <2>1. EnqueuedOnce /\ FreshUntouched /\ LeftoversUnfinished /\ TimerPending
    BY Zenon DEF EvictionInv
  <2>2. /\ net' = net /\ failed' = failed /\ reaped' = reaped /\ astSent' = astSent
        /\ thr[t].pc = "finish"
    BY Zenon DEF EnqueueFinish, exports, astState
  <2>3. PICK l \in Lock : l = thr[t].lock
    BY <2>2, ThreadTyped, Zenon DEF ThreadLocks, SInv, ServerTypeOK
  <2>4. Enqueues(t, l) /\ ~thr[t].rescan /\ thr[t].bl = {}
    BY <2>2, <2>3, PhaseOf, Zenon DEF Enqueues, ThreadPhase
  <2>5. ~Fresh(l)
    BY <2>2, <2>4, SeenNotFresh
  <2>pc. PICK pc \in {"cp", "reproc"} : \E rc :
          Moves(t, pc, thr[t].bl, thr[t].cp, thr[t].out, thr[t].rescan, rc)
    BY DeadMoves, DoneMoves, Zenon DEF EnqueueFinish
  <2>6. PICK rc :
          /\ pc \in {"cp", "reproc"}
          /\ Moves(t, pc, thr[t].bl, thr[t].cp, thr[t].out, thr[t].rescan, rc)
    BY <2>pc
  <2>7. /\ \A u \in Thread : u # t => thr'[u] = thr[u]
        /\ thr'[t].pc = pc /\ thr'[t].ctx = thr[t].ctx /\ thr'[t].lock = thr[t].lock
        /\ thr'[t].bl = thr[t].bl /\ thr'[t].cp = thr[t].cp /\ thr'[t].out = thr[t].out
    BY <2>6, Zenon DEF Moves
  <2>8. /\ granted' \subseteq granted /\ waiting' \subseteq waiting
        /\ destroyed' \subseteq destroyed \cup {l}
        /\ \/ l \notin granted' \cup waiting' /\ \A k \in granted' : tmr'[k] = tmr[k]
           \/ /\ Alive(l) /\ destroyed' = destroyed
              /\ l \in astSent \cap granted => AddWaiting(l)
              /\ l \notin astSent \cap granted => tmr' = tmr
    <3>1. CASE CancelLock(l)
      BY <2>3, <3>1, Zenon DEF CancelLock, SInv, ServerTypeOK
    <3>2. CASE ~CancelLock(l)
      BY <2>3, <3>2, Zenon DEF EnqueueFinish, ExportGone, Alive
    <3> QED
      BY <3>1, <3>2
  <2>9. NoneStarts
    <3>1. GoOn
      BY <2>7, Zenon DEF GoOn
    <3> QED
      BY <2>2, <3>1, Zenon DEF NoneStarts
  <2>10. NoneTouched
    <3>1. \A k \in Lock : Fresh(k) => k \notin granted' \cup waiting'
      BY <2>1, <2>8, Zenon DEF FreshUntouched
    <3>2. \A k \in destroyed' \ destroyed : ~Fresh(k)
      BY <2>5, <2>8
    <3>3. \A u \in Thread : /\ thr'[u].cp = thr[u].cp /\ thr'[u].out = thr[u].out
                            /\ thr'[u].ctx = thr[u].ctx /\ thr'[u].lock = thr[u].lock
      BY <2>7, Zenon
    <3> QED
      BY <2>1, <2>2, <3>1, <3>2, <3>3, ServerTouches, Zenon
  <2>11. \A u \in Thread, k \in Lock : k # l /\ Unfinished(u, k) => Unfinished(u, k)'
    <3>1. \A k \in Lock : k # l => ~Unfinished(t, k)
      BY <2>3 DEF Unfinished, Enqueues
    <3> QED
      BY <2>7, <3>1, Zenon DEF Unfinished, Enqueues
  <2>12. granted \subseteq Lock /\ waiting \subseteq Lock /\ reaped \subseteq failed
    BY DEF SInv, ServerTypeOK
  <2>13. ASSUME NEW k \in granted' \cup waiting'
         PROVE  LeftAlone(k) \/ (k \notin destroyed' /\ Owner[k] \notin reaped')
    <3>1. CASE k = l
      BY <2>1, <2>2, <2>8, <2>12, <3>1, Zenon DEF LeftoversUnfinished, Alive
    <3>2. CASE k # l
      BY <2>2, <2>8, <2>11, <2>12, <3>2, Zenon DEF LeftAlone
    <3> QED
      BY <3>1, <3>2
  <2>14. ASSUME NEW k \in granted' \cap astSent' PROVE TimerKept(k)
    <3>1. tmr'[k] = tmr[k] \/ tmr'[k] # "off"
      BY <2>8, <2>12, Zenon DEF AddWaiting, SInv, ServerTypeOK
    <3>2. CASE k = l
      <4>1. Alive(l) /\ AddWaiting(l) /\ l \in granted
        BY <2>2, <2>8, <3>2, Zenon
      <4>2. l \notin destroyed
        BY <2>1, <4>1 DEF LeftoversUnfinished
      <4> QED
        BY <3>2, <4>1, <4>2, Zenon DEF TimerKept, AddWaiting, SInv, ServerTypeOK
    <3>3. CASE k # l
      <4>1. \A u \in Thread : k \in thr[u].bl \cup thr[u].cp => k \in thr'[u].bl \cup thr'[u].cp
        BY <2>7, Zenon
      <4> QED
        BY <2>2, <2>8, <2>11, <2>12, <3>1, <3>3, <4>1, Zenon DEF TimerKept, Alive
    <3> QED
      BY <3>2, <3>3
  <2>15. \A u \in Thread : ThreadPhase(thr'[u])
    BY <2>4, <2>7, PhaseOf, Zenon DEF ThreadPhase
  <2> QED
    BY <2>2, <2>9, <2>10, <2>13, <2>14, <2>15, StepKept, Zenon
\* A scan of the waiting queue: what it grants gets its completion AST, which
\* arms the timer of a lock that was called back while it waited.
<1>20. ASSUME NEW t \in Thread, Reprocess(t)
       PROVE  EvictionInv'
  <2> USE <1>20
  <2>1. EnqueuedOnce /\ FreshUntouched /\ LeftoversUnfinished /\ TimerPending
    BY Zenon DEF EvictionInv
  <2>2. /\ granted' = granted \cup Grantable /\ waiting' = waiting \ Grantable
        /\ destroyed' = destroyed /\ tmr' = tmr /\ net' = net
        /\ failed' = failed /\ reaped' = reaped /\ thr[t].pc = "reproc"
    BY Zenon DEF Reprocess, exports
  <2>3. PICK pc \in {"cp", "bl"}, N \in SUBSET Lock :
          /\ Moves(t, pc, N, thr[t].cp \cup Grantable, thr[t].out, TRUE, thr[t].rc)
          /\ pc = "cp" => N = thr[t].bl
          /\ astSent' \subseteq astSent \cup N
    <3>1. CASE FirstBlocked = {} /\ astSent' = astSent
               /\ Become(t, [thr[t] EXCEPT !.pc = "cp", !.rescan = TRUE,
                                !.restart = FALSE, !.cp = @ \cup Grantable])
      <4>1. Moves(t, "cp", thr[t].bl, thr[t].cp \cup Grantable, thr[t].out, TRUE, thr[t].rc)
        BY <3>1, ScanEndMoves, Zenon
      <4>2. thr[t].bl \in SUBSET Lock
        BY ThreadTyped DEF ThreadState
      <4> QED
        BY <3>1, <4>1, <4>2, Zenon
    <3>2. ASSUME NEW l \in FirstBlocked, NEW N,
                 N = ToCallBack(Conflicts(l, granted \cup Grantable)), AddBlWork(N, l),
                 Become(t, [thr[t] EXCEPT !.pc = "bl", !.bl = N, !.rescan = TRUE,
                                !.restart = FALSE, !.cp = @ \cup Grantable])
          PROVE  \E M \in SUBSET Lock :
                   /\ Moves(t, "bl", M, thr[t].cp \cup Grantable, thr[t].out, TRUE, thr[t].rc)
                   /\ astSent' \subseteq astSent \cup M
      <4>1. Moves(t, "bl", N, thr[t].cp \cup Grantable, thr[t].out, TRUE, thr[t].rc)
        BY <3>2, ScanBlockMoves, Zenon
      <4>2. astSent' = astSent \cup N
        BY <3>2, Zenon DEF AddBlWork
      <4>3. N \in SUBSET Lock
        BY <3>2 DEF ToCallBack, Conflicts, Grantable, SInv, ServerTypeOK
      <4> QED
        BY <4>1, <4>2, <4>3, Zenon
    <3> QED
      BY <3>1, <3>2, Zenon DEF Reprocess
  <2>4. /\ \A u \in Thread : u # t => thr'[u] = thr[u]
        /\ thr'[t].pc = pc /\ thr'[t].ctx = thr[t].ctx /\ thr'[t].lock = thr[t].lock
        /\ thr'[t].bl = N /\ thr'[t].cp = thr[t].cp \cup Grantable
        /\ thr'[t].out = thr[t].out /\ thr'[t].rescan
    BY <2>3, Zenon DEF Moves
  <2>5. thr[t].bl = {}
    BY <2>2, PhaseOf, Zenon DEF ThreadPhase
  <2>6. Grantable \subseteq waiting /\ granted \subseteq Lock /\ waiting \subseteq Lock
    BY Zenon DEF Grantable, SInv, ServerTypeOK
  <2>7. NoneStarts
    <3>1. GoOn
      BY <2>4, Zenon DEF GoOn
    <3> QED
      BY <2>2, <3>1, Zenon DEF NoneStarts
  <2>8. \A k \in Lock : Fresh(k) => k \notin granted' \cup waiting' /\ k \notin Grantable
    BY <2>1, <2>2, <2>6, Zenon DEF FreshUntouched
  <2>9. NoneTouched
    <3>1. \A u \in Thread, k \in Lock :
            Fresh(k) /\ k \in thr'[u].cp \cup thr'[u].out => k \in thr[u].cp \cup thr[u].out
      BY <2>4, <2>8, Zenon
    <3>2. \A u \in Thread : thr'[u].ctx = thr[u].ctx /\ thr'[u].lock = thr[u].lock
      BY <2>4, Zenon
    <3> QED
      BY <2>1, <2>2, <2>8, <3>1, <3>2, ServerTouches, Zenon
  <2>10. \A u \in Thread, k \in Lock : Unfinished(u, k) => Unfinished(u, k)'
    <3>1. \A k \in Lock : ~Unfinished(t, k)
      BY <2>2, Zenon DEF Unfinished
    <3> QED
      BY <2>4, <3>1, Zenon DEF Unfinished, Enqueues
  <2>11. \A k \in granted' \cup waiting' : LeftAlone(k)
    BY <2>2, <2>6, <2>10, Zenon DEF LeftAlone
  <2>12. ASSUME NEW k \in granted' \cap astSent' PROVE TimerKept(k)
    <3>1. \A u \in Thread : k \in thr[u].bl \cup thr[u].cp => k \in thr'[u].bl \cup thr'[u].cp
      BY <2>4, <2>5, Zenon
    <3>2. CASE k \in Grantable \cup N
      BY <2>4, <3>2, Zenon DEF TimerKept
    <3>3. CASE k \notin Grantable \cup N
      <4>1. k \in granted \cap astSent /\ k \in Lock
        BY <2>2, <2>3, <2>6, <3>3, Zenon
      <4> QED
        BY <2>2, <2>10, <3>1, <4>1, Zenon DEF TimerKept, Alive
    <3> QED
      BY <3>2, <3>3
  <2>13. \A u \in Thread : ThreadPhase(thr'[u])
    BY <2>3, <2>4, <2>5, PhaseOf, ZenonT(40) DEF ThreadPhase
  <2> QED
    BY <2>2, <2>7, <2>9, <2>11, <2>12, <2>13, StepKept, Zenon
\* An export is not visited again once its lock hash is empty: no lock of it
\* is on the resource.
<1>21. ASSUME NEW c \in Client, StaleExportDone(c)
       PROVE  EvictionInv'
  <2> USE <1>21
  <2>1. EnqueuedOnce /\ FreshUntouched /\ LeftoversUnfinished /\ TimerPending
    BY Zenon DEF EvictionInv
  <2>2. /\ granted' = granted /\ waiting' = waiting /\ destroyed' = destroyed /\ tmr' = tmr
        /\ failed' = failed /\ reaped' = reaped \cup {c} /\ astSent' = astSent
        /\ net' = net /\ thr' = thr
        /\ \A l \in Live : Owner[l] # c
    BY Zenon DEF StaleExportDone, queues, astState
  <2>3. GoOn /\ \A u \in Thread : ThreadKept(u)
    BY <2>2, ThreadsPlain
  <2>4. EnqueuedOnce' /\ \A l \in Lock : Fresh(l)' => Fresh(l)
    <3>1. NoneStarts
      BY <2>2, <2>3, Zenon DEF NoneStarts
    <3> QED
      BY <2>1, <3>1, OnceKept
  <2>5. FreshUntouched'
    <3>1. NoneTouched
      <4>1. \A k \in Lock : Fresh(k) => k \notin granted' \cup waiting'
        BY <2>1, <2>2, Zenon DEF FreshUntouched
      <4> QED
        BY <2>1, <2>2, <4>1, ServerTouches, Zenon
    <3> QED
      BY <2>1, <2>4, <3>1, FreshKept
  <2>6. \A u \in Thread, l \in Lock : Unfinished(u, l)' <=> Unfinished(u, l)
    BY <2>2, Zenon DEF Unfinished, Enqueues
  <2>7. granted \cup waiting \subseteq created /\ created \subseteq Lock
    BY DEF SInv, ServerTypeOK, LocksCreated
  <2>8. LeftoversUnfinished'
    <3>1. ASSUME NEW l \in granted' \cup waiting' PROVE LeftAlone(l)
      <4>1. l \in granted \cup waiting /\ l \in created /\ l \in Lock
        BY <2>2, <2>7
      <4>2. Owner[l] # c
        BY <2>1, <2>2, <4>1 DEF Live, LeftoversUnfinished
      <4> QED
        BY <2>2, <2>6, <4>1, <4>2 DEF LeftAlone
    <3> QED
      BY <2>1, <2>2, <3>1, LeftoversKept
  <2>9. TimerPending'
    <3>1. \A l \in granted \cap astSent : TimerKept(l)
      BY <2>1, <2>2, <2>6, <2>7, Zenon DEF TimerKept, Alive
    <3> QED
      BY <2>1, <2>2, <3>1, TimersKept, Zenon
  <2>10. \A u \in Thread : ThreadPhase(thr'[u])
    BY <2>3, Zenon DEF ThreadKept
  <2> QED
    BY <2>4, <2>5, <2>8, <2>9, <2>10, Zenon DEF EvictionInv, ThreadPhase
<1>22. ASSUME NEW t \in Thread, ThreadStep(t) PROVE EvictionInv'
  BY <1>22, <1>1, <1>15, <1>3, <1>19,
     <1>20, <1>5, <1>18, <1>6,
     <1>16, <1>17, Zenon DEF ThreadStep
<1>23. ASSUME NEW t \in Thread, HandleRequest(t) PROVE EvictionInv'
  BY <1>23, <1>13, <1>8, <1>9,
     <1>10, Zenon DEF HandleRequest
<1>24. ASSUME NEW t \in Thread, AstAnswered(t) PROVE EvictionInv'
  BY <1>24, <1>4, <1>7, Zenon DEF AstAnswered
<1>25. CASE ServerWork
  BY <1>22, <1>23, <1>24, <1>25, Zenon DEF ServerWork
<1>26. ASSUME NEW l \in Lock, TimerExpire(l) \/ ExpiredEvict(l) \/ ExpiredProlong(l)
      PROVE  EvictionInv'
  BY <1>26, <1>11
<1>27. ASSUME NEW c \in Client, PingEvict(c) \/ StaleExportDone(c)
      PROVE  EvictionInv'
  BY <1>27, <1>12, <1>21
<1> QED
  BY <1>25, <1>26, <1>27, Zenon DEF ServerNext

\* Every step keeps EvictionInv.
LEMMA NextKeepsEviction == TypeInv /\ EvictionInv /\ [Next]_vars => EvictionInv'
<1> SUFFICES ASSUME TypeInv, EvictionInv, [Next]_vars PROVE EvictionInv'
  OBVIOUS
<1>1. SInv /\ CInv
  BY DEF TypeInv, TypeOK, SInv, CInv
<1>2. CASE ServerNext /\ UNCHANGED cvars
  <2>1. cl' = cl
    BY <1>2 DEF cvars
  <2> QED
    BY <1>1, <1>2, <2>1, ServerEviction
<1>3. ASSUME NEW l \in Lock, ClientStep(l), UNCHANGED svars PROVE EvictionInv'
  BY <1>1, <1>3, ClientEviction
<1>4. ASSUME NEW c \in Client, LearnEviction(c) PROVE EvictionInv'
  BY <1>1, <1>4, LearnEvictionEviction
<1>5. CASE UNCHANGED vars
  <2>1. UNCHANGED svars /\ cl' = cl /\ net' = net
    BY <1>5 DEF vars, cvars
  <2>2. EnqueuedOnce /\ FreshUntouched
    BY Zenon DEF EvictionInv
  <2>3. thr' = thr /\ granted' = granted /\ waiting' = waiting /\ failed' = failed
        /\ destroyed' = destroyed
    BY <2>1 DEF svars, queues, exports
  <2>4. NoneStarts
    BY <2>1, <2>3, Zenon DEF NoneStarts, GoOn
  <2>5. EnqueuedOnce' /\ \A k \in Lock : Fresh(k)' => Fresh(k)
    BY <2>2, <2>4, OnceKept
  <2>6. \A k \in Lock : Fresh(k) => k \notin granted \cup waiting
    BY <2>2, Zenon DEF FreshUntouched
  <2>7. NoneTouched
    BY <2>1, <2>2, <2>3, <2>6, ServerTouches, Zenon
  <2> QED
    BY <1>1, <2>1, <2>5, <2>7, ClientStepKept
<1> QED
  BY <1>2, <1>3, <1>4, <1>5, Zenon DEF Next

\* At the start there is no lock.
LEMMA InitEviction == Init => EvictionInv
<1> SUFFICES ASSUME Init PROVE EvictionInv
  OBVIOUS
<1>1. /\ granted = {} /\ waiting = {} /\ destroyed = {} /\ net = {}
      /\ \A l \in Lock : cl[l] = NewLock
      /\ \A t \in Thread : thr[t] = Idle
  BY Zenon DEF Init, ServerInit, ClientInit
<1>2. /\ Idle.pc = "idle" /\ Idle.ctx = "none" /\ Idle.bl = {} /\ Idle.cp = {} /\ Idle.out = {}
      /\ NewLock.st = "none" /\ NewLock.work = {} /\ NewLock.canceling = FALSE
  BY Zenon DEF Idle, NewLock
<1>3. \A t \in Thread : ThreadPhase(thr[t])
  BY <1>1, <1>2, Zenon DEF ThreadPhase
<1>4. EnqueuedOnce
  BY <1>1, <1>2, Zenon DEF EnqueuedOnce, Enqueues
<1>5. FreshUntouched
  BY <1>1, <1>2, Zenon DEF FreshUntouched
<1>6. LeftoversUnfinished /\ TimerPending
  BY <1>1, Zenon DEF LeftoversUnfinished, TimerPending
<1> QED
  BY <1>3, <1>4, <1>5, <1>6, Zenon DEF EvictionInv
=============================================================================

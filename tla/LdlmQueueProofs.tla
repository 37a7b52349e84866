--------------------------- MODULE LdlmQueueProofs --------------------------
(***************************************************************************)
(* No step of the server leaves the head of the waiting queue without a    *)
(* lock in its way or a thread that will scan it.                          *)
(***************************************************************************)
EXTENDS LdlmEvictionProofs

-----------------------------------------------------------------------------
(* What the actions do to the rest of a thread's record.                   *)

Rest(t, restart, ast) == thr'[t].restart = restart /\ thr'[t].ast = ast

\* The handlers that go on keep what they have noted.
LEMMA GoOnRest ==
    ASSUME SInv, NEW t \in Thread, NEW pc, NEW c, NEW o, NEW rc,
           \/ Goto(t, pc)
           \/ Become(t, [thr[t] EXCEPT !.pc = "finish", !.rc = rc])
           \/ Become(t, [thr[t] EXCEPT !.pc = "blfin", !.bl = @ \ {c}, !.cur = c, !.out = o])
           \/ Become(t, [thr[t] EXCEPT !.pc = "bl", !.cur = NoLock])
           \/ Become(t, [thr[t] EXCEPT !.cp = @ \ {c}, !.out = o])
    PROVE  Rest(t, thr[t].restart, thr[t].ast)
<1>1. thr[t] \in ThreadState
  BY ThreadTyped
<1>2. ASSUME NEW r, Become(t, r), r.restart = thr[t].restart, r.ast = thr[t].ast
      PROVE  Rest(t, thr[t].restart, thr[t].ast)
  BY <1>2, BecomeThread, Zenon DEF Rest
<1>3. CASE Goto(t, pc)
  <2> DEFINE r == [thr[t] EXCEPT !.pc = pc]
  <2>1. r.restart = thr[t].restart /\ r.ast = thr[t].ast
    BY <1>1, Zenon DEF ThreadState
  <2> QED
    BY <1>2, <1>3, <2>1, Zenon DEF Goto
<1>4. CASE Become(t, [thr[t] EXCEPT !.pc = "finish", !.rc = rc])
  <2> DEFINE r == [thr[t] EXCEPT !.pc = "finish", !.rc = rc]
  <2>1. r.restart = thr[t].restart /\ r.ast = thr[t].ast
    BY <1>1, Zenon DEF ThreadState
  <2> QED
    BY <1>2, <1>4, <2>1, Zenon
<1>5. CASE Become(t, [thr[t] EXCEPT !.pc = "blfin", !.bl = @ \ {c}, !.cur = c, !.out = o])
  <2> DEFINE r == [thr[t] EXCEPT !.pc = "blfin", !.bl = @ \ {c}, !.cur = c, !.out = o]
  <2>1. r.restart = thr[t].restart /\ r.ast = thr[t].ast
    BY <1>1, Zenon DEF ThreadState
  <2> QED
    BY <1>2, <1>5, <2>1, Zenon
<1>6. CASE Become(t, [thr[t] EXCEPT !.pc = "bl", !.cur = NoLock])
  <2> DEFINE r == [thr[t] EXCEPT !.pc = "bl", !.cur = NoLock]
  <2>1. r.restart = thr[t].restart /\ r.ast = thr[t].ast
    BY <1>1, Zenon DEF ThreadState
  <2> QED
    BY <1>2, <1>6, <2>1, Zenon
<1>7. CASE Become(t, [thr[t] EXCEPT !.cp = @ \ {c}, !.out = o])
  <2> DEFINE r == [thr[t] EXCEPT !.cp = @ \ {c}, !.out = o]
  <2>1. r.restart = thr[t].restart /\ r.ast = thr[t].ast
    BY <1>1, Zenon DEF ThreadState
  <2> QED
    BY <1>2, <1>7, <2>1, Zenon
<1> QED
  BY <1>3, <1>4, <1>5, <1>6, <1>7, Zenon

\* A scan and the policy forget that a restart was asked for.
LEMMA ScanRest ==
    ASSUME SInv, NEW t \in Thread, NEW pc, NEW N,
           \/ Become(t, [thr[t] EXCEPT !.pc = "bl", !.bl = N, !.restart = FALSE])
           \/ Become(t, [thr[t] EXCEPT !.pc = pc, !.restart = FALSE])
           \/ Become(t, [thr[t] EXCEPT !.pc = "cp", !.rescan = TRUE, !.restart = FALSE,
                             !.cp = @ \cup Grantable])
           \/ Become(t, [thr[t] EXCEPT !.pc = "bl", !.bl = N, !.rescan = TRUE,
                             !.restart = FALSE, !.cp = @ \cup Grantable])
    PROVE  Rest(t, FALSE, thr[t].ast)
<1>1. thr[t] \in ThreadState
  BY ThreadTyped
<1>2. ASSUME NEW r, Become(t, r), r.restart = FALSE, r.ast = thr[t].ast
      PROVE  Rest(t, FALSE, thr[t].ast)
  BY <1>2, BecomeThread, Zenon DEF Rest
<1>3. CASE Become(t, [thr[t] EXCEPT !.pc = "bl", !.bl = N, !.restart = FALSE])
  <2> DEFINE r == [thr[t] EXCEPT !.pc = "bl", !.bl = N, !.restart = FALSE]
  <2>1. r.restart = FALSE /\ r.ast = thr[t].ast
    BY <1>1, Zenon DEF ThreadState
  <2> QED
    BY <1>2, <1>3, <2>1, Zenon
<1>4. CASE Become(t, [thr[t] EXCEPT !.pc = pc, !.restart = FALSE])
  <2> DEFINE r == [thr[t] EXCEPT !.pc = pc, !.restart = FALSE]
  <2>1. r.restart = FALSE /\ r.ast = thr[t].ast
    BY <1>1, Zenon DEF ThreadState
  <2> QED
    BY <1>2, <1>4, <2>1, Zenon
<1>5. CASE Become(t, [thr[t] EXCEPT !.pc = "cp", !.rescan = TRUE, !.restart = FALSE,
                             !.cp = @ \cup Grantable])
  <2> DEFINE r == [thr[t] EXCEPT !.pc = "cp", !.rescan = TRUE, !.restart = FALSE, !.cp = @ \cup Grantable]
  <2>1. r.restart = FALSE /\ r.ast = thr[t].ast
    BY <1>1, Zenon DEF ThreadState
  <2> QED
    BY <1>2, <1>5, <2>1, Zenon
<1>6. CASE Become(t, [thr[t] EXCEPT !.pc = "bl", !.bl = N, !.rescan = TRUE,
                             !.restart = FALSE, !.cp = @ \cup Grantable])
  <2> DEFINE r == [thr[t] EXCEPT !.pc = "bl", !.bl = N, !.rescan = TRUE, !.restart = FALSE, !.cp = @ \cup Grantable]
  <2>1. r.restart = FALSE /\ r.ast = thr[t].ast
    BY <1>1, Zenon DEF ThreadState
  <2> QED
    BY <1>2, <1>6, <2>1, Zenon
<1> QED
  BY <1>3, <1>4, <1>5, <1>6, Zenon

\* An AST is answered; an enqueue is over.
LEMMA NotedRest ==
    ASSUME SInv, NEW t \in Thread, NEW c, NEW b, NEW pc, NEW a
    PROVE  /\ Become(t, [thr[t] EXCEPT !.out = @ \ {c}, !.restart = b]) => Rest(t, b, thr[t].ast)
           /\ Become(t, [thr[t] EXCEPT !.pc = pc, !.ast = a]) => Rest(t, thr[t].restart, a)
<1>1. thr[t] \in ThreadState
  BY ThreadTyped
<1>2. ASSUME Become(t, [thr[t] EXCEPT !.out = @ \ {c}, !.restart = b])
      PROVE  Rest(t, b, thr[t].ast)
  <2> DEFINE r == [thr[t] EXCEPT !.out = @ \ {c}, !.restart = b]
  <2>1. r.restart = b /\ r.ast = thr[t].ast
    BY <1>1, Zenon DEF ThreadState
  <2> HIDE DEF r
  <2> QED
    BY <1>2, <2>1, BecomeThread, Zenon DEF Rest, r
<1>3. ASSUME Become(t, [thr[t] EXCEPT !.pc = pc, !.ast = a])
      PROVE  Rest(t, thr[t].restart, a)
  <2> DEFINE r == [thr[t] EXCEPT !.pc = pc, !.ast = a]
  <2>1. r.restart = thr[t].restart /\ r.ast = a
    BY <1>1, Zenon DEF ThreadState
  <2> HIDE DEF r
  <2> QED
    BY <1>3, <2>1, BecomeThread, Zenon DEF Rest, r
<1> QED
  BY <1>2, <1>3, Zenon

-----------------------------------------------------------------------------
(* What holds besides.                                                     *)

\* The invariants proved before, for a system without faults.
Sound == NoFaults /\ TypeInv /\ QInv /\ ProtocolInv /\ NoneEvicted

\* Nobody is evicted, so what is destroyed its client has cancelled.
LEMMA SoundFacts ==
    ASSUME Sound
    PROVE  /\ SInv /\ CInv /\ \A l \in Lock : Alive(l)
           /\ granted \cap destroyed = {} /\ waiting \cap destroyed = {}
           /\ \A l \in destroyed : cl[l].st = "gone"
           /\ \A l \in Lock : SeenGranted(l) => l \in granted \cup destroyed
           /\ \A l \in Lock : Fresh(l) => l \notin granted \cup waiting \cup destroyed
           /\ \A t \in Thread : ThreadPhase(thr[t])
           /\ WorkListed /\ NeverConverted /\ CancelUnused /\ NoLbug
<1>1. SInv /\ CInv
  BY DEF Sound, TypeInv, TypeOK, SInv, CInv
<1>2. \A l \in Lock : Alive(l)
  BY Zenon DEF Sound, NoneEvicted, Alive
<1>3. LeftoversUnfinished /\ FreshUntouched /\ GrantsKept /\ \A t \in Thread : ThreadPhase(thr[t])
  BY Zenon DEF Sound, ProtocolInv, EvictionInv, CoherenceInv
<1>4. granted \subseteq Lock /\ waiting \subseteq Lock /\ destroyed \subseteq Lock
  BY <1>1 DEF SInv, ServerTypeOK
<1>5. granted \cap destroyed = {} /\ waiting \cap destroyed = {}
  BY <1>2, <1>3, <1>4 DEF LeftoversUnfinished
<1>6. \A l \in destroyed : cl[l].st = "gone"
  <2>1. \A l \in destroyed : l \in Lock /\ Ended(l)
    BY <1>2, <1>3, <1>4, Zenon DEF GrantsKept
  <2> QED
    BY <2>1, Zenon DEF Ended, Sound, NoneEvicted
<1>7. \A l \in Lock : SeenGranted(l) => l \in granted \cup destroyed
  BY <1>2, <1>3, Zenon DEF GrantsKept
<1>8. \A l \in Lock : Fresh(l) => l \notin granted \cup waiting \cup destroyed
  <2>1. \A l \in Lock : Fresh(l) => l \notin granted \cup waiting /\ l \notin destroyed
    BY <1>2, <1>3, Zenon DEF FreshUntouched
  <2> QED
    BY <2>1
<1>9. WorkListed /\ NeverConverted /\ CancelUnused /\ NoLbug
  BY Zenon DEF Sound, ProtocolInv, AssertionInv, NoFaults
<1> QED
  BY <1>1, <1>2, <1>3, <1>5, <1>6, <1>7, <1>8, <1>9, Zenon

-----------------------------------------------------------------------------
(* The queues.                                                             *)

ServerQ == QueuePlaces /\ HeadBlocked /\ CallsForWaiter /\ BlockersCalledBack

SameQueues ==
    /\ granted' = granted /\ waiting' = waiting /\ ahead' = ahead /\ bits' = bits
    /\ destroyed' = destroyed /\ astSent' = astSent

\* A thread that rescans will find what can be granted.
LEMMA RescanPending ==
    ASSUME NEW t \in Thread, WillRescan(t)'
    PROVE  HeadBlocked'
BY Zenon DEF HeadBlocked

\* Where the queues stay, it is enough that some thread still rescans.
LEMMA StillBlocked ==
    ASSUME SameQueues, HeadBlocked,
           (\E u \in Thread : WillRescan(u)) => \E u \in Thread : WillRescan(u)'
    PROVE  HeadBlocked'
<1>1. \A l \in Lock : /\ Head(l)' <=> Head(l)
                      /\ Conflicts(l, granted)' = Conflicts(l, granted)
  BY DEF SameQueues, Head, Conflicts
<1> QED
  BY <1>1, Zenon DEF HeadBlocked

\* Only thread t steps.
LEMMA MovesRescan ==
    ASSUME NEW t \in Thread, \A u \in Thread : u # t => thr'[u] = thr[u],
           cbpending' = cbpending, WillRescan(t) => WillRescan(t)'
    PROVE  (\E u \in Thread : WillRescan(u)) => \E u \in Thread : WillRescan(u)'
<1>1. \A u \in Thread : u # t => (WillRescan(u)' <=> WillRescan(u))
  BY Zenon DEF WillRescan, Unfinished, Enqueues
<1> QED
  BY <1>1, Zenon

\* The steps that leave the queues alone.
LEMMA StillQueue ==
    ASSUME SInv, ServerQ, SameQueues, HeadBlocked', cbpending' \subseteq granted \cup destroyed,
           \A u \in Thread : /\ thr'[u].bl \subseteq thr[u].bl
                             /\ thr'[u].bl # {} => /\ thr'[u].rescan = thr[u].rescan
                                                   /\ thr'[u].lock = thr[u].lock,
           \A u \in Thread : ~thr'[u].rescan /\ thr'[u].pc \in {"bl", "blfin", "finish"} =>
                               thr'[u].lock \in granted \cup waiting \cup destroyed
    PROVE  ServerQ'
<1>1. QueuePlaces /\ CallsForWaiter /\ BlockersCalledBack
  BY DEF ServerQ
<1>2. QueuePlaces'
  BY <1>1 DEF QueuePlaces, SameQueues
<1>3. /\ \A l : Head(l)' <=> Head(l)
      /\ \A l : Conflicts(l, granted)' = Conflicts(l, granted)
      /\ \A l : {c \in Lock \ {l} : InodebitsConflict(Mode[c], bits'[c], Mode[l], bits'[l])}
                   = Conflicts(l, Lock)
  BY DEF SameQueues, Head, Conflicts
<1>4. CallsForWaiter'
  <2> SUFFICES ASSUME NEW u \in Thread, NEW c \in thr'[u].bl
               PROVE  /\ ~thr'[u].rescan => c \in Conflicts(thr[u].lock, Lock)
                      /\ thr'[u].rescan =>
                           /\ c \in granted \cup destroyed
                           /\ c \in granted => \E l \in Lock : Head(l) /\ c \in Conflicts(l, granted)
    <3>1. \A v \in Thread : \A c \in thr'[v].bl : thr'[v].lock = thr[v].lock
      OBVIOUS
    <3> QED
      BY <1>3, <3>1, Zenon DEF CallsForWaiter, SameQueues, Conflicts
  <2>1. c \in thr[u].bl /\ thr'[u].rescan = thr[u].rescan
    OBVIOUS
  <2> QED
    BY <1>1, <2>1, Zenon DEF CallsForWaiter
<1>5. BlockersCalledBack'
  <2>1. \A l : QueueAhead(l)' = QueueAhead(l)
    BY DEF SameQueues, QueueAhead
  <2>2. \A l : Conflicts(l, granted \cup QueueAhead(l))' = Conflicts(l, granted \cup QueueAhead(l))
    BY <2>1 DEF SameQueues, Conflicts
  <2> QED
    BY <1>1, <2>2, Zenon DEF BlockersCalledBack, SameQueues
<1> QED
  BY <1>2, <1>4, <1>5 DEF ServerQ

\* ... when one thread moves on.
LEMMA MovesQueue ==
    ASSUME SInv, ServerQ, SameQueues, cbpending' = cbpending,
           NEW t \in Thread, NEW pc, NEW bl, NEW cp, NEW out, NEW rescan, NEW rc,
           Moves(t, pc, bl, cp, out, rescan, rc),
           bl \subseteq thr[t].bl, bl # {} => rescan = thr[t].rescan,
           ~rescan /\ pc \in {"bl", "blfin", "finish"} =>
             thr[t].lock \in granted \cup waiting \cup destroyed,
           WillRescan(t) => WillRescan(t)'
    PROVE  ServerQ'
<1>1. /\ \A u \in Thread : u # t => thr'[u] = thr[u]
      /\ thr'[t].pc = pc /\ thr'[t].bl = bl /\ thr'[t].rescan = rescan /\ thr'[t].lock = thr[t].lock
  BY DEF Moves
<1>2. QueuePlaces /\ HeadBlocked
  BY DEF ServerQ
<1>3. HeadBlocked'
  BY <1>1, <1>2, MovesRescan, StillBlocked
<1>4. cbpending' \subseteq granted \cup destroyed
  BY <1>2 DEF QueuePlaces
<1>5. \A u \in Thread : /\ thr'[u].bl \subseteq thr[u].bl
                        /\ thr'[u].bl # {} => /\ thr'[u].rescan = thr[u].rescan
                                              /\ thr'[u].lock = thr[u].lock
  BY <1>1
<1>6. \A u \in Thread : ~thr'[u].rescan /\ thr'[u].pc \in {"bl", "blfin", "finish"} =>
                          thr'[u].lock \in granted \cup waiting \cup destroyed
  <2>1. \A u \in Thread : ~thr[u].rescan /\ thr[u].pc \in {"bl", "blfin", "finish"} =>
                          thr[u].lock \in granted \cup waiting \cup destroyed
    BY <1>2, Zenon DEF QueuePlaces
  <2> QED
    BY <1>1, <2>1
<1> QED
  BY <1>3, <1>4, <1>5, <1>6, StillQueue, Zenon

\* A free thread rescans nothing.
LEMMA IdleRests ==
    ASSUME NEW t \in Thread, thr[t] = Idle
    PROVE  ~WillRescan(t) /\ ~thr[t].rescan /\ thr[t].pc = "idle" /\ thr[t].bl = {} /\ thr[t].ctx = "none"
BY IdleFields DEF WillRescan, Unfinished, Enqueues

\* ... or one thread starts or ends.
LEMMA TurnsQueue ==
    ASSUME SInv, ServerQ, SameQueues, cbpending' = cbpending,
           NEW t \in Thread, \A u \in Thread : u # t => thr'[u] = thr[u],
           thr'[t].bl = {}, thr'[t].pc \notin {"bl", "blfin", "finish"},
           WillRescan(t) => WillRescan(t)'
    PROVE  ServerQ'
<1>1. QueuePlaces /\ HeadBlocked
  BY DEF ServerQ
<1>2. HeadBlocked'
  BY <1>1, MovesRescan, StillBlocked
<1>3. cbpending' \subseteq granted \cup destroyed
  BY <1>1 DEF QueuePlaces
<1>4. \A u \in Thread : /\ thr'[u].bl \subseteq thr[u].bl
                        /\ thr'[u].bl # {} => /\ thr'[u].rescan = thr[u].rescan
                                              /\ thr'[u].lock = thr[u].lock
  OBVIOUS
<1>5. \A u \in Thread : ~thr'[u].rescan /\ thr'[u].pc \in {"bl", "blfin", "finish"} =>
                          thr'[u].lock \in granted \cup waiting \cup destroyed
  <2>1. \A u \in Thread : ~thr[u].rescan /\ thr[u].pc \in {"bl", "blfin", "finish"} =>
                          thr[u].lock \in granted \cup waiting \cup destroyed
    BY <1>1, Zenon DEF QueuePlaces
  <2> QED
    BY <2>1, Zenon
<1> QED
  BY <1>2, <1>3, <1>4, <1>5, StillQueue

\* An enqueue that has not failed is over: unless its lock is called back, the
\* queue is reprocessed.
LEMMA EnqueueFinishes ==
    ASSUME Sound, EnqueuesSucceed, NEW t \in Thread, EnqueueFinish(t)
    PROVE  /\ thr[t].pc = "finish" /\ thr[t].ctx = "enq" /\ ~thr[t].rescan
           /\ SameQueues /\ cbpending' = cbpending /\ failed' = failed /\ net' = net
           /\ \E pc \in {"cp", "reproc"} :
                /\ thr[t].lock \notin cbpending => pc = "reproc"
                /\ Moves(t, pc, thr[t].bl, thr[t].cp, thr[t].out, thr[t].rescan, thr[t].rc)
           /\ Rest(t, thr[t].restart, thr[t].lock \in astSent)
           /\ tmr' = tmr \/ AddWaiting(thr[t].lock)
<1> DEFINE l == thr[t].lock
<1>1. SInv /\ thr[t].pc = "finish" /\ ThreadPhase(thr[t])
  BY SoundFacts DEF EnqueueFinish
<1>2. thr[t].ctx = "enq" /\ ~thr[t].rescan
  BY <1>1, Zenon DEF ThreadPhase
<1>3. thr[t].rc # "error"
  BY <1>1, <1>2 DEF EnqueuesSucceed
<1>4. ~ExportGone(l)
  BY DEF ExportGone, Sound, NoneEvicted
<1>5. /\ Become(t, [thr[t] EXCEPT !.pc = IF l \in cbpending THEN "cp" ELSE "reproc",
                                  !.ast = (l \in astSent)])
      /\ SameQueues /\ cbpending' = cbpending /\ failed' = failed /\ net' = net
      /\ tmr' = tmr \/ AddWaiting(l)
  BY <1>3, <1>4, Zenon DEF EnqueueFinish, SameQueues, astState, exports
<1> DEFINE pc == IF l \in cbpending THEN "cp" ELSE "reproc"
<1>6. /\ Moves(t, pc, thr[t].bl, thr[t].cp, thr[t].out, thr[t].rescan, thr[t].rc)
      /\ Rest(t, thr[t].restart, l \in astSent)
  BY <1>1, <1>5, DoneMoves, NotedRest, Zenon
<1>7. pc \in {"cp", "reproc"} /\ (l \notin cbpending => pc = "reproc")
  OBVIOUS
<1> HIDE DEF pc
<1> QED
  BY <1>1, <1>2, <1>5, <1>6, <1>7, Zenon

\* ldlm_lock_cancel of a lock that does not wait, by a thread that goes on to
\* reprocess the queue.
LEMMA CancelQueue ==
    ASSUME Sound, ServerQ, NEW l \in Lock, l \notin waiting, CancelLock(l),
           ahead' = ahead, bits' = bits, astSent' = astSent, cbpending' = cbpending,
           NEW t \in Thread, NEW pc \in {thr[t].pc, "reproc"}, NEW out,
           Moves(t, pc, thr[t].bl, thr[t].cp, out, thr[t].rescan, thr[t].rc),
           WillRescan(t)'
    PROVE  ServerQ'
<1>1. /\ granted' = granted \ {l} /\ waiting' = waiting /\ destroyed' = destroyed \cup {l}
  BY DEF CancelLock
<1>2. QueuePlaces /\ CallsForWaiter /\ BlockersCalledBack
  BY DEF ServerQ
<1>3. HeadBlocked'
  BY RescanPending
<1>4. \A u \in Thread : /\ thr'[u].bl = thr[u].bl /\ thr'[u].rescan = thr[u].rescan
                        /\ thr'[u].lock = thr[u].lock
                        /\ thr'[u].pc \in {thr[u].pc, "reproc"}
  BY DEF Moves
<1>5. QueuePlaces'
  BY <1>1, <1>2, <1>4 DEF QueuePlaces
<1>6. /\ \A k : Head(k)' <=> Head(k)
      /\ \A k : Conflicts(k, granted)' = Conflicts(k, granted) \ {l}
      /\ \A k : {c \in Lock \ {k} : InodebitsConflict(Mode[c], bits'[c], Mode[k], bits'[k])}
                   = Conflicts(k, Lock)
  BY <1>1 DEF Head, Conflicts
<1>7. CallsForWaiter'
  <2> SUFFICES ASSUME NEW u \in Thread, NEW c \in thr[u].bl
               PROVE  /\ ~thr[u].rescan => c \in Conflicts(thr[u].lock, Lock)
                      /\ thr[u].rescan =>
                           /\ c \in granted' \cup destroyed'
                           /\ c \in granted' =>
                                \E k \in Lock : Head(k)' /\ c \in Conflicts(k, granted)'
    BY <1>4, <1>6, Zenon DEF CallsForWaiter, Conflicts
  <2>1. /\ ~thr[u].rescan => c \in Conflicts(thr[u].lock, Lock)
        /\ thr[u].rescan =>
             /\ c \in granted \cup destroyed
             /\ c \in granted => \E k \in Lock : Head(k) /\ c \in Conflicts(k, granted)
    BY <1>2, Zenon DEF CallsForWaiter
  <2> QED
    BY <1>1, <1>6, <2>1, Zenon
<1>8. BlockersCalledBack'
  <2>1. \A k : QueueAhead(k)' = QueueAhead(k)
    BY <1>1 DEF QueueAhead
  <2>2. \A k : Conflicts(k, granted \cup QueueAhead(k))' \subseteq Conflicts(k, granted \cup QueueAhead(k))
    BY <1>1, <2>1 DEF Conflicts
  <2> QED
    BY <1>1, <1>2, <2>2, Zenon DEF BlockersCalledBack
<1> QED
  BY <1>3, <1>5, <1>7, <1>8 DEF ServerQ

\* A lock that its client has given up does not wait.
LEMMA GoneNotWaiting ==
    ASSUME ClientsCooperate, NEW l \in Lock, cl[l].st = "gone"
    PROVE  l \notin waiting
BY Zenon DEF ClientsCooperate, Known

\* There is one lock at the head of the queue.
LEMMA OneHead ==
    ASSUME Sound, NEW l, NEW k, Head(l), Head(k)
    PROVE  l = k
BY DEF Sound, QInv, WaitingOrdered, Head

\* An enqueue that is being handled has not been cancelled.
LEMMA EnqueueLives ==
    ASSUME Sound, EnqueuesSucceed, NEW t \in Thread, thr[t].ctx = "enq"
    PROVE  thr[t].lock \in Lock \ destroyed /\ cl[thr[t].lock].st = "enq"
<1>1. thr[t].lock \in Lock
  BY SoundFacts, ThreadTyped DEF ThreadLocks
<1>2. cl[thr[t].lock].st = "enq"
  BY <1>1, Zenon DEF EnqueuesSucceed, Unanswered, Enqueues
<1>3. thr[t].lock \notin destroyed
  BY <1>2, SoundFacts
<1> QED
  BY <1>1, <1>2, <1>3

\* The policy runs for a lock that is on no list, or waits.
Policy(t, l) ==
    /\ ProcessEnqueue(t, l) /\ l = thr[t].lock
    /\ \/ thr[t].pc = "policy"
       \/ /\ thr[t].pc = "bl" /\ thr[t].bl = {} /\ ~thr[t].rescan
          /\ l \notin destroyed \cup granted
    /\ UNCHANGED <<bits, created, destroyed, blAstRun, cbpending, tmr, exports, net>>

\* What a step of an enqueue is: the policy, or the end of the callbacks.
LEMMA EnqueueSteps ==
    ASSUME Sound, EnqueuesSucceed, NEW t \in Thread, LockEnqueue(t) \/ EnqueueBlDone(t)
    PROVE  \/ Policy(t, thr[t].lock)
           \/ /\ thr[t].pc = "bl" /\ ~thr[t].rescan /\ thr[t].bl = {}
              /\ SameQueues /\ cbpending' = cbpending /\ failed' = failed /\ net' = net
              /\ tmr' = tmr
              /\ \E rc \in {"blocked", "granted"} :
                   /\ rc = "granted" => thr[t].lock \in granted
                   /\ Moves(t, "finish", thr[t].bl, thr[t].cp, thr[t].out, thr[t].rescan, rc)
              /\ Rest(t, thr[t].restart, thr[t].ast)
<1>1. CASE LockEnqueue(t)
  BY <1>1, Zenon DEF LockEnqueue, Policy
<1>2. CASE EnqueueBlDone(t)
  <2>1. thr[t].pc = "bl" /\ ~thr[t].rescan /\ thr[t].bl = {}
    BY <1>2 DEF EnqueueBlDone, AstWorkDone
  <2>2. thr[t].ctx = "enq"
    BY <2>1, SoundFacts, Zenon DEF ThreadPhase
  <2>3. thr[t].lock \notin destroyed
    BY <2>2, EnqueueLives
  <2>4. CASE thr[t].restart /\ thr[t].lock \notin destroyed \cup granted
    BY <1>2, <2>1, <2>4, Zenon DEF EnqueueBlDone, Policy
  <2>5. CASE ~thr[t].restart \/ thr[t].lock \in destroyed \cup granted
    <3> DEFINE rc == IF ~thr[t].restart THEN "blocked" ELSE "granted"
    <3>1. /\ Become(t, [thr[t] EXCEPT !.pc = "finish", !.rc = rc])
          /\ SameQueues /\ cbpending' = cbpending /\ failed' = failed /\ net' = net
          /\ tmr' = tmr
      BY <1>2, <2>3, <2>5 DEF EnqueueBlDone, SameQueues, exports
    <3>2. rc \in {"blocked", "granted"} /\ (rc = "granted" => thr[t].lock \in granted)
      BY <2>3, <2>5
    <3> HIDE DEF rc
    <3>3. /\ Moves(t, "finish", thr[t].bl, thr[t].cp, thr[t].out, thr[t].rescan, rc)
          /\ Rest(t, thr[t].restart, thr[t].ast)
      BY <3>1, FinishMoves, GoOnRest, SoundFacts, Zenon
    <3> QED
      BY <2>1, <3>1, <3>2, <3>3
  <2> QED
    BY <2>4, <2>5, Zenon
<1> QED
  BY <1>1, <1>2, Zenon

\* The lock the policy looks at is neither granted nor destroyed, and if it
\* does not wait yet it is ahead of no lock that does.
LEMMA PolicyLock ==
    ASSUME Sound, EnqueuesSucceed, QueuePlaces, NEW t \in Thread, NEW l, Policy(t, l)
    PROVE  /\ l \in Lock /\ Unfinished(t, l) /\ thr[t].bl = {} /\ thr[t].ctx = "enq"
           /\ l \notin granted \cup destroyed /\ l \notin cbpending
           /\ l \notin waiting => \A w \in waiting : l \notin ahead[w]
<1>1. ThreadPhase(thr[t])
  BY SoundFacts
<1>2. thr[t].ctx = "enq" /\ ~thr[t].rescan /\ thr[t].pc \in {"policy", "bl"} /\ thr[t].bl = {}
  BY <1>1 DEF Policy, ThreadPhase
<1>3. l \in Lock /\ l \notin destroyed
  BY <1>2, EnqueueLives DEF Policy
<1>4. Unfinished(t, l)
  BY <1>2 DEF Unfinished, Enqueues, Policy
<1>5. CASE thr[t].pc = "policy"
  <2>1. Fresh(l)
    BY <1>2, <1>5, Zenon DEF Fresh, Enqueues, Policy
  <2>2. l \notin granted \cup waiting \cup destroyed
    BY <1>3, <2>1, SoundFacts
  <2> QED
    BY <1>2, <1>3, <1>4, <2>2 DEF QueuePlaces
<1>6. CASE thr[t].pc = "bl" /\ l \notin destroyed \cup granted
  <2>1. l \in waiting
    BY <1>2, <1>6, Zenon DEF QueuePlaces, Policy
  <2> QED
    BY <1>2, <1>3, <1>4, <1>6, <2>1 DEF QueuePlaces
<1> QED
  BY <1>5, <1>6 DEF Policy

\* What the policy does.
LEMMA PolicyEffect ==
    ASSUME Sound, EnqueuesSucceed, QueuePlaces, NEW t \in Thread, NEW l, Policy(t, l)
    PROVE  \/ /\ Conflicts(l, granted \cup QueueAhead(l)) = {}
              /\ granted' = granted \cup {l} /\ waiting' = waiting \ {l}
              /\ ahead' = ahead /\ astSent' = astSent
              /\ Moves(t, "finish", {}, thr[t].cp, thr[t].out, FALSE, "granted")
           \/ /\ Conflicts(l, granted \cup QueueAhead(l)) # {}
              /\ granted' = granted /\ waiting' = waiting \cup {l}
              /\ \A k \in Lock : ahead'[k] = IF k = l THEN QueueAhead(l) ELSE ahead[k]
              /\ astSent' = astSent \cup Conflicts(l, granted \cup QueueAhead(l))
              /\ \E N : /\ N \subseteq Conflicts(l, granted \cup QueueAhead(l))
                        /\ astSent' \ astSent \subseteq N
                        /\ Moves(t, "bl", N, thr[t].cp, thr[t].out, FALSE, thr[t].rc)
<1> DEFINE C == Conflicts(l, granted \cup QueueAhead(l))
<1>1. SInv /\ l \in Lock /\ thr[t].bl = {} /\ Unfinished(t, l) /\ ProcessEnqueue(t, l)
  BY SoundFacts, PolicyLock, Zenon DEF Policy
<1>5. {l} \ destroyed = {l}
  BY PolicyLock, Zenon
<1>2. ~thr[t].rescan /\ thr[t].rescan \in BOOLEAN
  BY <1>1, ThreadTyped DEF Unfinished, ThreadState
<1>3. CASE C = {}
  <2>1. /\ granted' = granted \cup {l} /\ waiting' = waiting \ {l}
        /\ ahead' = ahead /\ astSent' = astSent
        /\ Become(t, [thr[t] EXCEPT !.pc = "finish", !.rc = "granted"])
    BY <1>1, <1>3, <1>5, Zenon DEF ProcessEnqueue
  <2>2. Moves(t, "finish", thr[t].bl, thr[t].cp, thr[t].out, thr[t].rescan, "granted")
    BY <1>1, <2>1, FinishMoves, Zenon
  <2>3. thr[t].rescan = FALSE
    BY <1>2
  <2> HIDE DEF C
  <2> QED
    BY <1>1, <1>3, <2>1, <2>2, <2>3, Zenon DEF C
<1>4. CASE C # {}
  <2> DEFINE N == ToCallBack(C)
  <2>1. /\ granted' = granted /\ waiting' = waiting \cup {l}
        /\ ahead' = [ahead EXCEPT ![l] = QueueAhead(l)]
        /\ astSent' = astSent \cup N
        /\ Become(t, [thr[t] EXCEPT !.pc = "bl", !.bl = N, !.restart = FALSE])
    BY <1>1, <1>4, <1>5, Zenon DEF ProcessEnqueue, AddBlWork
  <2>2. N = C \ astSent
    BY DEF ToCallBack
  <2>3. ahead \in [Lock -> SUBSET Lock]
    BY <1>1 DEF SInv, ServerTypeOK
  <2>4. \A k \in Lock : ahead'[k] = IF k = l THEN QueueAhead(l) ELSE ahead[k]
    BY <2>1, <2>3
  <2> HIDE DEF C, N
  <2>5. Moves(t, "bl", N, thr[t].cp, thr[t].out, thr[t].rescan, thr[t].rc)
    BY <1>1, <2>1, BlockMoves, Zenon
  <2>6. thr[t].rescan = FALSE
    BY <1>2
  <2>7. astSent' = astSent \cup C /\ N \subseteq C /\ astSent' \ astSent \subseteq N
    BY <2>1, <2>2
  <2> QED
    BY <1>4, <2>1, <2>4, <2>5, <2>6, <2>7, Zenon DEF C
<1> QED
  BY <1>3, <1>4, Zenon

\* Conflicts are mutual.
LEMMA ConflictMutual ==
    ASSUME NEW l \in Lock, NEW k \in Lock, NEW S, NEW T, k \in S, l \in T, k \in Conflicts(l, T \cup S)
    PROVE  l \in Conflicts(k, T)
BY LockConflictSymmetric DEF Conflicts

\* Where the union of the lists grows, places are kept.
LEMMA PlacesKept ==
    ASSUME QueuePlaces, NEW t \in Thread, \A u \in Thread : u # t => thr'[u] = thr[u],
           granted \cup waiting \cup destroyed \subseteq granted' \cup waiting' \cup destroyed',
           granted' \cap waiting' = {}, cbpending' = cbpending,
           granted \cup destroyed \subseteq granted' \cup destroyed',
           \A l \in waiting' : ahead'[l] \subseteq granted \cup waiting \cup destroyed,
           ~thr'[t].rescan => thr'[t].lock \in granted' \cup waiting' \cup destroyed'
    PROVE  QueuePlaces'
<1>1. /\ cbpending \subseteq granted \cup destroyed
      /\ \A u \in Thread : ~thr[u].rescan /\ thr[u].pc \in {"bl", "blfin", "finish"} =>
           thr[u].lock \in granted \cup waiting \cup destroyed
  BY Zenon DEF QueuePlaces
<1>2. \A u \in Thread : ~thr'[u].rescan /\ thr'[u].pc \in {"bl", "blfin", "finish"} =>
           thr'[u].lock \in granted' \cup waiting' \cup destroyed'
  BY <1>1
<1>3. cbpending' \subseteq granted' \cup destroyed'
  BY <1>1
<1>4. \A l \in waiting' : ahead'[l] \subseteq granted' \cup waiting' \cup destroyed'
  OBVIOUS
<1> QED
  BY <1>2, <1>3, <1>4, Zenon DEF QueuePlaces

\* What the other threads call back they call back for the head of the queue,
\* which stays the head as long as they do.
LEMMA CallsKept ==
    ASSUME SInv, CallsForWaiter, bits' = bits, NEW t \in Thread,
           \A u \in Thread : u # t => thr'[u] = thr[u],
           granted \cup destroyed \subseteq granted' \cup destroyed',
           \A c \in granted \cup destroyed : c \in granted' => c \in granted,
           \A k \in Lock, c \in granted \cap granted' : Head(k) /\ c \in Conflicts(k, granted) => Head(k)',
           \A c \in thr'[t].bl :
             /\ ~thr'[t].rescan => c \in Conflicts(thr'[t].lock, Lock)
             /\ thr'[t].rescan => c \in granted' /\ \E k \in Lock : Head(k)' /\ c \in Conflicts(k, granted')
    PROVE  CallsForWaiter'
<1>1. /\ \A k, S : {c \in S \ {k} : InodebitsConflict(Mode[c], bits'[c], Mode[k], bits'[k])}
                   = Conflicts(k, S)
  BY DEF Conflicts
<1> SUFFICES ASSUME NEW u \in Thread, NEW c \in thr'[u].bl
             PROVE  /\ ~thr'[u].rescan => c \in Conflicts(thr'[u].lock, Lock)
                    /\ thr'[u].rescan =>
                         /\ c \in granted' \cup destroyed'
                         /\ c \in granted' =>
                              \E k \in Lock : Head(k)' /\ c \in Conflicts(k, granted')
  BY <1>1, Zenon DEF CallsForWaiter, Conflicts
<1>2. CASE u = t
  BY <1>2
<1>3. CASE u # t
  <2>1. c \in thr[u].bl /\ thr'[u] = thr[u]
    BY <1>3
  <2>2. /\ ~thr[u].rescan => c \in Conflicts(thr[u].lock, Lock)
        /\ thr[u].rescan =>
             /\ c \in granted \cup destroyed
             /\ c \in granted => \E k \in Lock : Head(k) /\ c \in Conflicts(k, granted)
    BY <2>1, Zenon DEF CallsForWaiter
  <2>3. ASSUME thr[u].rescan, c \in granted'
        PROVE  \E k \in Lock : Head(k)' /\ c \in Conflicts(k, granted')
    <3>1. c \in granted
      BY <2>2, <2>3
    <3>2. PICK k \in Lock : Head(k) /\ c \in Conflicts(k, granted)
      BY <2>2, <2>3, <3>1
    <3>3. Head(k)'
      BY <2>3, <3>1, <3>2
    <3>4. c \in Conflicts(k, granted')
      BY <2>3, <3>2 DEF Conflicts
    <3> QED
      BY <3>3, <3>4
  <2> QED
    BY <2>1, <2>2, <2>3
<1> QED
  BY <1>2, <1>3, Zenon

\* Where no client falls silent and no lock is converted, nobody is evicted.
LEMMA NoEviction ==
    ASSUME Sound
    PROVE  /\ \A t \in Thread : ~ConvertLocked(t)
           /\ \A t \in Thread : \A l \in Lock :
                /\ ~ExportCancelLock(t, l) /\ ~AstTimeout(t, l)
                /\ \A b : ~HandleConvert(t, l, b)
           /\ \A l \in Lock : ~TimerExpire(l) /\ ~ExpiredEvict(l) /\ ~ExpiredProlong(l)
           /\ \A c \in Client : ~PingEvict(c) /\ ~StaleExportDone(c) /\ ~LearnEviction(c)
<1>1. NeverConverted /\ Flaky = {} /\ failed = {}
  BY SoundFacts DEF Sound, NoFaults, NoneEvicted
<1>2. \A l \in Lock : tmr[l] # "expired" /\ tmr[l] # "failed"
  BY DEF Sound, NoneEvicted
<1>3. \A t \in Thread : ~ConvertLocked(t)
  BY <1>1, Zenon DEF ConvertLocked, NeverConverted
<1>4. \A t \in Thread : \A l \in Lock : ~ExportCancelLock(t, l) /\ ~AstTimeout(t, l)
  BY <1>1 DEF ExportCancelLock, AstTimeout
<1>5. \A t \in Thread : \A l \in Lock : \A b : ~HandleConvert(t, l, b)
  <2>1. \A l \in Lock : \A b : ConvReq(l, b).type = "convert"
    BY DEF ConvReq
  <2>2. \A l \in Lock : \A b : ConvReq(l, b) \notin net
    BY <1>1, <2>1 DEF NeverConverted
  <2> QED
    BY <2>2, Zenon DEF HandleConvert
<1>6. \A l \in Lock : ~TimerExpire(l) /\ ~ExpiredEvict(l) /\ ~ExpiredProlong(l)
  BY <1>1, <1>2 DEF TimerExpire, ExpiredEvict, ExpiredProlong
<1>7. \A c \in Client : ~PingEvict(c) /\ ~StaleExportDone(c) /\ ~LearnEviction(c)
  BY <1>1 DEF PingEvict, StaleExportDone, LearnEviction
<1> QED
  BY <1>3, <1>4, <1>5, <1>6, <1>7, Zenon

\* No step of the server breaks the invariant of the queues.
LEMMA ServerNextQueue ==
    ASSUME Sound, EnqueuesSucceed, ClientsCooperate, ServerQ, ServerNext
    PROVE  ServerQ'
\* A new enqueue is taken up.
<1>1. ASSUME NEW t \in Thread, NEW l \in Lock, HandleEnqueue(t, l)
      PROVE  ServerQ'
  <2> USE <1>1
  <2>1. SInv /\ Owner[l] \notin failed
    BY SoundFacts DEF Alive
  <2>2. SameQueues /\ cbpending' = cbpending /\ thr[t] = Idle
    BY DEF HandleEnqueue, SameQueues, queues, astState
  <2>3. /\ \A u \in Thread : u # t => thr'[u] = thr[u]
        /\ thr'[t].pc = "hash" /\ thr'[t].bl = {}
    BY <2>1, HandleEnqueueMoves, Zenon
  <2>4. ~WillRescan(t)
    BY <2>2, IdleRests
  <2> QED
    BY <2>1, <2>2, <2>3, <2>4, TurnsQueue, Zenon
\* The lock enters the lock hash.
<1>2. ASSUME NEW t \in Thread, ExportAddLock(t)
      PROVE  ServerQ'
  <2> USE <1>2
  <2>1. SInv /\ thr[t].pc = "hash" /\ SameQueues /\ cbpending' = cbpending
    BY SoundFacts DEF ExportAddLock, SameQueues, queues, astState
  <2>2. /\ Moves(t, "policy", thr[t].bl, thr[t].cp, thr[t].out, thr[t].rescan, thr[t].rc)
        /\ Rest(t, thr[t].restart, thr[t].ast)
    BY <2>1, ExportAddLockMoves, GoOnRest, Zenon DEF ExportAddLock
  <2>3. WillRescan(t) => WillRescan(t)'
    BY <2>1, <2>2, Zenon DEF WillRescan, Unfinished, Enqueues, Moves, Rest
  <2> QED
    BY <2>1, <2>2, <2>3, MovesQueue
\* The blocking AST of a lock is over.
<1>3. ASSUME NEW t \in Thread, BlAstFini(t)
      PROVE  ServerQ'
  <2> USE <1>3
  <2>1. SInv /\ thr[t].pc = "blfin" /\ SameQueues /\ cbpending' = cbpending
    BY SoundFacts DEF BlAstFini, SameQueues, queues, astState
  <2>2. /\ Moves(t, "bl", thr[t].bl, thr[t].cp, thr[t].out, thr[t].rescan, thr[t].rc)
        /\ Rest(t, thr[t].restart, thr[t].ast)
    BY <2>1, BlAstFiniMoves, GoOnRest, Zenon DEF BlAstFini
  <2>3. WillRescan(t) => WillRescan(t)'
    BY <2>1, <2>2, Zenon DEF WillRescan, Unfinished, Enqueues, Moves, Rest
  <2>4. ~thr[t].rescan => thr[t].lock \in granted \cup waiting \cup destroyed
    BY <2>1 DEF ServerQ, QueuePlaces
  <2> QED
    BY <2>1, <2>2, <2>3, <2>4, MovesQueue
\* The blocking ASTs of a scan are answered: a lock that was gone makes the
\* scan start again.
<1>4. ASSUME NEW t \in Thread, ReprocessBlDone(t)
      PROVE  ServerQ'
  <2> USE <1>4
  <2> DEFINE pc == IF thr[t].restart THEN "reproc" ELSE "cp"
  <2>1. SInv /\ thr[t].pc = "bl" /\ thr[t].rescan /\ SameQueues /\ cbpending' = cbpending
    BY SoundFacts DEF ReprocessBlDone, AstWorkDone, SameQueues, queues, astState
  <2>2. /\ Moves(t, pc, thr[t].bl, thr[t].cp, thr[t].out, thr[t].rescan, thr[t].rc)
        /\ pc \in {"reproc", "cp"}
    BY <2>1, ScanBlDoneMoves, Zenon DEF ReprocessBlDone
  <2>3. WillRescan(t) => WillRescan(t)'
    BY <2>1, <2>2, Zenon DEF WillRescan, Unfinished, Enqueues, Moves
  <2> HIDE DEF pc
  <2> QED
    BY <2>1, <2>2, <2>3, MovesQueue, Zenon
\* A completion AST is sent.
<1>5. ASSUME NEW t \in Thread, NEW l \in Lock, CpAstSend(t, l)
      PROVE  ServerQ'
  <2> USE <1>5
  <2> DEFINE o == IF Owner[l] \notin failed THEN thr[t].out \cup {l} ELSE thr[t].out
  <2>1. SInv /\ thr[t].pc = "cp" /\ SameQueues /\ cbpending' = cbpending
    BY SoundFacts DEF CpAstSend, SameQueues, queues, astState
  <2>2. Become(t, [thr[t] EXCEPT !.cp = @ \ {l}, !.out = o])
    BY DEF CpAstSend
  <2> HIDE DEF o
  <2>3. /\ Moves(t, thr[t].pc, thr[t].bl, thr[t].cp \ {l}, o, thr[t].rescan, thr[t].rc)
        /\ Rest(t, thr[t].restart, thr[t].ast)
    BY <2>1, <2>2, CpAstSendMoves, GoOnRest, Zenon
  <2>4. WillRescan(t) => WillRescan(t)'
    BY <2>1, <2>3, Zenon DEF WillRescan, Unfinished, Enqueues, Moves, Rest
  <2> QED
    BY <2>1, <2>3, <2>4, MovesQueue, Zenon
\* All completion ASTs are answered.
<1>6. ASSUME NEW t \in Thread, CpDone(t)
      PROVE  ServerQ'
  <2> USE <1>6
  <2>1. SInv /\ thr[t].pc = "cp" /\ SameQueues /\ cbpending' = cbpending
    BY SoundFacts DEF CpDone, AstWorkDone, SameQueues, queues, astState
  <2>2. CASE thr[t].restart
    <3>1. Moves(t, "reproc", thr[t].bl, thr[t].cp, thr[t].out, thr[t].rescan, thr[t].rc)
      BY <2>1, <2>2, GotoMoves DEF CpDone
    <3>2. WillRescan(t)'
      BY <3>1, Zenon DEF WillRescan, Moves
    <3> QED
      BY <2>1, <3>1, <3>2, MovesQueue
  <2>3. CASE ~thr[t].restart
    <3>1. thr'[t] = Idle /\ \A u \in Thread : u # t => thr'[u] = thr[u]
      BY <2>1, <2>3, BecomeThread DEF CpDone
    <3>2. thr'[t].bl = {} /\ thr'[t].pc = "idle"
      BY <3>1, IdleFields
    <3>3. ~WillRescan(t)
      BY <2>1, <2>3, Zenon DEF WillRescan, Unfinished
    <3> QED
      BY <2>1, <3>1, <3>2, <3>3, TurnsQueue
  <2> QED
    BY <2>2, <2>3
\* ldlm_handle_enqueue0 after ldlm_lock_enqueue.
<1>7. ASSUME NEW t \in Thread, EnqueueFinish(t)
      PROVE  ServerQ'
  <2> USE <1>7
  <2>1. SInv /\ thr[t].pc = "finish" /\ SameQueues /\ cbpending' = cbpending
    BY SoundFacts, EnqueueFinishes
  <2>2. PICK pc \in {"cp", "reproc"} :
          /\ thr[t].lock \notin cbpending => pc = "reproc"
          /\ Moves(t, pc, thr[t].bl, thr[t].cp, thr[t].out, thr[t].rescan, thr[t].rc)
    BY EnqueueFinishes
  <2>3. WillRescan(t) => WillRescan(t)'
    <3>1. Rest(t, thr[t].restart, thr[t].lock \in astSent)
      BY EnqueueFinishes
    <3> QED
      BY <2>1, <2>2, <3>1, Zenon DEF WillRescan, Unfinished, Moves, Rest
  <2> QED
    BY <2>1, <2>2, <2>3, MovesQueue
\* ldlm_cb_interpret.
<1>8. ASSUME NEW t \in Thread, NEW c \in Lock, NEW rc \in AstRc,
             AstReply(t, c, rc)
      PROVE  ServerQ'
  <2> USE <1>8
  <2> DEFINE gone == rc = "einval" /\ c \in thr[t].out
             b == thr[t].restart \/ gone
  <2>1. /\ SInv /\ ahead' = ahead /\ bits' = bits /\ astSent' = astSent /\ cbpending' = cbpending
        /\ Become(t, [thr[t] EXCEPT !.out = @ \ {c}, !.restart = b])
    BY SoundFacts DEF AstReply, astState
  <2>2. /\ Moves(t, thr[t].pc, thr[t].bl, thr[t].cp, thr[t].out \ {c}, thr[t].rescan, thr[t].rc)
        /\ Rest(t, b, thr[t].ast)
    <3> HIDE DEF b
    <3> QED
      BY <2>1, AnsweredMoves, NotedRest, Zenon
  <2>3. CASE gone
    <3>1. CancelLock(c)
      BY <2>3 DEF AstReply
    <3>2. AstRep(c, rc, t) \in net /\ AstRep(c, rc, t).lock = c /\ AstRep(c, rc, t).type = "astrep"
          /\ AstRep(c, rc, t).rc = "einval"
      BY <2>3 DEF AstReply, AstRep
    <3>3. Ended(c)
      <4>1. GrantsKept /\ Alive(c)
        BY SoundFacts, Zenon DEF Sound, ProtocolInv, CoherenceInv
      <4> QED
        BY <3>2, <4>1, Zenon DEF GrantsKept
    <3>4. cl[c].st = "gone"
      BY <3>3, Zenon DEF Ended, Sound, NoneEvicted
    <3>5. c \notin waiting
      BY <3>4, GoneNotWaiting
    <3>6. WillRescan(t)'
      BY <2>2, <2>3, Zenon DEF WillRescan, Rest
    <3> QED
      BY <2>1, <2>2, <3>1, <3>5, <3>6, CancelQueue
  <2>4. CASE ~gone
    <3>1. SameQueues
      BY <2>1, <2>4 DEF AstReply, SameQueues
    <3>2. WillRescan(t) => WillRescan(t)'
      BY <2>1, <2>2, <2>4, Zenon DEF WillRescan, Unfinished, Enqueues, Moves, Rest
    <3>3. ~thr[t].rescan /\ thr[t].pc \in {"bl", "blfin", "finish"} =>
               thr[t].lock \in granted \cup waiting \cup destroyed
      BY DEF ServerQ, QueuePlaces
    <3> QED
      BY <2>1, <2>2, <3>1, <3>2, <3>3, MovesQueue
  <2> QED
    BY <2>3, <2>4
\* ldlm_handle_cancel.
<1>9. ASSUME NEW t \in Thread, NEW l \in Lock, HandleCancel(t, l)
      PROVE  ServerQ'
  <2> USE <1>9
  <2>1. /\ SInv /\ thr[t] = Idle /\ ahead' = ahead /\ bits' = bits /\ astSent' = astSent
        /\ cbpending' = cbpending
    BY SoundFacts DEF HandleCancel, astState
  <2>2. CASE CancelLock(l) /\ Goto(t, "reproc")
    <3>1. CancelReq(l) \in net /\ CancelReq(l).lock = l /\ CancelReq(l).type = "cancel"
      BY DEF HandleCancel, CancelReq
    <3>2. cl[l].st = "gone"
      <4>1. GrantsKept /\ Alive(l)
        BY SoundFacts, Zenon DEF Sound, ProtocolInv, CoherenceInv
      <4> QED
        BY <3>1, <4>1, Zenon DEF GrantsKept
    <3>3. l \notin waiting
      BY <3>2, GoneNotWaiting
    <3>4. Moves(t, "reproc", thr[t].bl, thr[t].cp, thr[t].out, thr[t].rescan, thr[t].rc)
      BY <2>1, <2>2, GotoMoves
    <3>5. WillRescan(t)'
      BY <3>4, Zenon DEF WillRescan, Moves
    <3> QED
      BY <2>1, <2>2, <3>3, <3>4, <3>5, CancelQueue
  <2>3. CASE UNCHANGED <<granted, waiting, destroyed, tmr, thr>>
    <3>1. SameQueues /\ thr' = thr
      BY <2>1, <2>3 DEF SameQueues
    <3>2. WillRescan(t) => WillRescan(t)'
      BY <2>1, <3>1, Zenon DEF WillRescan, Unfinished, Enqueues
    <3>3. thr'[t].bl = {} /\ thr'[t].pc = "idle"
      BY <2>1, <3>1, IdleRests
    <3> QED
      BY <2>1, <3>1, <3>2, <3>3, TurnsQueue
  <2> QED
    BY <2>2, <2>3, Zenon DEF HandleCancel
\* A blocking AST is sent.  It may be for a lock whose enqueue is being handled
\* and will not reprocess the queue because of it; but then another thread will,
\* or the head of the queue is blocked by that lock.
<1>10. ASSUME NEW t \in Thread, NEW c \in Lock, BlAstSend(t, c)
       PROVE  ServerQ'
  <2> USE <1>10
  <2> DEFINE send == c \notin destroyed /\ c \in granted
             rpc == send /\ Owner[c] \notin failed /\ blocking[c] # NoLock
             o == IF rpc THEN thr[t].out \cup {c} ELSE thr[t].out
             w == thr[t].lock
  <2>1. /\ SInv /\ SameQueues /\ thr[t].pc = "bl" /\ c \in thr[t].bl
        /\ cbpending' = IF send THEN cbpending \cup {c} ELSE cbpending
        /\ Become(t, [thr[t] EXCEPT !.pc = "blfin", !.bl = @ \ {c}, !.cur = c, !.out = o])
    BY SoundFacts, Zenon DEF BlAstSend, SameQueues, queues
  <2>2. /\ Moves(t, "blfin", thr[t].bl \ {c}, thr[t].cp, o, thr[t].rescan, thr[t].rc)
        /\ Rest(t, thr[t].restart, thr[t].ast)
    <3> HIDE DEF o
    <3> QED
      BY <2>1, BlAstSendMoves, GoOnRest, Zenon
  <2>3. ~thr[t].rescan => w \in granted \cup waiting \cup destroyed
    BY <2>1 DEF ServerQ, QueuePlaces
  <2>4. CASE ~send
    <3>1. cbpending' = cbpending
      BY <2>1, <2>4
    <3>2. WillRescan(t) => WillRescan(t)'
      BY <2>1, <2>2, <3>1, Zenon DEF WillRescan, Unfinished, Enqueues, Moves, Rest
    <3> HIDE DEF o
    <3> QED
      BY <2>1, <2>2, <2>3, <3>1, <3>2, MovesQueue, Zenon
  <2>5. CASE send
    <3>1. cbpending' = cbpending \cup {c}
      BY <2>1, <2>5
    <3>2. QueuePlaces /\ HeadBlocked /\ CallsForWaiter
      BY DEF ServerQ
    <3>3. HeadBlocked'
      <4>1. CASE ~thr[t].rescan
        <5>1. c \in Conflicts(w, Lock)
          BY <2>1, <3>2, <4>1, Zenon DEF CallsForWaiter
        <5>2. c # w /\ InodebitsConflict(Mode[c], bits[c], Mode[w], bits[w])
          BY <5>1 DEF Conflicts
        <5>3. thr[t].ctx = "enq"
          BY <2>1, <4>1, SoundFacts, Zenon DEF ThreadPhase
        <5>4. w \notin destroyed
          BY <5>3, EnqueueLives
        <5>5. w \notin granted
          BY <2>5, <5>2 DEF Sound, QInv, GrantedCompatible
        <5>6. w \notin cbpending'
          BY <3>1, <3>2, <5>2, <5>4, <5>5, Zenon DEF QueuePlaces
        <5>7. WillRescan(t)'
          BY <2>2, <4>1, <5>3, <5>6, Zenon DEF WillRescan, Unfinished, Enqueues, Moves
        <5> QED
          BY <5>7, RescanPending
      <4>2. CASE thr[t].rescan
        <5>1. PICK k \in Lock : Head(k) /\ c \in Conflicts(k, granted)
          BY <2>1, <2>5, <3>2, <4>2, Zenon DEF CallsForWaiter
        <5>2. \A l \in Lock : Head(l)' => Head(l) /\ Conflicts(l, granted)' = Conflicts(l, granted)
          BY <2>1 DEF SameQueues, Head, Conflicts
        <5>3. \A l \in Lock : Head(l)' => c \in Conflicts(l, granted)'
          BY <5>1, <5>2, OneHead, Zenon
        <5> QED
          BY <5>3 DEF HeadBlocked
      <4> QED
        BY <4>1, <4>2
    <3>4. cbpending' \subseteq granted \cup destroyed
      BY <2>5, <3>1, <3>2 DEF QueuePlaces
    <3>5. \A u \in Thread : /\ thr'[u].bl \subseteq thr[u].bl
                            /\ thr'[u].bl # {} => /\ thr'[u].rescan = thr[u].rescan
                                                  /\ thr'[u].lock = thr[u].lock
      BY <2>2, Zenon DEF Moves
    <3>6. \A u \in Thread : ~thr'[u].rescan /\ thr'[u].pc \in {"bl", "blfin", "finish"} =>
                              thr'[u].lock \in granted \cup waiting \cup destroyed
      <4>1. \A u \in Thread : ~thr[u].rescan /\ thr[u].pc \in {"bl", "blfin", "finish"} =>
                              thr[u].lock \in granted \cup waiting \cup destroyed
        BY <3>2, Zenon DEF QueuePlaces
      <4> QED
        BY <2>2, <2>3, <4>1, Zenon DEF Moves
    <3> QED
      BY <2>1, <3>3, <3>4, <3>5, <3>6, StillQueue
  <2> QED
    BY <2>4, <2>5
\* The policy grants a lock.
<1>11. ASSUME NEW t \in Thread, NEW l, Policy(t, l),
              Conflicts(l, granted \cup QueueAhead(l)) = {},
              granted' = granted \cup {l}, waiting' = waiting \ {l},
              ahead' = ahead, astSent' = astSent,
              Moves(t, "finish", {}, thr[t].cp, thr[t].out, FALSE, "granted")
       PROVE  ServerQ'
  <2> USE <1>11
  <2>1. QueuePlaces /\ CallsForWaiter /\ BlockersCalledBack /\ SInv
    BY SoundFacts DEF ServerQ
  <2>2. /\ l \in Lock /\ Unfinished(t, l) /\ l = thr[t].lock
        /\ l \notin granted \cup destroyed /\ l \notin cbpending
    BY <2>1, PolicyLock, Zenon DEF Policy
  <2>3. bits' = bits /\ destroyed' = destroyed /\ cbpending' = cbpending
    BY DEF Policy
  <2>4. /\ \A u \in Thread : u # t => thr'[u] = thr[u]
        /\ thr'[t].bl = {} /\ thr'[t].lock = l /\ thr'[t].pc = "finish" /\ ~thr'[t].rescan
        /\ thr'[t].ctx = thr[t].ctx
    BY <2>2 DEF Moves
  <2>5. granted \subseteq Lock /\ waiting \subseteq Lock /\ ahead \in [Lock -> SUBSET Lock]
    BY <2>1 DEF SInv, ServerTypeOK
  <2>6. HeadBlocked'
    <3>1. WillRescan(t)'
      BY <2>2, <2>3, <2>4, Zenon DEF WillRescan, Unfinished, Enqueues
    <3> QED
      BY <3>1, RescanPending
  <2>7. QueuePlaces'
    <3>1. granted' \cap waiting' = {} /\ \A k \in waiting' : ahead'[k] \subseteq granted \cup waiting \cup destroyed
      BY <2>1 DEF QueuePlaces
    <3> QED
      BY <2>1, <2>3, <2>4, <3>1, PlacesKept
  <2>8. CallsForWaiter'
    <3>1. \A k \in Lock, c \in granted \cap granted' : Head(k) /\ c \in Conflicts(k, granted) => Head(k)'
      <4> SUFFICES ASSUME NEW k \in Lock, NEW c \in granted, Head(k), c \in Conflicts(k, granted)
                   PROVE  Head(k)'
        OBVIOUS
      <4>1. k # l
        <5>1. SUFFICES ASSUME k = l PROVE FALSE
          OBVIOUS
        <5>2. c \in Conflicts(l, granted \cup QueueAhead(l))
          BY <5>1 DEF Conflicts
        <5> QED
          BY <5>2
      <4> QED
        BY <4>1 DEF Head
    <3>2. \A c \in granted \cup destroyed : c \in granted' => c \in granted
      BY <2>2
    <3> QED
      BY <2>1, <2>3, <2>4, <3>1, <3>2, CallsKept, Zenon
  <2>9. BlockersCalledBack'
    <3> SUFFICES ASSUME NEW w \in waiting', NEW c \in Conflicts(w, granted \cup QueueAhead(w))'
                 PROVE  c \in astSent
      BY DEF BlockersCalledBack
    <3>1. w \in waiting /\ w # l /\ w \in Lock
      BY <2>5
    <3>2. QueueAhead(w)' \subseteq QueueAhead(w)
      BY <3>1 DEF QueueAhead
    <3>3. c \in granted \cup {l} \cup QueueAhead(w) /\ c # w
          /\ InodebitsConflict(Mode[c], bits[c], Mode[w], bits[w])
      BY <2>3, <3>2, Zenon DEF Conflicts
    <3>4. Conflicts(w, granted \cup QueueAhead(w)) \subseteq astSent
      BY <2>1, <3>1, Zenon DEF BlockersCalledBack
    <3>5. CASE c \in granted \cup QueueAhead(w)
      BY <3>3, <3>4, <3>5, Zenon DEF Conflicts
    <3>6. CASE c = l /\ w \in QueueAhead(l)
      <4>1. InodebitsConflict(Mode[w], bits[w], Mode[l], bits[l])
        BY <2>2, <3>1, <3>3, <3>6, LockConflictSymmetric, Zenon
      <4>2. w \in Conflicts(l, granted \cup QueueAhead(l))
        BY <3>1, <3>6, <4>1, Zenon DEF Conflicts
      <4> QED
        BY <4>2
    <3>7. CASE c = l /\ w \notin QueueAhead(l)
      <4>1. l \in waiting /\ w \notin ahead[l]
        BY <3>1, <3>7 DEF QueueAhead
      <4>2. l \in ahead[w]
        BY <3>1, <4>1 DEF Sound, QInv, WaitingOrdered
      <4>3. c \in QueueAhead(w)
        BY <3>1, <3>7, <4>1, <4>2, Zenon DEF QueueAhead
      <4> QED
        BY <3>5, <4>3
    <3> QED
      BY <3>3, <3>5, <3>6, <3>7
  <2> QED
    BY <2>6, <2>7, <2>8, <2>9, Zenon DEF ServerQ
\* The policy puts a lock on the waiting list, if it is not there yet, and calls
\* back all it conflicts with.
<1>12. ASSUME NEW t \in Thread, NEW l, Policy(t, l),
              granted' = granted, waiting' = waiting \cup {l},
              \A k \in Lock : ahead'[k] = IF k = l THEN QueueAhead(l) ELSE ahead[k],
              astSent' = astSent \cup Conflicts(l, granted \cup QueueAhead(l)),
              NEW N, N \subseteq Conflicts(l, granted \cup QueueAhead(l)),
              Moves(t, "bl", N, thr[t].cp, thr[t].out, FALSE, thr[t].rc)
       PROVE  ServerQ'
  <2> USE <1>12
  <2>1. QueuePlaces /\ CallsForWaiter /\ BlockersCalledBack /\ SInv
    BY SoundFacts DEF ServerQ
  <2>2. /\ l \in Lock /\ Unfinished(t, l) /\ l = thr[t].lock
        /\ l \notin granted \cup destroyed /\ l \notin cbpending
        /\ l \notin waiting => \A w \in waiting : l \notin ahead[w]
    BY <2>1, PolicyLock, Zenon DEF Policy
  <2>3. bits' = bits /\ destroyed' = destroyed /\ cbpending' = cbpending
    BY DEF Policy
  <2>4. /\ \A u \in Thread : u # t => thr'[u] = thr[u]
        /\ thr'[t].bl = N /\ thr'[t].lock = l /\ thr'[t].pc = "bl" /\ ~thr'[t].rescan
        /\ thr'[t].ctx = thr[t].ctx
    BY <2>2, Zenon DEF Moves
  <2>5. granted \subseteq Lock /\ waiting \subseteq Lock /\ ahead \in [Lock -> SUBSET Lock]
    BY <2>1 DEF SInv, ServerTypeOK
  <2>6. HeadBlocked'
    <3>1. WillRescan(t)'
      BY <2>2, <2>3, <2>4, Zenon DEF WillRescan, Unfinished, Enqueues
    <3> QED
      BY <3>1, RescanPending
  <2>7. QueueAhead(l) \subseteq waiting
    BY DEF QueueAhead
  <2>8. QueuePlaces'
    <3>1. granted' \cap waiting' = {} 
      BY <2>1, <2>2 DEF QueuePlaces
    <3>2. \A k \in waiting' : ahead'[k] \subseteq granted \cup waiting \cup destroyed
      BY <2>1, <2>2, <2>5, <2>7, SMTT(30) DEF QueuePlaces
    <3> QED
      BY <2>1, <2>3, <2>4, <3>1, <3>2, PlacesKept, Zenon
  <2>9. CallsForWaiter'
    <3>1. \A k \in Lock, c \in granted \cap granted' : Head(k) /\ c \in Conflicts(k, granted) => Head(k)'
      <4>1. \A k \in Lock : Head(k) => Head(k)'
        BY <2>2, <2>7 DEF Head, QueueAhead
      <4> QED
        BY <4>1, Zenon
    <3>2. \A c \in thr'[t].bl : c \in Conflicts(thr'[t].lock, Lock)
      BY <2>4, <2>5, <2>7, Zenon DEF Conflicts
    <3> QED
      BY <2>1, <2>3, <2>4, <3>1, <3>2, CallsKept, Zenon
  <2>10. BlockersCalledBack'
    <3> SUFFICES ASSUME NEW w \in waiting', NEW c \in Conflicts(w, granted \cup QueueAhead(w))'
                 PROVE  c \in astSent'
      BY Zenon DEF BlockersCalledBack
    <3>1. c \in granted \cup QueueAhead(w)' /\ c # w
          /\ InodebitsConflict(Mode[c], bits[c], Mode[w], bits[w])
      BY <2>3, Zenon DEF Conflicts
    <3>2. CASE w = l
      <4>1. QueueAhead(l)' = QueueAhead(l)
        BY <2>2, <2>7, Zenon DEF QueueAhead
      <4> QED
        BY <3>1, <3>2, <4>1, Zenon DEF Conflicts
    <3>3. CASE w # l
      <4>1. w \in waiting /\ w \in Lock
        BY <2>5, <3>3
      <4>2. QueueAhead(w)' = QueueAhead(w)
        BY <2>2, <3>3, <4>1 DEF QueueAhead
      <4>3. Conflicts(w, granted \cup QueueAhead(w)) \subseteq astSent
        BY <2>1, <4>1, Zenon DEF BlockersCalledBack
      <4> QED
        BY <3>1, <4>2, <4>3, Zenon DEF Conflicts
    <3> QED
      BY <3>2, <3>3
  <2> QED
    BY <2>6, <2>8, <2>9, <2>10 DEF ServerQ
\* ldlm_lock_enqueue and ldlm_handle_conflict_lock.
<1>13. ASSUME NEW t \in Thread, LockEnqueue(t) \/ EnqueueBlDone(t)
       PROVE  ServerQ'
  <2> USE <1>13
  <2>1. CASE Policy(t, thr[t].lock)
    <3>1. QueuePlaces
      BY DEF ServerQ
    <3>2. CASE /\ Conflicts(thr[t].lock, granted \cup QueueAhead(thr[t].lock)) = {}
               /\ granted' = granted \cup {thr[t].lock} /\ waiting' = waiting \ {thr[t].lock}
               /\ ahead' = ahead /\ astSent' = astSent
               /\ Moves(t, "finish", {}, thr[t].cp, thr[t].out, FALSE, "granted")
      BY <2>1, <3>2, <1>11, Zenon
    <3>3. ASSUME NEW N, N \subseteq Conflicts(thr[t].lock, granted \cup QueueAhead(thr[t].lock)),
                 granted' = granted, waiting' = waiting \cup {thr[t].lock},
                 \A k \in Lock : ahead'[k] = IF k = thr[t].lock THEN QueueAhead(thr[t].lock) ELSE ahead[k],
                 astSent' = astSent \cup Conflicts(thr[t].lock, granted \cup QueueAhead(thr[t].lock)),
                 Moves(t, "bl", N, thr[t].cp, thr[t].out, FALSE, thr[t].rc)
          PROVE  ServerQ'
      BY <2>1, <3>3, <1>12, Zenon
    <3> QED
      BY <2>1, <3>1, <3>2, <3>3, PolicyEffect, Zenon
  <2>2. CASE ~Policy(t, thr[t].lock)
    <3>1. /\ thr[t].pc = "bl" /\ ~thr[t].rescan /\ SInv
          /\ SameQueues /\ cbpending' = cbpending
          /\ Rest(t, thr[t].restart, thr[t].ast)
      BY <2>2, EnqueueSteps, SoundFacts
    <3>2. PICK rc : Moves(t, "finish", thr[t].bl, thr[t].cp, thr[t].out, thr[t].rescan, rc)
      BY <2>2, EnqueueSteps
    <3>3. WillRescan(t) => WillRescan(t)'
      BY <3>1, <3>2, Zenon DEF WillRescan, Unfinished, Enqueues, Moves, Rest
    <3>4. thr[t].lock \in granted \cup waiting \cup destroyed
      BY <3>1 DEF ServerQ, QueuePlaces
    <3> QED
      BY <3>1, <3>2, <3>3, <3>4, MovesQueue
  <2> QED
    BY <2>1, <2>2, Zenon
\* A scan grants the locks up to the first that is blocked, which is then the
\* head of the queue.
<1>14. ASSUME NEW t \in Thread, Reprocess(t)
       PROVE  ServerQ'
  <2> USE <1>14
  <2>1. QueuePlaces /\ CallsForWaiter /\ BlockersCalledBack /\ SInv
    BY SoundFacts DEF ServerQ
  <2>2. /\ granted' = granted \cup Grantable /\ waiting' = waiting \ Grantable
        /\ ahead' = ahead /\ bits' = bits /\ destroyed' = destroyed /\ cbpending' = cbpending
    BY Zenon DEF Reprocess
  <2>3. /\ granted \subseteq Lock /\ waiting \subseteq Lock /\ ahead \in [Lock -> SUBSET Lock]
        /\ waiting \cap destroyed = {} /\ Grantable \subseteq waiting
    BY <2>1, SoundFacts, Zenon DEF SInv, ServerTypeOK, Grantable
  <2>4. \A l \in Grantable : /\ Conflicts(l, granted \cup (ahead[l] \cap waiting)) = {}
                             /\ \A m \in ahead[l] \cap waiting :
                                  Conflicts(m, granted \cup (ahead[m] \cap waiting)) = {}
    BY DEF Grantable
  <2>5. \A l \in waiting \ Grantable :
          \/ Conflicts(l, granted \cup (ahead[l] \cap waiting)) # {}
          \/ \E m \in ahead[l] \cap waiting : Conflicts(m, granted \cup (ahead[m] \cap waiting)) # {}
    BY Zenon DEF Grantable
  <2>6. \A l \in waiting \ Grantable : ahead[l] \cap waiting \subseteq Grantable =>
          Conflicts(l, granted') # {}
    BY <2>2, <2>4, <2>5 DEF Conflicts
  <2>7. HeadBlocked'
    <3>1. \A l \in Lock : Head(l)' => Conflicts(l, granted') # {}
      BY <2>2, <2>6, Zenon DEF Head
    <3>2. \A l \in Lock : Conflicts(l, granted)' = Conflicts(l, granted')
      BY <2>2 DEF Conflicts
    <3> QED
      BY <3>1, <3>2 DEF HeadBlocked
  <2>8. /\ \A u \in Thread : u # t => thr'[u] = thr[u]
        /\ thr'[t].rescan
        /\ \/ thr'[t].bl = {} /\ astSent' = astSent
           \/ \E l \in FirstBlocked : /\ thr'[t].bl \subseteq Conflicts(l, granted')
                                      /\ astSent' = astSent \cup Conflicts(l, granted')
    <3>1. thr[t].bl = {}
      BY SoundFacts, Zenon DEF Reprocess, ThreadPhase
    <3>2. CASE /\ Become(t, [thr[t] EXCEPT !.pc = "cp", !.rescan = TRUE, !.restart = FALSE,
                               !.cp = @ \cup Grantable])
               /\ astSent' = astSent
      <4>1. Moves(t, "cp", thr[t].bl, thr[t].cp \cup Grantable, thr[t].out, TRUE, thr[t].rc)
        BY <2>1, <3>2, ScanEndMoves, Zenon
      <4> QED
        BY <3>1, <3>2, <4>1 DEF Moves
    <3>3. ASSUME NEW l \in FirstBlocked, NEW N, N = ToCallBack(Conflicts(l, granted \cup Grantable)),
                 AddBlWork(N, l),
                 Become(t, [thr[t] EXCEPT !.pc = "bl", !.bl = N, !.rescan = TRUE,
                               !.restart = FALSE, !.cp = @ \cup Grantable])
          PROVE  /\ \A u \in Thread : u # t => thr'[u] = thr[u]
                 /\ thr'[t].rescan
                 /\ \E k \in FirstBlocked : /\ thr'[t].bl \subseteq Conflicts(k, granted')
                                            /\ astSent' = astSent \cup Conflicts(k, granted')
      <4>1. Moves(t, "bl", N, thr[t].cp \cup Grantable, thr[t].out, TRUE, thr[t].rc)
        BY <2>1, <3>3, ScanBlockMoves, Zenon
      <4>2. N \subseteq Conflicts(l, granted') /\ astSent' = astSent \cup Conflicts(l, granted')
        BY <2>2, <3>3, Zenon DEF ToCallBack, AddBlWork
      <4> QED
        BY <4>1, <4>2 DEF Moves
    <3> QED
      BY <3>2, <3>3, Zenon DEF Reprocess
  <2>9. QueuePlaces'
    <3>1. granted' \cap waiting' = {} /\ \A k \in waiting' : ahead'[k] \subseteq granted \cup waiting \cup destroyed
      BY <2>1, <2>2, <2>3 DEF QueuePlaces
    <3> QED
      BY <2>1, <2>2, <2>3, <2>8, <3>1, PlacesKept
  <2>10. CallsForWaiter'
    <3>1. \A k \in Lock, c \in granted \cap granted' : Head(k) /\ c \in Conflicts(k, granted) => Head(k)'
      <4> SUFFICES ASSUME NEW k \in Lock, NEW c \in granted, Head(k), c \in Conflicts(k, granted)
                   PROVE  Head(k)'
        OBVIOUS
      <4>1. c \in Conflicts(k, granted \cup (ahead[k] \cap waiting))
        BY DEF Conflicts
      <4>2. k \notin Grantable
        BY <2>4, <4>1
      <4> QED
        BY <2>2, <4>2 DEF Head
    <3>2. \A c \in granted \cup destroyed : c \in granted' => c \in granted
      BY <2>2, <2>3
    <3>3. \A c \in thr'[t].bl : c \in granted' /\ \E k \in Lock : Head(k)' /\ c \in Conflicts(k, granted')
      <4>1. \A k \in FirstBlocked : k \in Lock /\ Head(k)'
        BY <2>2, <2>3 DEF FirstBlocked, Head
      <4>2. \A k \in FirstBlocked : Conflicts(k, granted') \subseteq granted'
        BY DEF Conflicts
      <4> QED
        BY <2>8, <4>1, <4>2
    <3> QED
      BY <2>1, <2>2, <2>8, <3>1, <3>2, <3>3, CallsKept, Zenon
  <2>11. BlockersCalledBack'
    <3> SUFFICES ASSUME NEW w \in waiting', NEW c \in Conflicts(w, granted \cup QueueAhead(w))'
                 PROVE  c \in astSent'
      BY DEF BlockersCalledBack
    <3>1. w \in waiting /\ w \notin Grantable /\ w \in Lock
      BY <2>2, <2>3
    <3>2. QueueAhead(w)' \subseteq QueueAhead(w)
      BY <2>2, <3>1 DEF QueueAhead
    <3>3. c \in granted \cup Grantable \cup QueueAhead(w) /\ c # w
          /\ InodebitsConflict(Mode[c], bits[c], Mode[w], bits[w])
      BY <2>2, <3>2 DEF Conflicts
    <3>4. Conflicts(w, granted \cup QueueAhead(w)) \subseteq astSent /\ astSent \subseteq astSent'
      BY <2>1, <2>8, <3>1 DEF BlockersCalledBack
    <3>5. CASE c \in granted \cup QueueAhead(w)
      BY <3>3, <3>4, <3>5 DEF Conflicts
    <3>6. CASE c \in Grantable /\ c \notin QueueAhead(w)
      <4>1. c \in waiting /\ c \in Lock /\ c \notin ahead[w]
        BY <2>3, <3>1, <3>6 DEF QueueAhead
      <4>2. w \in ahead[c]
        BY <3>1, <3>3, <4>1 DEF Sound, QInv, WaitingOrdered
      <4>3. InodebitsConflict(Mode[w], bits[w], Mode[c], bits[c])
        BY <3>1, <3>3, <4>1, LockConflictSymmetric
      <4>4. w \in Conflicts(c, granted \cup (ahead[c] \cap waiting))
        BY <3>1, <3>3, <4>2, <4>3, Zenon DEF Conflicts
      <4> QED
        BY <2>4, <3>6, <4>4
    <3> QED
      BY <3>3, <3>5, <3>6
  <2> QED
    BY <2>7, <2>9, <2>10, <2>11 DEF ServerQ
<1>15. ASSUME NEW t \in Thread, \/ ExportAddLock(t) \/ BlAstFini(t) \/ ReprocessBlDone(t) \/ CpDone(t)
      PROVE  ServerQ'
  BY <1>15, <1>2, <1>3, <1>4, <1>6, Zenon
<1>16. ASSUME NEW t \in Thread, \/ LockEnqueue(t) \/ EnqueueBlDone(t) \/ EnqueueFinish(t) \/ Reprocess(t)
      PROVE  ServerQ'
  BY <1>16, <1>13, <1>7, <1>14, Zenon
<1>17. ASSUME NEW t \in Thread, NEW l \in Lock, BlAstSend(t, l) \/ CpAstSend(t, l)
      PROVE  ServerQ'
  BY <1>17, <1>10, <1>5, Zenon
<1>18. ASSUME NEW t \in Thread, NEW l \in Lock, HandleEnqueue(t, l) \/ HandleCancel(t, l)
      PROVE  ServerQ'
  BY <1>18, <1>1, <1>9, Zenon
<1>19. ASSUME NEW t \in Thread, NEW l \in Lock, NEW rc \in AstRc, AstReply(t, l, rc)
      PROVE  ServerQ'
  BY <1>19, <1>8, Zenon
<1> QED
  BY <1>15, <1>16, <1>17, <1>18, <1>19, NoEviction, Zenon
     DEF ServerNext, ServerWork, ThreadStep, HandleRequest, AstAnswered

LEMMA StillQuiet ==
    ASSUME SInv, UNCHANGED svars, ServerQ
    PROVE  ServerQ'
<1>1. SameQueues /\ thr' = thr /\ cbpending' = cbpending
  BY DEF SameQueues, svars, queues, astState
<1>2. QueuePlaces /\ HeadBlocked
  BY DEF ServerQ
<1>3. HeadBlocked'
  <2>1. \A t \in Thread : WillRescan(t) => WillRescan(t)'
    BY <1>1, Zenon DEF WillRescan, Unfinished, Enqueues
  <2> QED
    BY <1>1, <1>2, <2>1, StillBlocked, Zenon
<1>4. cbpending' \subseteq granted \cup destroyed
  BY <1>1, <1>2 DEF QueuePlaces
<1>5. \A t \in Thread : ~thr'[t].rescan /\ thr'[t].pc \in {"bl", "blfin", "finish"} =>
                          thr'[t].lock \in granted \cup waiting \cup destroyed
  BY <1>1, <1>2, Zenon DEF QueuePlaces
<1>6. \A t \in Thread : /\ thr'[t].bl \subseteq thr[t].bl
                         /\ thr'[t].bl # {} => /\ thr'[t].rescan = thr[t].rescan
                                               /\ thr'[t].lock = thr[t].lock
  BY <1>1
<1> QED
  BY <1>1, <1>3, <1>4, <1>5, <1>6, StillQueue, Zenon
=============================================================================

------------------------- MODULE LdlmCoherenceProofs ------------------------
(***************************************************************************)
(* No step of the lock server or of a client breaks CoherenceInv, by which a*)
(* client and the server agree on what is granted, or AssertionInv, by which*)
(* no assertion fails where locks are not converted.                       *)
(***************************************************************************)
EXTENDS LdlmEvictionProofs

-----------------------------------------------------------------------------
(* What a step of the server must show for CoherenceInv.                   *)

\* What a thread holds as granted it held before, or it is granted now.
ThreadCoheres(u) ==
    /\ \A k \in thr'[u].cp : k \in thr[u].cp \/ k \in granted'
    /\ thr'[u].ctx = "enq" /\ thr'[u].rc = "granted" =>
         \/ thr[u].ctx = "enq" /\ thr[u].rc = "granted" /\ thr'[u].lock = thr[u].lock
         \/ thr'[u].lock \in granted' \cup destroyed'
    /\ thr'[u].pc = "finish" /\ thr'[u].rc = "error" =>
         \/ thr[u].pc = "finish" /\ thr[u].rc = "error" /\ thr'[u].lock = thr[u].lock
         \/ thr'[u].lock \in destroyed'

\* No convert starts.
NoConvert ==
    /\ \A u \in Thread : thr'[u].pc = "conv" =>
         thr[u].pc = "conv" /\ thr'[u].lock = thr[u].lock /\ thr'[u].drop = thr[u].drop

\* What is sent as granted a thread held as granted.
SendsGranted ==
    \A m \in net' \ net :
        /\ m.type \notin {"cancel", "astrep", "convert"}
        /\ m.type = "cp" =>
             m.bits = bits[m.lock] /\ \E u \in Thread : m.lock \in thr[u].cp
        /\ m.type = "enqrep" /\ m.rc = "granted" =>
             \E u \in Thread : Enqueues(u, m.lock) /\ thr[u].rc = "granted"

\* Locks are cancelled after their clients have given them up.
CancelsEnded ==
    /\ failed \subseteq failed' /\ destroyed \subseteq destroyed'
    /\ granted \subseteq granted' \cup destroyed'
    /\ \A k \in destroyed' \ destroyed : Alive(k)' => Ended(k)

\* What was seen granted stays granted until given up.
LEMMA GrantsGoOn ==
    ASSUME GrantsKept, cl' = cl, CancelsEnded, SendsGranted,
           \A u \in Thread : ThreadCoheres(u)
    PROVE  GrantsKept'
<1> SUFFICES ASSUME NEW l \in Lock, Alive(l)'
             PROVE  /\ \A t \in Thread : thr'[t].pc = "finish" /\ thr'[t].rc = "error"
                                         /\ thr'[t].lock = l => l \in destroyed'
                    /\ SeenGranted(l)' => l \in granted' \cup destroyed'
                    /\ l \in destroyed' => Ended(l)'
                    /\ \A m \in net' : m.lock = l =>
                         /\ m.type = "cancel" => cl'[l].st = "gone"
                         /\ m.type = "astrep" /\ m.rc = "einval" => Ended(l)'
  BY Zenon DEF GrantsKept
<1>1. Alive(l)
  BY DEF Alive, CancelsEnded
<1>2. granted \cup destroyed \subseteq granted' \cup destroyed'
  BY DEF CancelsEnded
<1>3. Ended(l)' <=> Ended(l)
  BY Zenon DEF Ended
<1>4. \A t \in Thread : thr'[t].pc = "finish" /\ thr'[t].rc = "error"
                          /\ thr'[t].lock = l => l \in destroyed'
  <2>1. \A t \in Thread : thr[t].pc = "finish" /\ thr[t].rc = "error"
                            /\ thr[t].lock = l => l \in destroyed
    BY <1>1, Zenon DEF GrantsKept
  <2>2. destroyed \subseteq destroyed'
    BY DEF CancelsEnded
  <2> QED
    BY <2>1, <2>2 DEF ThreadCoheres
<1>5. ASSUME SeenGranted(l)' PROVE l \in granted' \cup destroyed'
  <2>1. SeenGranted(l) => l \in granted \cup destroyed
    BY <1>1, Zenon DEF GrantsKept
  <2>2. CASE Held(l)'
    <3>1. Held(l)
      BY <2>2, Zenon DEF Held
    <3> QED
      BY <1>2, <2>1, <3>1 DEF SeenGranted
  <2>3. ASSUME NEW u \in Thread, l \in thr[u].cp \/ (Enqueues(u, l) /\ thr[u].rc = "granted")
        PROVE  l \in granted' \cup destroyed'
    BY <1>2, <2>1, <2>3 DEF SeenGranted
  <2>4. ASSUME NEW m \in net', m.lock = l,
               m.type = "cp" \/ (m.type = "enqrep" /\ m.rc = "granted")
        PROVE  l \in granted' \cup destroyed'
    <3>1. CASE m \in net
      <4>1. SeenGranted(l)
        BY <2>4, <3>1, Zenon DEF SeenGranted
      <4> QED
        BY <1>2, <2>1, <4>1
    <3>2. CASE m \notin net
      BY <2>3, <2>4, <3>2, Zenon DEF SendsGranted
    <3> QED
      BY <3>1, <3>2
  <2>5. ASSUME NEW u \in Thread, l \in thr'[u].cp
        PROVE  l \in granted' \cup destroyed'
    BY <2>3, <2>5 DEF ThreadCoheres
  <2>6. ASSUME NEW u \in Thread, Enqueues(u, l)', thr'[u].rc = "granted"
        PROVE  l \in granted' \cup destroyed'
    BY <2>3, <2>6 DEF ThreadCoheres, Enqueues
  <2> QED
    BY <1>5, <2>2, <2>4, <2>5, <2>6, Zenon DEF SeenGranted
<1>6. l \in destroyed' => Ended(l)'
  <2>1. l \in destroyed => Ended(l)
    BY <1>1, Zenon DEF GrantsKept
  <2> QED
    BY <1>3, <2>1 DEF CancelsEnded
<1>7. ASSUME NEW m \in net', m.lock = l
      PROVE  /\ m.type = "cancel" => cl'[l].st = "gone"
             /\ m.type = "astrep" /\ m.rc = "einval" => Ended(l)'
  <2>1. CASE m \in net
    BY <1>1, <1>3, <1>7, <2>1, Zenon DEF GrantsKept
  <2>2. CASE m \notin net
    BY <1>7, <2>2 DEF SendsGranted
  <2> QED
    BY <2>1, <2>2
<1> QED
  BY <1>4, <1>5, <1>6, <1>7, Zenon

\* The bits of a lock and of its messages go together.
LEMMA BitsGoOn ==
    ASSUME BitsKept, cl' = cl, clbug' = clbug, bits' = bits, SendsGranted, NoConvert
    PROVE  BitsKept'
<1> SUFFICES ASSUME NEW l \in Lock
             PROVE  /\ cl'[l].bits \subseteq bits'[l]
                    /\ cl'[l].st = "none" => ~cl'[l].granted /\ bits'[l] = ReqBits[l]
                    /\ \A b \in SUBSET Bit : ConvReq(l, b) \in net' => cl'[l].bits \subseteq b
                    /\ \A t \in Thread : thr'[t].pc = "conv" /\ thr'[t].lock = l =>
                                           cl'[l].bits \cap thr'[t].drop = {}
                    /\ ~cl'[l].granted /\ cl'[l].st # "gone" =>
                         /\ \A m \in net' : m.lock = l /\ m.type = "cp" => m.bits = bits'[l]
                         /\ clbug' = {} =>
                              /\ \A m \in net' : m.lock = l => m.type # "convert"
                              /\ \A t \in Thread : ~(thr'[t].pc = "conv" /\ thr'[t].lock = l)
  BY Zenon DEF BitsKept, ConvReq
<1>1. /\ cl[l].bits \subseteq bits[l]
      /\ cl[l].st = "none" => ~cl[l].granted /\ bits[l] = ReqBits[l]
  BY Zenon DEF BitsKept
<1>2. ASSUME NEW b \in SUBSET Bit, ConvReq(l, b) \in net' PROVE cl[l].bits \subseteq b
  <2>1. ConvReq(l, b) \in net
    BY <1>2 DEF SendsGranted, ConvReq
  <2> QED
    BY <2>1, Zenon DEF BitsKept
<1>3. ASSUME NEW t \in Thread, thr'[t].pc = "conv", thr'[t].lock = l
      PROVE  cl[l].bits \cap thr'[t].drop = {}
  <2>1. thr[t].pc = "conv" /\ thr[t].lock = l /\ thr'[t].drop = thr[t].drop
    BY <1>3, Zenon DEF NoConvert
  <2>2. cl[l].bits \cap thr[t].drop = {}
    BY <2>1, Zenon DEF BitsKept
  <2> QED
    BY <2>1, <2>2
<1>4. ASSUME ~cl[l].granted, cl[l].st # "gone"
      PROVE  /\ \A m \in net' : m.lock = l /\ m.type = "cp" => m.bits = bits[l]
             /\ clbug = {} =>
                  /\ \A m \in net' : m.lock = l => m.type # "convert"
                  /\ \A t \in Thread : ~(thr'[t].pc = "conv" /\ thr'[t].lock = l)
  <2>1. /\ \A m \in net : m.lock = l /\ m.type = "cp" => m.bits = bits[l]
        /\ clbug = {} =>
             /\ \A m \in net : m.lock = l => m.type # "convert"
             /\ \A t \in Thread : ~(thr[t].pc = "conv" /\ thr[t].lock = l)
    BY <1>4, Zenon DEF BitsKept
  <2>2. \A m \in net' : m \in net \/ (m.type # "convert" /\ (m.type = "cp" => m.bits = bits[m.lock]))
    BY Zenon DEF SendsGranted
  <2>3. \A m \in net' : m.lock = l /\ m.type = "cp" => m.bits = bits[l]
    BY <2>1, <2>2, Zenon
  <2>4. \A t \in Thread : thr'[t].pc = "conv" /\ thr'[t].lock = l =>
                            thr[t].pc = "conv" /\ thr[t].lock = l
    BY Zenon DEF NoConvert
  <2> QED
    BY <2>1, <2>2, <2>3, <2>4, Zenon
<1> QED
  BY <1>1, <1>2, <1>3, <1>4, Zenon

\* Both.
LEMMA CoherenceGoOn ==
    ASSUME CoherenceInv, cl' = cl, clbug' = clbug, bits' = bits, CancelsEnded, SendsGranted,
           NoConvert, \A u \in Thread : ThreadCoheres(u)
    PROVE  CoherenceInv'
<1>1. GrantsKept /\ BitsKept
  BY DEF CoherenceInv
<1>2. GrantsKept' /\ BitsKept'
  BY <1>1, GrantsGoOn, BitsGoOn
<1> QED
  BY <1>2 DEF CoherenceInv

\* The thread that takes the step.
LEMMA MovesCohere ==
    ASSUME NEW t \in Thread, NEW pc, NEW bl, NEW cp, NEW out, NEW rescan, NEW rc,
           Moves(t, pc, bl, cp, out, rescan, rc),
           cp \subseteq thr[t].cp \cup granted',
           rc # "granted" \/ rc = thr[t].rc \/ thr[t].lock \in granted' \cup destroyed',
           pc = "finish" /\ rc = "error" =>
             (thr[t].pc = "finish" /\ thr[t].rc = "error") \/ thr[t].lock \in destroyed',
           pc # "conv" \/ thr[t].pc = "conv"
    PROVE  NoConvert /\ \A u \in Thread : ThreadCoheres(u)
<1>1. ASSUME NEW u \in Thread PROVE ThreadCoheres(u)
  <2>1. CASE u = t
    BY <2>1 DEF ThreadCoheres, Moves
  <2>2. CASE u # t
    BY <2>2, Zenon DEF ThreadCoheres, Moves
  <2> QED
    BY <2>1, <2>2
<1>2. NoConvert
  BY Zenon DEF NoConvert, Moves
<1> QED
  BY <1>1, <1>2

\* No thread takes the step.
LEMMA SameCohere ==
    ASSUME thr' = thr
    PROVE  NoConvert /\ \A u \in Thread : ThreadCoheres(u)
BY Zenon DEF NoConvert, ThreadCoheres

\* Nothing is sent.
LEMMA SilentSends ==
    ASSUME net' \subseteq net
    PROVE  SendsGranted
BY DEF SendsGranted

-----------------------------------------------------------------------------
(* The steps of the server.                                                *)

\* The queues are left alone.
LEMMA QuietEnds ==
    ASSUME granted' = granted, destroyed' = destroyed, failed \subseteq failed'
    PROVE  CancelsEnded
BY DEF CancelsEnded

\* ldlm_lock_cancel of a lock that was given up, or of an evicted client.
LEMMA CancelEnds ==
    ASSUME NEW l \in Lock, CancelLock(l), failed' = failed, Alive(l) => Ended(l)
    PROVE  CancelsEnded
<1>1. granted' = granted \ {l} /\ destroyed' = destroyed \cup {l}
  BY DEF CancelLock
<1>2. Alive(l)' => Alive(l)
  BY DEF Alive
<1> QED
  BY <1>1, <1>2 DEF CancelsEnded

\* Steps of a thread that change no queue and send nothing.
LEMMA QuietCoherence ==
    ASSUME SInv, CoherenceInv, cl' = cl, clbug' = clbug, bits' = bits,
           granted' = granted, destroyed' = destroyed, failed' = failed, net' \subseteq net,
           NEW t \in Thread, NEW pc, NEW bl, NEW out, NEW rescan,
           Moves(t, pc, bl, thr[t].cp, out, rescan, thr[t].rc),
           pc \notin {"finish", "conv"} \/ pc = thr[t].pc
    PROVE  CoherenceInv'
<1>1. NoConvert /\ \A u \in Thread : ThreadCoheres(u)
  BY MovesCohere
<1>2. CancelsEnded /\ SendsGranted
  BY QuietEnds, SilentSends
<1> QED
  BY <1>1, <1>2, CoherenceGoOn

\* Every step of the server keeps CoherenceInv.
LEMMA ServerCoherence ==
    ASSUME SInv, CoherenceInv, cl' = cl, clbug' = clbug, clbug = {}, ServerNext
    PROVE  CoherenceInv'
\* ldlm_handle_enqueue0: the lock enters the lock hash.
<1>1. ASSUME NEW t \in Thread, ExportAddLock(t)
      PROVE  CoherenceInv'
  <2> USE <1>1
  <2>1. /\ bits' = bits /\ granted' = granted /\ destroyed' = destroyed
        /\ failed' = failed /\ net' = net
    BY DEF ExportAddLock, queues, exports
  <2>2. Moves(t, "policy", thr[t].bl, thr[t].cp, thr[t].out, thr[t].rescan, thr[t].rc)
    BY ExportAddLockMoves
  <2> QED
    BY <2>1, <2>2, QuietCoherence
\* ldlm_run_ast_work: l_blocking_lock is dropped.
<1>2. ASSUME NEW t \in Thread, BlAstFini(t)
      PROVE  CoherenceInv'
  <2> USE <1>2
  <2>1. /\ bits' = bits /\ granted' = granted /\ destroyed' = destroyed
        /\ failed' = failed /\ net' = net
    BY DEF BlAstFini, queues, exports
  <2>2. Moves(t, "bl", thr[t].bl, thr[t].cp, thr[t].out, thr[t].rescan, thr[t].rc)
    BY BlAstFiniMoves
  <2> QED
    BY <2>1, <2>2, QuietCoherence
\* The blocking ASTs of a scan have been answered.
<1>3. ASSUME NEW t \in Thread, ReprocessBlDone(t)
      PROVE  CoherenceInv'
  <2> USE <1>3
  <2>1. /\ bits' = bits /\ granted' = granted /\ destroyed' = destroyed
        /\ failed' = failed /\ net' = net
    BY DEF ReprocessBlDone, queues, exports
  <2>2. PICK pc \in {"reproc", "cp"} :
          Moves(t, pc, thr[t].bl, thr[t].cp, thr[t].out, thr[t].rescan, thr[t].rc)
    BY ScanBlDoneMoves, Zenon DEF ReprocessBlDone
  <2> QED
    BY <2>1, <2>2, QuietCoherence
\* An AST that is never answered.
<1>4. ASSUME NEW t \in Thread, NEW c \in Lock,
             AstTimeout(t, c)
      PROVE  CoherenceInv'
  <2> USE <1>4
  <2>1. /\ bits' = bits /\ granted' = granted /\ destroyed' = destroyed
        /\ failed' = failed /\ net' = net
    BY DEF AstTimeout, queues, exports
  <2>2. Moves(t, thr[t].pc, thr[t].bl, thr[t].cp, thr[t].out \ {c}, thr[t].rescan, thr[t].rc)
    BY AnsweredMoves, Zenon DEF AstTimeout
  <2> QED
    BY <2>1, <2>2, QuietCoherence, Zenon
\* The timers, the ping evictor and the reaper's last visit.
<1>5. ASSUME \/ \E l \in Lock : TimerExpire(l) \/ ExpiredEvict(l) \/ ExpiredProlong(l)
             \/ \E c \in Client : PingEvict(c) \/ StaleExportDone(c)
      PROVE  CoherenceInv'
  <2> USE <1>5
  <2>1. /\ bits' = bits /\ granted' = granted /\ destroyed' = destroyed
        /\ failed \subseteq failed' /\ net' = net /\ thr' = thr
    BY DEF TimerExpire, ExpiredEvict, ExpiredProlong, PingEvict, StaleExportDone, queues, exports
  <2>2. NoConvert /\ \A u \in Thread : ThreadCoheres(u)
    BY <2>1, SameCohere
  <2>3. CancelsEnded /\ SendsGranted
    BY <2>1, QuietEnds, SilentSends
  <2> QED
    BY <2>1, <2>2, <2>3, CoherenceGoOn
\* The policy: the thread goes on to reply "granted" if it granted the lock,
\* or if somebody else did while the blocking ASTs were out.
<1>6. ASSUME NEW t \in Thread,
             LockEnqueue(t) \/ EnqueueBlDone(t)
      PROVE  CoherenceInv'
  <2> USE <1>6
  <2>1. bits' = bits /\ destroyed' = destroyed /\ failed' = failed /\ net' = net
    BY DEF LockEnqueue, EnqueueBlDone, exports
  <2>2. SendsGranted
    BY <2>1, SilentSends
  <2>3. CASE ProcessEnqueue(t, thr[t].lock)
    <3>pc. PICK pc \in {"finish", "bl"} : \E bl, rc :
            /\ Moves(t, pc, bl, thr[t].cp, thr[t].out, thr[t].rescan, rc)
            /\ pc = "finish" => rc = "granted" /\ thr[t].lock \in granted' \cup destroyed
            /\ pc = "bl" => rc = thr[t].rc
            /\ granted \subseteq granted'
      BY <2>3, PolicyMoves
    <3>1. PICK bl, rc :
            /\ pc \in {"finish", "bl"}
            /\ Moves(t, pc, bl, thr[t].cp, thr[t].out, thr[t].rescan, rc)
            /\ pc = "finish" => rc = "granted" /\ thr[t].lock \in granted' \cup destroyed
            /\ pc = "bl" => rc = thr[t].rc
            /\ granted \subseteq granted'
      BY <3>pc
    <3>4. rc # "granted" \/ rc = thr[t].rc \/ thr[t].lock \in granted' \cup destroyed'
      BY <2>1, <3>1
    <3>2. NoConvert /\ \A u \in Thread : ThreadCoheres(u)
      BY <3>1, <3>4, MovesCohere
    <3>3. CancelsEnded
      BY <2>1, <3>1 DEF CancelsEnded
    <3> QED
      BY <2>1, <2>2, <3>2, <3>3, CoherenceGoOn
  <2>4. CASE ~ProcessEnqueue(t, thr[t].lock)
    <3>1. EnqueueBlDone(t) /\ granted' = granted
      BY <2>4 DEF LockEnqueue, EnqueueBlDone
    <3>2. PICK rc : /\ Become(t, [thr[t] EXCEPT !.pc = "finish", !.rc = rc])
                    /\ rc = "error" => thr[t].lock \in destroyed
                    /\ rc = "granted" => thr[t].lock \in granted
      <4> DEFINE rc == IF ~thr[t].restart THEN "blocked"
                       ELSE IF thr[t].lock \in destroyed THEN "error" ELSE "granted"
      <4>1. Become(t, [thr[t] EXCEPT !.pc = "finish", !.rc = rc])
        BY <2>4, <3>1, Zenon DEF EnqueueBlDone
      <4>2. ~thr[t].restart \/ thr[t].lock \in destroyed \cup granted
        BY <2>4, <3>1, Zenon DEF EnqueueBlDone
      <4>3. /\ rc = "error" => thr[t].lock \in destroyed
            /\ rc = "granted" => thr[t].lock \in granted
        BY <4>2
      <4> QED
        BY <4>1, <4>3, Zenon
    <3>3. Moves(t, "finish", thr[t].bl, thr[t].cp, thr[t].out, thr[t].rescan, rc)
      BY <3>2, FinishMoves, Zenon
    <3>4. NoConvert /\ \A u \in Thread : ThreadCoheres(u)
      BY <2>1, <3>1, <3>2, <3>3, MovesCohere
    <3>5. CancelsEnded
      BY <2>1, <3>1, QuietEnds
    <3> QED
      BY <2>1, <2>2, <3>4, <3>5, CoherenceGoOn
  <2> QED
    BY <2>3, <2>4
\* ldlm_handle_enqueue0 cancels a lock whose client was evicted, or that was
\* destroyed already.
<1>7. ASSUME NEW t \in Thread, EnqueueFinish(t)
      PROVE  CoherenceInv'
  <2> USE <1>7
  <2>1. bits' = bits /\ failed' = failed /\ net' = net /\ thr[t].pc = "finish"
    BY DEF EnqueueFinish, exports
  <2>2. PICK l \in Lock : l = thr[t].lock
    BY <2>1, ThreadTyped DEF ThreadLocks, SInv, ServerTypeOK
  <2>3. PICK pc \in {"cp", "reproc"}, rc \in {thr[t].rc, "error"} :
          Moves(t, pc, thr[t].bl, thr[t].cp, thr[t].out, thr[t].rescan, rc)
    BY DeadMoves, DoneMoves, Zenon DEF EnqueueFinish
  <2>4. NoConvert /\ \A u \in Thread : ThreadCoheres(u)
    BY <2>3, MovesCohere
  <2>5. CancelsEnded
    <3>1. CASE CancelLock(l) /\ (Owner[l] \in failed \/ thr[t].rc = "error")
      <4>1. Alive(l) /\ thr[t].rc = "error" => l \in destroyed /\ (l \in destroyed => Ended(l))
        BY <2>1, <2>2, Zenon DEF CoherenceInv, GrantsKept
      <4> QED
        BY <2>1, <3>1, <4>1, CancelEnds DEF Alive
    <3>2. CASE granted' = granted /\ destroyed' = destroyed
      BY <2>1, <3>2, QuietEnds
    <3> QED
      BY <2>2, <3>1, <3>2 DEF EnqueueFinish, ExportGone
  <2> QED
    BY <2>1, <2>4, <2>5, SilentSends, CoherenceGoOn
\* What a scan grants it will announce by completion ASTs.
<1>8. ASSUME NEW t \in Thread, Reprocess(t)
      PROVE  CoherenceInv'
  <2> USE <1>8
  <2>1. /\ bits' = bits /\ failed' = failed /\ net' = net /\ destroyed' = destroyed
        /\ granted' = granted \cup Grantable
    BY Zenon DEF Reprocess, exports
  <2>pc. PICK pc \in {"cp", "bl"} : \E N :
          Moves(t, pc, N, thr[t].cp \cup Grantable, thr[t].out, TRUE, thr[t].rc)
    BY ScanEndMoves, ScanBlockMoves, Zenon DEF Reprocess
  <2>2. PICK N : Moves(t, pc, N, thr[t].cp \cup Grantable, thr[t].out, TRUE, thr[t].rc)
    BY <2>pc, Zenon
  <2>6. pc # "finish" /\ pc # "conv"
    OBVIOUS
  <2>3. thr[t].cp \cup Grantable \subseteq thr[t].cp \cup granted'
    BY <2>1
  <2>4. NoConvert /\ \A u \in Thread : ThreadCoheres(u)
    BY <2>2, <2>3, <2>6, MovesCohere, Zenon
  <2>5. CancelsEnded
    BY <2>1 DEF CancelsEnded
  <2> QED
    BY <2>1, <2>4, <2>5, SilentSends, CoherenceGoOn
\* A blocking AST says nothing about grants.
<1>9. ASSUME NEW t \in Thread, NEW c \in Lock,
             BlAstSend(t, c)
      PROVE  CoherenceInv'
  <2> USE <1>9
  <2>1. /\ bits' = bits /\ granted' = granted /\ destroyed' = destroyed /\ failed' = failed
    BY Zenon DEF BlAstSend, queues, exports
  <2>2. PICK o : Moves(t, "blfin", thr[t].bl \ {c}, thr[t].cp, o, thr[t].rescan, thr[t].rc)
    BY BlAstSendMoves, Zenon DEF BlAstSend
  <2>3. NoConvert /\ \A u \in Thread : ThreadCoheres(u)
    BY <2>2, MovesCohere, Zenon
  <2>4. \A m \in net' \ net : m.type = "bl"
    <3>1. net' = net \/ \E b : net' = net \cup {BlAst(c, b, t)}
      BY Zenon DEF BlAstSend
    <3> QED
      BY <3>1 DEF BlAst
  <2>5. SendsGranted /\ CancelsEnded
    BY <2>1, <2>4, QuietEnds DEF SendsGranted
  <2> QED
    BY <2>1, <2>3, <2>5, CoherenceGoOn
\* A completion AST carries the bits of the lock it grants.
<1>10. ASSUME NEW t \in Thread, NEW c \in Lock,
              CpAstSend(t, c)
       PROVE  CoherenceInv'
  <2> USE <1>10
  <2>1. /\ bits' = bits /\ granted' = granted /\ destroyed' = destroyed /\ failed' = failed
        /\ thr[t].pc = "cp" /\ c \in thr[t].cp
    BY DEF CpAstSend, queues, exports
  <2>2. PICK o : Moves(t, thr[t].pc, thr[t].bl, thr[t].cp \ {c}, o, thr[t].rescan, thr[t].rc)
    BY CpAstSendMoves, Zenon DEF CpAstSend
  <2>3. thr[t].cp \ {c} \subseteq thr[t].cp \cup granted'
    OBVIOUS
  <2>4. NoConvert /\ \A u \in Thread : ThreadCoheres(u)
    BY <2>2, <2>3, MovesCohere
  <2>5. \A m \in net' \ net : m.type = "cp" /\ m.lock = c /\ m.bits = bits[c]
    <3>1. net' = net \/ \E a : net' = net \cup {CpAst(c, bits[c], a, t)}
      BY Zenon DEF CpAstSend
    <3> QED
      BY <3>1 DEF CpAst
  <2>6. SendsGranted
    BY <2>1, <2>5 DEF SendsGranted
  <2> QED
    BY <2>1, <2>4, <2>6, QuietEnds, CoherenceGoOn
\* The handler returns and its reply is sent.
<1>11. ASSUME NEW t \in Thread, CpDone(t)
       PROVE  CoherenceInv'
  <2> USE <1>11
  <2>1. /\ bits' = bits /\ granted' = granted /\ destroyed' = destroyed /\ failed' = failed
    BY DEF CpDone, queues, exports
  <2>2. CASE Goto(t, "reproc") /\ net' = net
    <3>1. Moves(t, "reproc", thr[t].bl, thr[t].cp, thr[t].out, thr[t].rescan, thr[t].rc)
      BY <2>2, GotoMoves
    <3> QED
      BY <2>1, <2>2, <3>1, QuietCoherence
  <2>3. CASE Become(t, Idle) /\ net' = net \cup Reply(t)
    <3>1. thr'[t] = Idle /\ \A u \in Thread : u # t => thr'[u] = thr[u]
      BY <2>3, BecomeThread
    <3>2. Idle.pc = "idle" /\ Idle.ctx = "none" /\ Idle.cp = {}
      BY Zenon DEF Idle
    <3>3. NoConvert /\ \A u \in Thread : ThreadCoheres(u)
      <4>1. NoConvert
        BY <3>1, <3>2 DEF NoConvert
      <4>2. ThreadCoheres(t)
        BY <3>1, <3>2 DEF ThreadCoheres
      <4>3. \A u \in Thread : u # t => ThreadCoheres(u)
        BY <3>1, Zenon DEF ThreadCoheres
      <4> QED
        BY <4>1, <4>2, <4>3
    <3>4. \A m \in net' \ net :
            \/ m.type = "enqrep" /\ thr[t].ctx = "enq" /\ m.lock = thr[t].lock /\ m.rc = thr[t].rc
            \/ m.type = "convrep"
      BY <2>3 DEF Reply, EnqRep, ConvRep
    <3>5. SendsGranted
      BY <3>4 DEF SendsGranted, Enqueues
    <3> QED
      BY <2>1, <3>3, <3>5, QuietEnds, CoherenceGoOn
  <2> QED
    BY <2>2, <2>3 DEF CpDone
\* ldlm_handle_enqueue0 starts.
<1>12. ASSUME NEW t \in Thread, NEW l \in Lock,
              HandleEnqueue(t, l)
       PROVE  CoherenceInv'
  <2> USE <1>12
  <2>1. /\ bits' = bits /\ granted' = granted /\ destroyed' = destroyed /\ failed' = failed
        /\ net' \subseteq net
    BY DEF HandleEnqueue, queues, exports
  <2>2. /\ \A u \in Thread : u # t => thr'[u] = thr[u]
        /\ thr'[t].pc \in {"reproc", "hash"} /\ thr'[t].cp = {} /\ thr'[t].rc = "error"
    BY HandleEnqueueMoves, Zenon
  <2>3. NoConvert
    BY <2>2 DEF NoConvert
  <2>4. ASSUME NEW u \in Thread PROVE ThreadCoheres(u)
    <3>1. CASE u = t
      BY <2>2, <3>1, Zenon DEF ThreadCoheres
    <3>2. CASE u # t
      BY <2>2, <3>2, Zenon DEF ThreadCoheres
    <3> QED
      BY <3>1, <3>2
  <2> QED
    BY <2>1, <2>3, <2>4, QuietEnds, SilentSends, CoherenceGoOn
\* A client cancels a lock it has forgotten; the reaper those of an evicted
\* client.
<1>13. ASSUME NEW t \in Thread, NEW l \in Lock,
              HandleCancel(t, l) \/ ExportCancelLock(t, l)
       PROVE  CoherenceInv'
  <2> USE <1>13
  <2>1. bits' = bits /\ failed' = failed /\ net' \subseteq net
    BY DEF HandleCancel, ExportCancelLock, queues, exports
  <2>2. CASE thr' = thr /\ granted' = granted /\ destroyed' = destroyed
    BY <2>1, <2>2, SameCohere, QuietEnds, SilentSends, CoherenceGoOn
  <2>3. CASE Goto(t, "reproc") /\ CancelLock(l)
    <3>1. Moves(t, "reproc", thr[t].bl, thr[t].cp, thr[t].out, thr[t].rescan, thr[t].rc)
      BY <2>3, GotoMoves
    <3>2. NoConvert /\ \A u \in Thread : ThreadCoheres(u)
      BY <3>1, MovesCohere
    <3>3. Alive(l) => Ended(l)
      <4>1. CancelReq(l) \in net \/ ~Alive(l)
        BY DEF HandleCancel, ExportCancelLock, Alive
      <4>2. CancelReq(l).lock = l /\ CancelReq(l).type = "cancel"
        BY DEF CancelReq
      <4> QED
        BY <4>1, <4>2, Zenon DEF CoherenceInv, GrantsKept, Ended
    <3>4. CancelsEnded
      BY <2>1, <2>3, <3>3, CancelEnds
    <3> QED
      BY <2>1, <3>2, <3>4, SilentSends, CoherenceGoOn
  <2> QED
    BY <2>2, <2>3, Zenon DEF HandleCancel, ExportCancelLock
\* ldlm_cb_interpret: the client that answers -EINVAL has given up the lock.
<1>14. ASSUME NEW t \in Thread, NEW c \in Lock,
              NEW rc, AstReply(t, c, rc)
       PROVE  CoherenceInv'
  <2> USE <1>14
  <2>1. bits' = bits /\ failed' = failed /\ net' \subseteq net /\ AstRep(c, rc, t) \in net
    BY DEF AstReply, exports
  <2>2. Moves(t, thr[t].pc, thr[t].bl, thr[t].cp, thr[t].out \ {c}, thr[t].rescan, thr[t].rc)
    BY AnsweredMoves, Zenon DEF AstReply
  <2>3. NoConvert /\ \A u \in Thread : ThreadCoheres(u)
    BY <2>2, MovesCohere, Zenon
  <2>4. CancelsEnded
    <3>1. CASE rc = "einval" /\ CancelLock(c)
      <4>1. LET m == AstRep(c, rc, t) IN m.lock = c /\ m.type = "astrep" /\ m.rc = rc
        BY DEF AstRep
      <4>2. Alive(c) => Ended(c)
        BY <2>1, <3>1, <4>1, Zenon DEF CoherenceInv, GrantsKept
      <4> QED
        BY <2>1, <3>1, <4>2, CancelEnds
    <3>2. CASE granted' = granted /\ destroyed' = destroyed
      BY <2>1, <3>2, QuietEnds
    <3> QED
      BY <3>1, <3>2 DEF AstReply
  <2> QED
    BY <2>1, <2>3, <2>4, SilentSends, CoherenceGoOn
\* ldlm_handle_convert0: the bits to drop are bits the client has given up.
<1>15. ASSUME NEW t \in Thread, NEW l \in Lock,
              NEW new \in SUBSET Bit, HandleConvert(t, l, new)
       PROVE  CoherenceInv'
  <2> USE <1>15
  <2>1. /\ bits' = bits /\ granted' = granted /\ destroyed' = destroyed /\ failed' = failed
        /\ ConvReq(l, new) \in net /\ thr[t] = Idle
    BY DEF HandleConvert, queues, exports
  <2>2. GrantsKept /\ BitsKept
    BY DEF CoherenceInv
  <2>3. CASE thr' = thr
    <3>1. \A m \in net' \ net : m.type = "convrep"
      <4>1. net' \subseteq net \/ \E rc : net' = (net \ {ConvReq(l, new)}) \cup {ConvRep(l, rc, bits[l])}
        BY Zenon DEF HandleConvert
      <4> QED
        BY <4>1 DEF ConvRep
    <3>2. SendsGranted
      BY <3>1, Zenon DEF SendsGranted
    <3> QED
      BY <2>1, <2>3, <3>2, SameCohere, QuietEnds, CoherenceGoOn
  <2>4. CASE thr' # thr
    <3>1. /\ net' \subseteq net
          /\ Become(t, [thr[t] EXCEPT !.pc = "conv", !.ctx = "conv", !.lock = l,
                                      !.drop = DropBits(l, new)])
      BY <2>4 DEF HandleConvert
    <3>2. /\ \A u \in Thread : u # t => thr'[u] = thr[u]
          /\ thr'[t].pc = "conv" /\ thr'[t].ctx = "conv" /\ thr'[t].lock = l
          /\ thr'[t].cp = {} /\ thr'[t].drop = DropBits(l, new)
      <4>1. thr[t] = Idle
        BY <2>1
      <4>2. PICK d : d = DropBits(l, new)
        OBVIOUS
      <4>3. Become(t, [thr[t] EXCEPT !.pc = "conv", !.ctx = "conv", !.lock = l, !.drop = d])
        BY <3>1, <4>2
      <4>4. /\ \A u \in Thread : u # t => thr'[u] = thr[u]
            /\ thr'[t].pc = "conv" /\ thr'[t].ctx = "conv" /\ thr'[t].lock = l
            /\ thr'[t].bl = {} /\ thr'[t].cp = {} /\ thr'[t].out = {}
        BY <4>1, <4>3, HandleConvertMoves, Zenon
      <4> DEFINE r == [thr[t] EXCEPT !.pc = "conv", !.ctx = "conv", !.lock = l, !.drop = d]
      <4>5. r.drop = d
        BY ThreadTyped, Zenon DEF ThreadState
      <4>6. thr'[t] = r
        BY <4>3, BecomeThread, Zenon
      <4> QED
        BY <4>2, <4>4, <4>5, <4>6, Zenon
    <3>3. ASSUME NEW u \in Thread PROVE ThreadCoheres(u)
      <4>1. CASE u = t
        BY <3>2, <4>1, Zenon DEF ThreadCoheres
      <4>2. CASE u # t
        BY <3>2, <4>2, Zenon DEF ThreadCoheres
      <4> QED
        BY <4>1, <4>2
    <3>4. GrantsKept'
      BY <2>1, <2>2, <3>1, <3>3, QuietEnds, SilentSends, GrantsGoOn
    <3>5. cl[l].bits \subseteq new
      BY <2>1, <2>2, Zenon DEF BitsKept
    <3>6. cl[l].bits \cap DropBits(l, new) = {}
      BY <3>5 DEF DropBits
    <3>7. clbug = {} => cl[l].granted \/ cl[l].st = "gone"
      <4>1. ConvReq(l, new).lock = l /\ ConvReq(l, new).type = "convert"
        BY DEF ConvReq
      <4> QED
        BY <2>1, <2>2, <4>1, Zenon DEF BitsKept
    <3>8. BitsKept'
      <4> SUFFICES ASSUME NEW k \in Lock
                   PROVE  /\ cl[k].bits \subseteq bits[k]
                          /\ cl[k].st = "none" => ~cl[k].granted /\ bits[k] = ReqBits[k]
                          /\ \A b \in SUBSET Bit : ConvReq(k, b) \in net' => cl[k].bits \subseteq b
                          /\ \A u \in Thread : thr'[u].pc = "conv" /\ thr'[u].lock = k =>
                                                 cl[k].bits \cap thr'[u].drop = {}
                          /\ ~cl[k].granted /\ cl[k].st # "gone" =>
                               /\ \A m \in net' : m.lock = k /\ m.type = "cp" => m.bits = bits[k]
                               /\ clbug = {} =>
                                    /\ \A m \in net' : m.lock = k => m.type # "convert"
                                    /\ \A u \in Thread : ~(thr'[u].pc = "conv" /\ thr'[u].lock = k)
        BY <2>1, Zenon DEF BitsKept, ConvReq
      <4>1. \A m \in net' : m \in net
        BY <3>1
      <4>2. \A u \in Thread : thr'[u].pc = "conv" /\ thr'[u].lock = k =>
              (u = t /\ k = l) \/ (u # t /\ thr'[u] = thr[u] /\ thr[u].pc = "conv" /\ thr[u].lock = k)
        BY <3>2, Zenon
      <4>3. ASSUME NEW u \in Thread, thr'[u].pc = "conv", thr'[u].lock = k
            PROVE  cl[k].bits \cap thr'[u].drop = {}
        <5>1. CASE u = t
          BY <3>2, <3>6, <4>3, <5>1, Zenon
        <5>2. CASE u # t
          BY <2>2, <4>2, <4>3, <5>2, Zenon DEF BitsKept
        <5> QED
          BY <5>1, <5>2
      <4>4. ASSUME ~cl[k].granted, cl[k].st # "gone", clbug = {}, NEW u \in Thread
            PROVE  ~(thr'[u].pc = "conv" /\ thr'[u].lock = k)
        BY <2>2, <3>7, <4>2, <4>4, ZenonT(40) DEF BitsKept
      <4>5. /\ cl[k].bits \subseteq bits[k]
            /\ cl[k].st = "none" => ~cl[k].granted /\ bits[k] = ReqBits[k]
            /\ \A b \in SUBSET Bit : ConvReq(k, b) \in net' => cl[k].bits \subseteq b
        BY <2>2, <4>1, Zenon DEF BitsKept
      <4>6. ~cl[k].granted /\ cl[k].st # "gone" =>
               /\ \A m \in net' : m.lock = k /\ m.type = "cp" => m.bits = bits[k]
               /\ clbug = {} => \A m \in net' : m.lock = k => m.type # "convert"
        BY <2>2, <4>1, Zenon DEF BitsKept
      <4> QED
        BY <4>3, <4>4, <4>5, <4>6, Zenon
    <3> QED
      BY <3>4, <3>8 DEF CoherenceInv
  <2> QED
    BY <2>3, <2>4
\* ldlm_inodebits_drop drops no bit the client still has.
<1>16. ASSUME NEW t \in Thread,
              ConvertLocked(t)
       PROVE  CoherenceInv'
  <2> USE <1>16
  <2>1. /\ granted' = granted /\ destroyed' = destroyed /\ failed' = failed /\ net' = net
        /\ thr[t].pc = "conv" /\ Goto(t, "reproc")
    BY Zenon DEF ConvertLocked, exports
  <2>2. GrantsKept /\ BitsKept
    BY DEF CoherenceInv
  <2>3. PICK l \in Lock : l = thr[t].lock
    BY <2>1, ThreadTyped, Zenon DEF ThreadLocks, SInv, ServerTypeOK
  <2>4. bits'[l] = bits[l] \ thr[t].drop /\ \A k \in Lock : k # l => bits'[k] = bits[k]
    BY <2>3, Zenon DEF ConvertLocked, SInv, ServerTypeOK
  <2>5. Moves(t, "reproc", thr[t].bl, thr[t].cp, thr[t].out, thr[t].rescan, thr[t].rc)
    BY <2>1, GotoMoves
  <2>6. NoConvert /\ \A u \in Thread : ThreadCoheres(u)
    BY <2>5, MovesCohere
  <2>7. GrantsKept'
    BY <2>1, <2>2, <2>6, QuietEnds, SilentSends, GrantsGoOn
  <2>8. cl[l].bits \cap thr[t].drop = {} /\ (cl[l].granted \/ cl[l].st = "gone")
    BY <2>1, <2>2, <2>3, Zenon DEF BitsKept
  <2>9. BitsKept'
    <3> SUFFICES ASSUME NEW k \in Lock
                 PROVE  /\ cl[k].bits \subseteq bits'[k]
                        /\ cl[k].st = "none" => ~cl[k].granted /\ bits'[k] = ReqBits[k]
                        /\ \A b \in SUBSET Bit : ConvReq(k, b) \in net => cl[k].bits \subseteq b
                        /\ \A u \in Thread : thr'[u].pc = "conv" /\ thr'[u].lock = k =>
                                               cl[k].bits \cap thr'[u].drop = {}
                        /\ ~cl[k].granted /\ cl[k].st # "gone" =>
                             /\ \A m \in net : m.lock = k /\ m.type = "cp" => m.bits = bits'[k]
                             /\ clbug = {} =>
                                  /\ \A m \in net : m.lock = k => m.type # "convert"
                                  /\ \A u \in Thread : ~(thr'[u].pc = "conv" /\ thr'[u].lock = k)
      BY <2>1, Zenon DEF BitsKept, ConvReq
    <3>1. /\ cl[k].bits \subseteq bits[k]
          /\ cl[k].st = "none" => ~cl[k].granted /\ bits[k] = ReqBits[k]
          /\ \A b \in SUBSET Bit : ConvReq(k, b) \in net => cl[k].bits \subseteq b
      BY <2>2, Zenon DEF BitsKept
    <3>2. /\ cl[k].bits \subseteq bits'[k]
          /\ cl[k].st = "none" => ~cl[k].granted /\ bits'[k] = ReqBits[k]
      BY <2>4, <2>8, <3>1
    <3>3. \A u \in Thread : thr'[u].pc = "conv" =>
            thr[u].pc = "conv" /\ thr'[u].lock = thr[u].lock /\ thr'[u].drop = thr[u].drop
      BY <2>6, Zenon DEF NoConvert
    <3>4. ASSUME NEW u \in Thread, thr'[u].pc = "conv", thr'[u].lock = k
          PROVE  cl[k].bits \cap thr'[u].drop = {}
      BY <2>2, <3>3, <3>4, Zenon DEF BitsKept
    <3>5. ASSUME ~cl[k].granted, cl[k].st # "gone"
          PROVE  /\ \A m \in net : m.lock = k /\ m.type = "cp" => m.bits = bits'[k]
                 /\ \A m \in net : m.lock = k => m.type # "convert"
                 /\ \A u \in Thread : ~(thr'[u].pc = "conv" /\ thr'[u].lock = k)
      <4>1. k # l
        BY <2>8, <3>5
      <4>2. bits'[k] = bits[k]
        BY <2>4, <4>1
      <4>3. /\ \A m \in net : m.lock = k /\ m.type = "cp" => m.bits = bits[k]
            /\ \A m \in net : m.lock = k => m.type # "convert"
            /\ \A u \in Thread : ~(thr[u].pc = "conv" /\ thr[u].lock = k)
        BY <2>2, <3>5, Zenon DEF BitsKept
      <4>4. \A u \in Thread : ~(thr'[u].pc = "conv" /\ thr'[u].lock = k)
        BY <3>3, <4>3, Zenon
      <4> QED
        BY <4>2, <4>3, <4>4, Zenon
    <3> QED
      BY <3>1, <3>2, <3>4, <3>5, Zenon
  <2> QED
    BY <2>7, <2>9 DEF CoherenceInv
<1>17. ASSUME NEW t \in Thread, ThreadStep(t) PROVE CoherenceInv'
  BY <1>17, <1>1, <1>6, <1>2,
     <1>7, <1>8, <1>3, <1>11,
     <1>16, <1>9, <1>10, Zenon DEF ThreadStep
<1>18. ASSUME NEW t \in Thread, HandleRequest(t) PROVE CoherenceInv'
  BY <1>18, <1>12, <1>13, <1>15,
     Zenon DEF HandleRequest
<1>19. ASSUME NEW t \in Thread, AstAnswered(t) PROVE CoherenceInv'
  BY <1>19, <1>4, <1>14, Zenon DEF AstAnswered
<1>20. CASE ServerWork
  BY <1>17, <1>18, <1>19, <1>20, Zenon DEF ServerWork
<1> QED
  BY <1>20, <1>5, Zenon DEF ServerNext

-----------------------------------------------------------------------------
(* CoherenceInv and the steps of the clients.                              *)

\* The server's variables in a step of a client.
LEMMA ServerStill ==
    ASSUME UNCHANGED svars
    PROVE  /\ bits' = bits /\ granted' = granted /\ destroyed' = destroyed /\ failed' = failed
           /\ thr' = thr
BY DEF svars, queues, exports

\* What the clients' half of GrantsKept needs: nothing is held that the server
\* has not told, what is given up stays given up (a lock the server has not
\* seen is created anew), a cancel or an answer -EINVAL is sent for a lock that
\* is given up.
GrantGoes(k) ==
    /\ Held(k)' => Held(k) \/ Told(k)
    /\ \/ /\ cl[k].st = "gone" => cl'[k].st = "gone"
          /\ Ended(k) => Ended(k)'
       \/ k \notin destroyed /\ \A m \in net : m.lock = k => m.type = "enq"
    /\ \A m \in net' \ net : m.lock = k =>
         /\ m.type \notin {"cp", "enqrep"}
         /\ m.type = "cancel" => cl'[k].st = "gone"
         /\ m.type = "astrep" /\ m.rc = "einval" => Ended(k)'

\* A step of the clients alone keeps GrantsKept if every lock of a live client
\* goes as said above.
LEMMA ClientGrants ==
    ASSUME GrantsKept, UNCHANGED svars, \A k \in Lock : Alive(k) => GrantGoes(k)
    PROVE  GrantsKept'
<1>1. granted' = granted /\ destroyed' = destroyed /\ failed' = failed /\ thr' = thr
  BY ServerStill
<1> SUFFICES ASSUME NEW k \in Lock, Alive(k)'
             PROVE  /\ \A t \in Thread :
                         thr'[t].pc = "finish" /\ thr'[t].rc = "error" /\ thr'[t].lock = k
                           => k \in destroyed'
                    /\ SeenGranted(k)' => k \in granted' \cup destroyed'
                    /\ k \in destroyed' => Ended(k)'
                    /\ \A m \in net' : m.lock = k =>
                         /\ m.type = "cancel" => cl'[k].st = "gone"
                         /\ m.type = "astrep" /\ m.rc = "einval" => Ended(k)'
  BY Zenon DEF GrantsKept
<1>2. Alive(k)
  BY <1>1 DEF Alive
<1>3. /\ Held(k)' => Held(k) \/ Told(k)
      /\ \/ /\ cl[k].st = "gone" => cl'[k].st = "gone"
            /\ Ended(k) => Ended(k)'
         \/ k \notin destroyed /\ \A m \in net : m.lock = k => m.type = "enq"
  BY <1>2, Zenon DEF GrantGoes
<1>4. \A m \in net' \ net : m.lock = k =>
        /\ m.type \notin {"cp", "enqrep"}
        /\ m.type = "cancel" => cl'[k].st = "gone"
        /\ m.type = "astrep" /\ m.rc = "einval" => Ended(k)'
  BY <1>2, Zenon DEF GrantGoes
<1>5. ASSUME SeenGranted(k)' PROVE SeenGranted(k)
  <2>1. CASE Held(k)'
    BY <1>3, <2>1, Zenon DEF SeenGranted, Told
  <2>2. ASSUME NEW m \in net', m.lock = k,
               m.type = "cp" \/ (m.type = "enqrep" /\ m.rc = "granted")
        PROVE  SeenGranted(k)
    <3>1. m \in net
      BY <1>4, <2>2
    <3> QED
      BY <2>2, <3>1, Zenon DEF SeenGranted
  <2>3. ASSUME NEW t \in Thread, k \in thr'[t].cp \/ (Enqueues(t, k)' /\ thr'[t].rc = "granted")
        PROVE  SeenGranted(k)
    BY <1>1, <2>3, Zenon DEF SeenGranted, Enqueues
  <2> QED
    BY <1>5, <2>1, <2>2, <2>3, Zenon DEF SeenGranted
<1>6. /\ \A t \in Thread : thr[t].pc = "finish" /\ thr[t].rc = "error" /\ thr[t].lock = k
                             => k \in destroyed
      /\ SeenGranted(k) => k \in granted \cup destroyed
      /\ k \in destroyed => Ended(k)
      /\ \A m \in net : m.lock = k =>
           /\ m.type = "cancel" => cl[k].st = "gone"
           /\ m.type = "astrep" /\ m.rc = "einval" => Ended(k)
  BY <1>2, Zenon DEF GrantsKept
<1>7. \A m \in net' : m.lock = k =>
         /\ m.type = "cancel" => cl'[k].st = "gone"
         /\ m.type = "astrep" /\ m.rc = "einval" => Ended(k)'
  <2> SUFFICES ASSUME NEW m \in net', m.lock = k
               PROVE  /\ m.type = "cancel" => cl'[k].st = "gone"
                      /\ m.type = "astrep" /\ m.rc = "einval" => Ended(k)'
    BY Zenon
  <2>1. CASE m \in net
    <3>1. m.type = "enq" => m.type # "cancel" /\ m.type # "astrep"
      OBVIOUS
    <3> QED
      BY <1>3, <1>6, <2>1, <3>1, Zenon
  <2>2. CASE m \in net' \ net
    BY <1>4, <2>2, Zenon
  <2> QED
    BY <2>1, <2>2, Zenon
<1> QED
  BY <1>1, <1>3, <1>5, <1>6, <1>7, Zenon

\* What the clients' half of BitsKept needs: bits are dropped, or come with the
\* enqueue or with the completion AST; a convert is sent for a granted lock and
\* asks for the bits that are left.
BitsGo(k) ==
    /\ \/ cl'[k].bits \subseteq cl[k].bits
       \/ /\ cl'[k].bits = bits[k] /\ cl[k].st = "none" /\ ~cl[k].granted
          /\ clbug = {}
       \/ /\ ~cl[k].granted /\ cl[k].st # "gone" /\ cl'[k].granted /\ clbug = {}
          /\ \E m \in net : m.lock = k /\ m.type = "cp" /\ m.bits = cl'[k].bits
    /\ cl'[k].st = "none" => cl'[k] = cl[k]
    /\ ~cl'[k].granted /\ cl'[k].st # "gone" => ~cl[k].granted /\ cl[k].st # "gone"
    /\ \A m \in net' \ net : m.lock = k =>
         /\ m.type # "cp"
         /\ m.type = "convert" =>
              /\ m.bits = cl'[k].bits
              /\ clbug' = {} => cl'[k].granted \/ cl'[k].st = "gone"

\* A step of the clients alone keeps BitsKept if every lock goes as said above.
LEMMA ClientBits ==
    ASSUME BitsKept, UNCHANGED svars, clbug' = {} => clbug = {}, \A k \in Lock : BitsGo(k)
    PROVE  BitsKept'
<1>1. bits' = bits /\ thr' = thr
  BY ServerStill
<1> SUFFICES ASSUME NEW k \in Lock
             PROVE  /\ cl'[k].bits \subseteq bits[k]
                    /\ cl'[k].st = "none" => ~cl'[k].granted /\ bits[k] = ReqBits[k]
                    /\ \A b \in SUBSET Bit : ConvReq(k, b) \in net' => cl'[k].bits \subseteq b
                    /\ \A u \in Thread : thr[u].pc = "conv" /\ thr[u].lock = k =>
                                           cl'[k].bits \cap thr[u].drop = {}
                    /\ ~cl'[k].granted /\ cl'[k].st # "gone" =>
                         /\ \A m \in net' : m.lock = k /\ m.type = "cp" => m.bits = bits[k]
                         /\ clbug' = {} =>
                              /\ \A m \in net' : m.lock = k => m.type # "convert"
                              /\ \A u \in Thread : ~(thr[u].pc = "conv" /\ thr[u].lock = k)
  BY <1>1, ZenonT(40) DEF BitsKept, ConvReq
<1>2. /\ cl[k].bits \subseteq bits[k]
      /\ cl[k].st = "none" => ~cl[k].granted /\ bits[k] = ReqBits[k]
      /\ \A b \in SUBSET Bit : ConvReq(k, b) \in net => cl[k].bits \subseteq b
      /\ \A u \in Thread : thr[u].pc = "conv" /\ thr[u].lock = k =>
                             cl[k].bits \cap thr[u].drop = {}
  BY Zenon DEF BitsKept
<1>3. ~cl[k].granted /\ cl[k].st # "gone" =>
        /\ \A m \in net : m.lock = k /\ m.type = "cp" => m.bits = bits[k]
        /\ clbug = {} =>
             /\ \A m \in net : m.lock = k => m.type # "convert"
             /\ \A u \in Thread : ~(thr[u].pc = "conv" /\ thr[u].lock = k)
  BY Zenon DEF BitsKept
<1>4. \A m \in net' \ net : m.lock = k =>
        /\ m.type # "cp"
        /\ m.type = "convert" =>
             /\ m.bits = cl'[k].bits
             /\ clbug' = {} => cl'[k].granted \/ cl'[k].st = "gone"
  BY Zenon DEF BitsGo
<1>5. cl'[k].st = "none" => ~cl'[k].granted /\ bits[k] = ReqBits[k]
  <2>1. cl'[k].st = "none" => cl'[k] = cl[k]
    BY Zenon DEF BitsGo
  <2> QED
    BY <1>2, <2>1, Zenon
<1>6. ASSUME ~cl'[k].granted, cl'[k].st # "gone"
      PROVE  /\ \A m \in net' : m.lock = k /\ m.type = "cp" => m.bits = bits[k]
             /\ clbug' = {} =>
                  /\ \A m \in net' : m.lock = k => m.type # "convert"
                  /\ \A u \in Thread : ~(thr[u].pc = "conv" /\ thr[u].lock = k)
  <2>1. ~cl[k].granted /\ cl[k].st # "gone"
    BY <1>6, Zenon DEF BitsGo
  <2>2. \A m \in net' : m \in net \/ m \in net' \ net
    OBVIOUS
  <2> QED
    BY <1>3, <1>4, <1>6, <2>1, <2>2, Zenon
<1>7. CASE cl'[k].bits \subseteq cl[k].bits
  <2>1. ASSUME NEW b \in SUBSET Bit, ConvReq(k, b) \in net' PROVE cl'[k].bits \subseteq b
    <3>1. CASE ConvReq(k, b) \in net
      BY <1>2, <1>7, <3>1
    <3>2. CASE ConvReq(k, b) \notin net
      <4>1. ConvReq(k, b).lock = k /\ ConvReq(k, b).type = "convert" /\ ConvReq(k, b).bits = b
        BY DEF ConvReq
      <4> QED
        BY <1>4, <2>1, <3>2, <4>1, Zenon
    <3> QED
      BY <3>1, <3>2
  <2>2. cl'[k].bits \subseteq bits[k]
    BY <1>2, <1>7
  <2>3. ASSUME NEW u \in Thread, thr[u].pc = "conv", thr[u].lock = k
        PROVE  cl'[k].bits \cap thr[u].drop = {}
    <3>1. cl[k].bits \cap thr[u].drop = {}
      BY <1>2, <2>3, Zenon
    <3> QED
      BY <1>7, <3>1
  <2> QED
    BY <1>5, <1>6, <2>1, <2>2, <2>3, Zenon
<1>8. CASE ~(cl'[k].bits \subseteq cl[k].bits)
  <2>1. ~cl[k].granted /\ cl[k].st # "gone" /\ clbug = {} /\ cl'[k].bits = bits[k]
    <3>1. CASE cl'[k].bits = bits[k] /\ cl[k].st = "none" /\ ~cl[k].granted /\ clbug = {}
      BY <3>1
    <3>2. CASE /\ ~cl[k].granted /\ cl[k].st # "gone" /\ cl'[k].granted /\ clbug = {}
               /\ \E m \in net : m.lock = k /\ m.type = "cp" /\ m.bits = cl'[k].bits
      BY <1>3, <3>2, Zenon
    <3> QED
      BY <1>8, <3>1, <3>2, Zenon DEF BitsGo
  <2>2. /\ \A m \in net : m.lock = k => m.type # "convert"
        /\ \A u \in Thread : ~(thr[u].pc = "conv" /\ thr[u].lock = k)
    BY <1>3, <2>1, Zenon
  <2>3. ASSUME NEW b \in SUBSET Bit, ConvReq(k, b) \in net' PROVE cl'[k].bits \subseteq b
    <3>1. ConvReq(k, b).lock = k /\ ConvReq(k, b).type = "convert" /\ ConvReq(k, b).bits = b
      BY DEF ConvReq
    <3>2. b = cl'[k].bits
      BY <1>4, <2>2, <2>3, <3>1, Zenon
    <3> QED
      BY <3>2
  <2>4. cl'[k].bits \subseteq bits[k]
    BY <2>1
  <2> QED
    BY <1>5, <1>6, <2>2, <2>3, <2>4, Zenon
<1> QED
  BY <1>7, <1>8, Zenon

\* ldlm_cli_enqueue: the new lock asks for the bits its enqueue will carry.
LEMMA CliEnqueueCoherence ==
    ASSUME CInv, EvictionInv, CoherenceInv, clbug = {}, UNCHANGED svars, NEW l \in Lock,
           CliEnqueue(l)
    PROVE  CoherenceInv'
<1>1. GrantsKept /\ BitsKept
  BY DEF CoherenceInv
<1>2. /\ cl[l].st = "none" /\ net' = net \cup {EnqReq(l)} /\ clbug' = clbug
  BY DEF CliEnqueue
<1>3. /\ cl'[l].st = "enq" /\ ~cl'[l].granted /\ cl'[l].bits = ReqBits[l]
      /\ \A k \in Lock : k # l => cl'[k] = cl[k]
  <2> DEFINE b == ReqBits[l]
             d == [NewLock EXCEPT !.st = "enq", !.ref = TRUE, !.bits = b]
  <2>1. cl' = [cl EXCEPT ![l] = d]
    BY DEF CliEnqueue
  <2>2. d.st = "enq" /\ d.granted = FALSE /\ d.bits = b
    BY Zenon DEF NewLock
  <2> HIDE DEF d
  <2> QED
    BY <2>1, <2>2, ClientChanged, Zenon
<1>4. \A m \in net' \ net : m.type = "enq" /\ m.lock = l
  BY <1>2 DEF EnqReq
<1>5. ~cl[l].granted /\ bits[l] = ReqBits[l]
  BY <1>1, <1>2, Zenon DEF BitsKept
<1>6. BitsKept'
  <2>1. ASSUME NEW k \in Lock PROVE BitsGo(k)
    <3>1. \A m \in net' \ net : m.type # "cp" /\ m.type # "convert"
      BY <1>4
    <3>2. CASE k = l
      <4>1. cl[l].st # "gone" /\ cl'[l].st # "none"
        BY <1>2, <1>3
      <4> QED
        BY <1>2, <1>3, <1>5, <3>1, <3>2, <4>1, Zenon DEF BitsGo
    <3>3. CASE k # l
      BY <1>3, <3>1, <3>3, Zenon DEF BitsGo
    <3> QED
      BY <3>2, <3>3, Zenon
  <2> QED
    BY <1>1, <1>2, <2>1, ClientBits
<1>7. ASSUME NEW k \in Lock, Alive(k) PROVE GrantGoes(k)
  <2>1. \A m \in net' \ net : m.type \notin {"cp", "enqrep", "cancel", "astrep"}
    BY <1>4
  <2>2. CASE k = l
    <3>1. Fresh(l)
      BY <1>2, Zenon DEF Fresh
    <3>2. l \notin destroyed /\ \A m \in net : m.lock = l => m.type = "enq"
      BY <1>7, <2>2, <3>1, Zenon DEF EvictionInv, FreshUntouched
    <3>3. ~Held(l)'
      BY <1>3, Zenon DEF Held
    <3> QED
      BY <2>1, <2>2, <3>2, <3>3, Zenon DEF GrantGoes
  <2>3. CASE k # l
    <3>1. cl'[k] = cl[k]
      BY <1>3, <2>3, Zenon
    <3> QED
      BY <2>1, <3>1, Zenon DEF GrantGoes, Held, Ended
  <2> QED
    BY <2>2, <2>3, Zenon
<1> QED
  BY <1>1, <1>6, <1>7, ClientGrants, Zenon DEF CoherenceInv

\* The other steps of a client.
LEMMA ClientCoherence ==
    ASSUME CInv, EvictionInv, CoherenceInv, clbug = {}, UNCHANGED svars, NEW l \in Lock,
           ClientStep(l)
    PROVE  CoherenceInv'
<1>1. CASE CliEnqueue(l)
  BY <1>1, CliEnqueueCoherence
<1>2. CASE CliGoes(l) /\ CliSends(l)
  <2>1. GrantsKept /\ BitsKept
    BY DEF CoherenceInv
  <2>2. ASSUME NEW k \in Lock PROVE BitsGo(k)
    <3>1. CASE k = l
      <4>1. /\ cl'[l].st = "none" => cl'[l] = cl[l]
            /\ cl[l].st = "gone" => cl'[l].st = "gone"
            /\ cl[l].granted => cl'[l].granted \/ cl'[l].st = "gone"
            /\ \/ cl'[l].bits \subseteq cl[l].bits
               \/ /\ ~cl[l].granted /\ cl[l].st # "gone" /\ cl'[l].granted
                  /\ \E m \in net : m.lock = l /\ m.type = "cp" /\ m.bits = cl'[l].bits
        BY <1>2, Zenon DEF CliGoes
      <4>2. \A m \in net' \ net :
              /\ m.type \in {"cancel", "convert", "astrep"}
              /\ m.type = "convert" => m.bits = cl'[l].bits /\ (clbug' = {} => cl[l].granted)
        BY <1>2 DEF CliSends
      <4>3. \A m \in net' \ net : m.type # "cp"
        BY <4>2
      <4> QED
        BY <3>1, <4>1, <4>2, <4>3, Zenon DEF BitsGo
    <3>2. CASE k # l
      <4>1. cl'[k] = cl[k] /\ \A m \in net' \ net : m.lock # k
        BY <1>2, <3>2, Zenon DEF CliGoes, CliSends
      <4> QED
        BY <4>1, Zenon DEF BitsGo
    <3> QED
      BY <3>1, <3>2
  <2>3. BitsKept'
    <3>1. clbug' = {} => clbug = {}
      OBVIOUS
    <3> QED
      BY <2>1, <2>2, <3>1, ClientBits
  <2>4. ASSUME NEW k \in Lock, Alive(k) PROVE GrantGoes(k)
    <3>1. CASE k = l
      <4>1. /\ cl[l].st = "gone" => cl'[l].st = "gone"
            /\ Ended(l) => Ended(l)'
            /\ Held(l)' => Held(l) \/ Told(l)
        BY <1>2, Zenon DEF CliGoes
      <4>2. ASSUME NEW m \in net' \ net, m.type = "astrep", m.rc = "einval"
            PROVE  Ended(l)'
        <5>1. /\ Ended(l) \/ cl[l].st = "none"
              /\ \E n \in net : n.lock = l /\ n.type \in {"bl", "cp"}
          BY <1>2, <4>2 DEF CliSends
        <5>2. ~Fresh(l)
          BY <5>1 DEF EvictionInv, FreshUntouched
        <5> QED
          BY <4>1, <5>1, <5>2, Zenon DEF Fresh
      <4>3. \A m \in net' \ net : /\ m.type \notin {"cp", "enqrep"}
                                  /\ m.type = "cancel" => cl'[l].st = "gone"
        BY <1>2 DEF CliSends
      <4> QED
        BY <3>1, <4>1, <4>2, <4>3, Zenon DEF GrantGoes
    <3>2. CASE k # l
      <4>1. cl'[k] = cl[k] /\ \A m \in net' \ net : m.lock # k
        BY <1>2, <3>2, Zenon DEF CliGoes, CliSends
      <4> QED
        BY <4>1, Zenon DEF GrantGoes, Held, Ended
    <3> QED
      BY <3>1, <3>2
  <2> QED
    BY <2>1, <2>3, <2>4, ClientGrants, Zenon DEF CoherenceInv
<1> QED
  BY <1>1, <1>2, ClientGoes, Zenon

\* An evicted client marks its locks failed, and keeps mode and bits.
LEMMA LearnEvictionCoherence ==
    ASSUME CInv, CoherenceInv, NEW c \in Client, LearnEviction(c)
    PROVE  CoherenceInv'
<1>1. GrantsKept /\ BitsKept
  BY DEF CoherenceInv
<1>2. c \in failed /\ net' = net /\ clbug' = clbug /\ UNCHANGED svars
  BY Zenon DEF LearnEviction, InvalidateImport
<1>3. ASSUME NEW k \in Lock
      PROVE  \/ cl'[k] = cl[k]
             \/ /\ Owner[k] = c /\ Known(k) /\ cl'[k].st = "held"
                /\ cl'[k].granted = cl[k].granted /\ cl'[k].bits = cl[k].bits
  <2>1. cl[k] \in ClientLock
    BY DEF CInv, ClientTypeOK
  <2> QED
    BY <2>1, LearnEvictionChanges, CleanupResourceFields, ZenonT(40) DEF SameGrant
<1>4. ASSUME NEW k \in Lock PROVE BitsGo(k)
  <2>1. CASE cl'[k] = cl[k]
    BY <1>2, <2>1, Zenon DEF BitsGo
  <2>2. CASE /\ Known(k) /\ cl'[k].st = "held"
             /\ cl'[k].granted = cl[k].granted /\ cl'[k].bits = cl[k].bits
    <3>1. cl[k].st # "gone" /\ cl'[k].st # "none" /\ cl'[k].bits \subseteq cl[k].bits
      BY <2>2 DEF Known
    <3> QED
      BY <1>2, <2>2, <3>1, Zenon DEF BitsGo
  <2> QED
    BY <1>3, <2>1, <2>2, Zenon
<1>5. ASSUME NEW k \in Lock, Alive(k) PROVE GrantGoes(k)
  <2>1. cl'[k] = cl[k]
    BY <1>2, <1>3, <1>5, Zenon DEF Alive
  <2>2. \A m \in net' \ net : FALSE
    BY <1>2
  <2>3. (Held(k)' <=> Held(k)) /\ (Ended(k)' <=> Ended(k))
    BY <2>1 DEF Held, Ended
  <2>4. cl[k].st = "gone" => cl'[k].st = "gone"
    BY <2>1, Zenon
  <2> QED
    BY <2>2, <2>3, <2>4, Zenon DEF GrantGoes
<1> QED
  BY <1>1, <1>2, <1>4, <1>5, ClientBits, ClientGrants, Zenon DEF CoherenceInv

-----------------------------------------------------------------------------
(* The theorems about coherence.                                           *)

\* No step of the server or of a client breaks the coherence invariant.
LEMMA NextKeepsCoherence ==
    (TypeInv /\ EvictionInv /\ CoherenceInv) /\ [Next]_vars => CoherenceInv'
<1> SUFFICES ASSUME TypeInv, EvictionInv, CoherenceInv, [Next]_vars PROVE CoherenceInv'
  OBVIOUS
<1>1. SInv /\ CInv
  BY DEF TypeInv, TypeOK, SInv, CInv
<1>2. CASE Running /\ ServerNext /\ UNCHANGED cvars
  <2>1. cl' = cl /\ clbug' = clbug /\ clbug = {}
    BY <1>2 DEF cvars, Running
  <2> QED
    BY <1>1, <1>2, <2>1, ServerCoherence
<1>3. ASSUME Running, NEW l \in Lock, ClientStep(l), UNCHANGED svars PROVE CoherenceInv'
  BY <1>1, <1>3, ClientCoherence DEF Running
<1>4. ASSUME NEW c \in Client, LearnEviction(c) PROVE CoherenceInv'
  BY <1>1, <1>4, LearnEvictionCoherence
<1>5. CASE UNCHANGED vars
  <2>1. /\ cl' = cl /\ clbug' = clbug /\ bits' = bits /\ thr' = thr /\ net' \subseteq net
        /\ granted' = granted /\ destroyed' = destroyed /\ failed \subseteq failed'
    BY <1>5 DEF vars, cvars, svars, queues, exports
  <2> QED
    BY <2>1, SameCohere, SilentSends, QuietEnds, CoherenceGoOn
<1> QED
  BY <1>2, <1>3, <1>4, <1>5, Zenon DEF Next

\* At the start no lock is granted.
LEMMA InitCoherence == Init => CoherenceInv
<1> SUFFICES ASSUME Init PROVE CoherenceInv
  OBVIOUS
<1>1. /\ destroyed = {} /\ net = {}
      /\ \A l \in Lock : cl[l] = NewLock /\ bits[l] = ReqBits[l]
      /\ \A t \in Thread : thr[t] = Idle
  BY Zenon DEF Init, ServerInit, ClientInit
<1>2. /\ Idle.pc = "idle" /\ Idle.ctx = "none" /\ Idle.cp = {}
      /\ NewLock.st = "none" /\ NewLock.granted = FALSE /\ NewLock.bits = {}
  BY Zenon DEF Idle, NewLock
<1>3. ASSUME NEW l \in Lock PROVE ~SeenGranted(l)
  BY <1>1, <1>2, Zenon DEF SeenGranted, Held, Enqueues
<1>4. GrantsKept
  <2>1. \A t \in Thread : thr[t].pc # "finish"
    BY <1>1, <1>2
  <2> QED
    BY <1>1, <1>3, <2>1, Zenon DEF GrantsKept
<1>5. BitsKept
  <2>1. \A t \in Thread : thr[t].pc # "conv"
    BY <1>1, <1>2
  <2> QED
    BY <1>1, <1>2, <2>1, Zenon DEF BitsKept
<1> QED
  BY <1>4, <1>5 DEF CoherenceInv

-----------------------------------------------------------------------------
(* The assertions of the server, where locks are not converted.            *)

ServerAsserts == WorkListed /\ NeverConverted /\ lbug = {}

\* No message and no thread starts a convert.
LEMMA NoneConverts ==
    ASSUME NeverConverted, cl' = cl,
           \A m \in net' \ net : m.type \notin {"convert", "convrep"},
           \A u \in Thread : thr'[u].pc # "conv" /\ thr'[u].ctx # "conv"
    PROVE  NeverConverted'
<1>1. \A m \in net' : m.type \notin {"convert", "convrep"}
  BY Zenon DEF NeverConverted
<1> QED
  BY <1>1, Zenon DEF NeverConverted

\* A step that calls nobody back.
LEMMA QuietAsserts ==
    ASSUME SInv, ServerAsserts, cl' = cl, astSent' = astSent, blAstRun' = blAstRun,
           blocking' = blocking, lbug' = lbug,
           \A m \in net' \ net : m.type \notin {"convert", "convrep"},
           \A u \in Thread :
             /\ thr'[u].pc # "conv" /\ thr'[u].ctx # "conv" /\ thr'[u].bl \subseteq thr[u].bl
             /\ thr'[u].pc = "blfin" => thr[u].pc = "blfin" /\ thr'[u].cur = thr[u].cur
    PROVE  ServerAsserts'
<1>1. NeverConverted'
  BY NoneConverts, Zenon DEF ServerAsserts
<1>2. WorkListed
  BY DEF ServerAsserts
<1>3. WorkListed'
  <2>1. \A u \in Thread : \A c \in thr'[u].bl : c \in thr[u].bl
    BY Zenon
  <2>2. ASSUME NEW u \in Thread
        PROVE  /\ thr'[u].pc = "blfin" => thr'[u].cur \in blAstRun
               /\ \A c \in thr'[u].bl :
                    /\ c \in astSent \ blAstRun /\ blocking[c] # NoLock
                    /\ \A v \in Thread : c \in thr'[v].bl => v = u
    <3>1. thr'[u].pc = "blfin" => thr[u].pc = "blfin" /\ thr'[u].cur = thr[u].cur
      BY Zenon
    <3> QED
      BY <1>2, <2>1, <3>1, Zenon DEF WorkListed
  <2> QED
    BY <1>2, <2>2, Zenon DEF WorkListed
<1> QED
  BY <1>1, <1>3 DEF ServerAsserts

\* The same for a thread that goes on with its handler.
LEMMA MovesAsserts ==
    ASSUME SInv, ServerAsserts, cl' = cl, astSent' = astSent, blAstRun' = blAstRun,
           blocking' = blocking, lbug' = lbug,
           \A m \in net' \ net : m.type \notin {"convert", "convrep"},
           NEW t \in Thread, NEW pc, NEW cp, NEW out, NEW rescan, NEW rc,
           Moves(t, pc, thr[t].bl, cp, out, rescan, rc), pc # "conv",
           pc = "blfin" => thr[t].pc = "blfin" /\ thr'[t].cur = thr[t].cur
    PROVE  ServerAsserts'
<1>1. \A u \in Thread : thr[u].pc # "conv" /\ thr[u].ctx # "conv"
  BY Zenon DEF ServerAsserts, NeverConverted
<1>2. ASSUME NEW u \in Thread
      PROVE  /\ thr'[u].pc # "conv" /\ thr'[u].ctx # "conv" /\ thr'[u].bl \subseteq thr[u].bl
             /\ thr'[u].pc = "blfin" => thr[u].pc = "blfin" /\ thr'[u].cur = thr[u].cur
  <2>1. CASE u = t
    <3>1. thr'[t].pc = pc /\ thr'[t].ctx = thr[t].ctx /\ thr'[t].bl = thr[t].bl
      BY Zenon DEF Moves
    <3> QED
      BY <1>1, <2>1, <3>1, Zenon
  <2>2. CASE u # t
    <3>1. thr'[u] = thr[u]
      BY <2>2, Zenon DEF Moves
    <3> QED
      BY <1>1, <3>1, Zenon
  <2> QED
    BY <2>1, <2>2, Zenon
<1> QED
  BY <1>2, QuietAsserts, Zenon

\* Every step of the server.
LEMMA ServerNextAsserts ==
    ASSUME SInv, ServerAsserts, cl' = cl, ServerNext
    PROVE  ServerAsserts'
\* ldlm_add_bl_work_item: a lock that was not called back is on no work list
\* and has no blocking lock.
<1>1. ASSUME net' = net, blAstRun' = blAstRun,
             NEW t \in Thread, NEW N, NEW l \in Lock, AddBlWork(N, l),
             N \subseteq Lock, N \cap astSent = {},
             NEW cp, NEW out, NEW rescan, NEW rc, Moves(t, "bl", N, cp, out, rescan, rc)
      PROVE  ServerAsserts'
  <2> USE <1>1
  <2>1. WorkListed /\ NeverConverted /\ lbug = {}
    BY DEF ServerAsserts
  <2>2. /\ astSent' = astSent \cup N
        /\ \A c \in Lock : blocking'[c] = IF c \in N THEN l ELSE blocking[c]
    BY Zenon DEF AddBlWork
  <2>3. \A c \in N : c \notin astSent /\ c \in Lock
    OBVIOUS
  <2>4. /\ \A c \in N, u \in Thread : c \notin thr[u].bl
        /\ \A c \in N : blocking[c] = NoLock
    BY <2>1, <2>3, Zenon DEF WorkListed
  <2>5. lbug' = {}
    BY <2>1, <2>4, Zenon DEF AddBlWork, LAssert
  <2>6. /\ thr'[t].pc = "bl" /\ thr'[t].ctx = thr[t].ctx /\ thr'[t].bl = N
        /\ \A u \in Thread : u # t => thr'[u] = thr[u]
    BY Zenon DEF Moves
  <2>7. NeverConverted'
    <3>1. \A u \in Thread : thr'[u].pc # "conv" /\ thr'[u].ctx # "conv"
      <4>1. \A u \in Thread : thr[u].pc # "conv" /\ thr[u].ctx # "conv"
        BY <2>1, Zenon DEF NeverConverted
      <4>2. thr'[t].pc # "conv"
        BY <2>6
      <4> QED
        BY <2>6, <4>1, <4>2, Zenon
    <3>2. \A m \in net' \ net : m.type \notin {"convert", "convrep"}
      OBVIOUS
    <3> QED
      BY <2>1, <3>1, <3>2, NoneConverts
  <2>8. l # NoLock
    BY LockAssumption
  <2>9. ASSUME NEW u \in Thread
        PROVE  /\ thr'[u].pc = "blfin" => thr'[u].cur \in blAstRun'
               /\ \A c \in thr'[u].bl :
                    /\ c \in astSent' \ blAstRun' /\ blocking'[c] # NoLock
                    /\ \A v \in Thread : c \in thr'[v].bl => v = u
    <3>1. CASE u = t
      <4>1. thr'[u].pc # "blfin" /\ thr'[u].bl = N
        BY <2>6, <3>1
      <4>2. ASSUME NEW c \in N
            PROVE  c \in astSent' \ blAstRun' /\ blocking'[c] # NoLock
        BY <2>1, <2>2, <2>3, <2>8, Zenon DEF WorkListed
      <4>3. ASSUME NEW c \in N, NEW v \in Thread, c \in thr'[v].bl PROVE v = u
        BY <2>4, <2>6, <3>1, <4>3, Zenon
      <4> QED
        BY <4>1, <4>2, <4>3, Zenon
    <3>2. CASE u # t
      <4>1. thr'[u] = thr[u]
        BY <2>6, <3>2, Zenon
      <4>2. ASSUME NEW c \in thr[u].bl
            PROVE  c \in astSent' \ blAstRun' /\ blocking'[c] # NoLock
        <5>1. c \in astSent \ blAstRun /\ blocking[c] # NoLock /\ c \in Lock
          BY <2>1, Zenon DEF WorkListed, SInv, ServerTypeOK
        <5>2. c \notin N
          BY <5>1
        <5> QED
          BY <2>2, <5>1, <5>2
      <4>3. ASSUME NEW c \in thr[u].bl, NEW v \in Thread, c \in thr'[v].bl PROVE v = u
        <5>1. CASE v = t
          BY <2>4, <2>6, <4>3, <5>1, Zenon
        <5>2. CASE v # t
          BY <2>1, <2>6, <4>3, <5>2, Zenon DEF WorkListed
        <5> QED
          BY <5>1, <5>2
      <4>4. thr[u].pc = "blfin" => thr[u].cur \in blAstRun'
        BY <2>1, Zenon DEF WorkListed
      <4> QED
        BY <4>1, <4>2, <4>3, <4>4, Zenon
    <3> QED
      BY <3>1, <3>2, Zenon
  <2>10. blAstRun' \subseteq astSent' /\ \A c \in Lock : blocking'[c] # NoLock => c \in astSent'
    BY <2>1, <2>2, Zenon DEF WorkListed
  <2> QED
    BY <2>5, <2>7, <2>9, <2>10, Zenon DEF ServerAsserts, WorkListed
\* The policy.
<1>2. ASSUME net' = net, blAstRun' = blAstRun,
             NEW t \in Thread, NEW l \in Lock, l = thr[t].lock, ProcessEnqueue(t, l)
      PROVE  ServerAsserts'
  <2> USE <1>2
  <2> DEFINE C == Conflicts(l, granted \cup QueueAhead(l))
  <2>1. \A m \in net' \ net : m.type \notin {"convert", "convrep"}
    OBVIOUS
  <2>2. CASE /\ Become(t, [thr[t] EXCEPT !.pc = "finish", !.rc = "granted"])
             /\ UNCHANGED <<ahead, astSent, blocking, lbug>>
    <3>1. Moves(t, "finish", thr[t].bl, thr[t].cp, thr[t].out, thr[t].rescan, "granted")
      BY <2>2, FinishMoves, Zenon
    <3> QED
      BY <2>1, <2>2, <3>1, MovesAsserts, Zenon
  <2>3. CASE /\ AddBlWork(ToCallBack(C), l)
             /\ Become(t, [thr[t] EXCEPT !.pc = "bl", !.bl = ToCallBack(C), !.restart = FALSE])
    <3>1. PICK N : N = ToCallBack(C)
      OBVIOUS
    <3>2. N \subseteq Lock /\ N \cap astSent = {}
      BY <3>1, Zenon DEF ToCallBack, Conflicts, QueueAhead, SInv, ServerTypeOK
    <3>3. /\ AddBlWork(N, l)
          /\ Become(t, [thr[t] EXCEPT !.pc = "bl", !.bl = N, !.restart = FALSE])
      BY <2>3, <3>1
    <3>4. Moves(t, "bl", N, thr[t].cp, thr[t].out, thr[t].rescan, thr[t].rc)
      BY <3>3, BlockMoves, Zenon
    <3> QED
      BY <3>2, <3>3, <3>4, <1>1
  <2> QED
    BY <2>2, <2>3, Zenon DEF ProcessEnqueue
\* The enqueue handler.
<1>3. ASSUME NEW t \in Thread,
             LockEnqueue(t) \/ EnqueueBlDone(t)
      PROVE  ServerAsserts'
  <2> USE <1>3
  <2>1. net' = net /\ blAstRun' = blAstRun /\ thr[t].lock \in Lock
    <3>1. CASE LockEnqueue(t)
      BY <3>1, ThreadTyped, Zenon DEF LockEnqueue, ThreadLocks, SInv, ServerTypeOK
    <3>2. CASE EnqueueBlDone(t)
      BY <3>2, ThreadTyped, Zenon DEF EnqueueBlDone, AstWorkDone, ThreadLocks, SInv, ServerTypeOK
    <3> QED
      BY <3>1, <3>2
  <2>2. CASE ProcessEnqueue(t, thr[t].lock)
    BY <2>1, <2>2, <1>2
  <2>3. ASSUME NEW rc, Become(t, [thr[t] EXCEPT !.pc = "finish", !.rc = rc]),
               UNCHANGED <<granted, waiting, ahead, astSent, blocking, lbug>>
        PROVE  ServerAsserts'
    <3>1. Moves(t, "finish", thr[t].bl, thr[t].cp, thr[t].out, thr[t].rescan, rc)
      BY <2>3, FinishMoves, Zenon
    <3>2. \A m \in net' \ net : m.type \notin {"convert", "convrep"}
      BY <2>1
    <3> QED
      BY <2>1, <2>3, <3>1, <3>2, MovesAsserts, Zenon
  <2> QED
    BY <2>2, <2>3, Zenon DEF LockEnqueue, EnqueueBlDone
\* ldlm_handle_enqueue0 before and after the policy, and the scan's end.
<1>4. ASSUME NEW t \in Thread,
             ExportAddLock(t) \/ EnqueueFinish(t) \/ ReprocessBlDone(t)
      PROVE  ServerAsserts'
  <2> USE <1>4
  <2>1. /\ net' = net /\ lbug' = lbug /\ astSent' = astSent /\ blAstRun' = blAstRun
        /\ blocking' = blocking
    BY DEF ExportAddLock, EnqueueFinish, ReprocessBlDone, astState
  <2>2. \A m \in net' \ net : m.type \notin {"convert", "convrep"}
    BY <2>1
  <2>3. \E pc \in {"policy", "cp", "reproc"} : \E rc :
          Moves(t, pc, thr[t].bl, thr[t].cp, thr[t].out, thr[t].rescan, rc)
    <3>1. CASE ExportAddLock(t)
      BY <3>1, ExportAddLockMoves, Zenon
    <3>2. CASE EnqueueFinish(t)
      <4>1. PICK pc \in {"cp", "reproc"} :
              \/ Become(t, [thr[t] EXCEPT !.pc = pc, !.rc = "error"])
              \/ Become(t, [thr[t] EXCEPT !.pc = pc, !.ast = (thr[t].lock \in astSent)])
        BY <3>2, Zenon DEF EnqueueFinish
      <4> QED
        BY <4>1, DeadMoves, DoneMoves, Zenon
    <3>3. CASE ReprocessBlDone(t)
      <4>1. PICK pc \in {"cp", "reproc"} :
              Become(t, [thr[t] EXCEPT !.pc = pc, !.restart = FALSE])
        BY <3>3, Zenon DEF ReprocessBlDone
      <4> QED
        BY <4>1, ScanBlDoneMoves, Zenon
    <3> QED
      BY <3>1, <3>2, <3>3, Zenon
  <2>pc. PICK pc \in {"policy", "cp", "reproc"} : \E rc :
          Moves(t, pc, thr[t].bl, thr[t].cp, thr[t].out, thr[t].rescan, rc)
    BY <2>3, Zenon
  <2>4. PICK rc :
          /\ pc \in {"policy", "cp", "reproc"}
          /\ Moves(t, pc, thr[t].bl, thr[t].cp, thr[t].out, thr[t].rescan, rc)
    BY <2>pc
  <2>5. pc # "conv" /\ pc # "blfin"
    BY <2>4
  <2> QED
    BY <2>1, <2>2, <2>4, <2>5, MovesAsserts, Zenon
\* ldlm_reprocess_queue.
<1>5. ASSUME NEW t \in Thread, Reprocess(t)
      PROVE  ServerAsserts'
  <2> USE <1>5
  <2>1. net' = net /\ blAstRun' = blAstRun
    BY Zenon DEF Reprocess
  <2>2. \A m \in net' \ net : m.type \notin {"convert", "convrep"}
    BY <2>1
  <2>3. CASE /\ Become(t, [thr[t] EXCEPT !.pc = "cp", !.rescan = TRUE,
                             !.restart = FALSE, !.cp = @ \cup Grantable])
             /\ UNCHANGED <<astSent, blocking, lbug>>
    <3>1. Moves(t, "cp", thr[t].bl, thr[t].cp \cup Grantable, thr[t].out, TRUE, thr[t].rc)
      BY <2>3, ScanEndMoves, Zenon
    <3> QED
      BY <2>1, <2>2, <2>3, <3>1, MovesAsserts, Zenon
  <2>4. ASSUME NEW l \in FirstBlocked, NEW N,
               N = ToCallBack(Conflicts(l, granted \cup Grantable)), AddBlWork(N, l),
               Become(t, [thr[t] EXCEPT !.pc = "bl", !.bl = N, !.rescan = TRUE,
                                !.restart = FALSE, !.cp = @ \cup Grantable])
        PROVE  ServerAsserts'
    <3>1. N \subseteq Lock /\ N \cap astSent = {} /\ l \in Lock
      BY <2>4 DEF ToCallBack, Conflicts, FirstBlocked, Grantable, SInv, ServerTypeOK
    <3>2. Moves(t, "bl", N, thr[t].cp \cup Grantable, thr[t].out, TRUE, thr[t].rc)
      BY <2>4, ScanBlockMoves, Zenon
    <3> QED
      BY <2>1, <2>4, <3>1, <3>2, <1>1, Zenon
  <2> QED
    BY <2>3, <2>4, Zenon DEF Reprocess
\* ldlm_work_bl_ast_lock takes the lock off its one work list.
<1>6. ASSUME NEW t \in Thread, NEW c \in Lock, BlAstSend(t, c)
      PROVE  ServerAsserts'
  <2> USE <1>6
  <2>1. WorkListed /\ NeverConverted /\ lbug = {}
    BY DEF ServerAsserts
  <2>2. /\ c \in thr[t].bl /\ blAstRun' = blAstRun \cup {c}
        /\ astSent' = astSent /\ blocking' = blocking
    BY Zenon DEF BlAstSend
  <2>3. /\ c \in astSent /\ c \notin blAstRun /\ blocking[c] # NoLock
        /\ \A u \in Thread : c \in thr[u].bl => u = t
    BY <2>1, <2>2 DEF WorkListed
  <2>4. lbug' = {}
    BY <2>1, <2>3 DEF BlAstSend, LAssert
  <2>5. PICK o : Moves(t, "blfin", thr[t].bl \ {c}, thr[t].cp, o, thr[t].rescan, thr[t].rc)
                 /\ thr'[t].cur = c
    <3>1. PICK o : Become(t, [thr[t] EXCEPT !.pc = "blfin", !.bl = @ \ {c}, !.cur = c, !.out = o])
      BY Zenon DEF BlAstSend
    <3> QED
      BY <3>1, BlAstSendMoves, Zenon
  <2>6. /\ thr'[t].pc = "blfin" /\ thr'[t].ctx = thr[t].ctx /\ thr'[t].bl = thr[t].bl \ {c}
        /\ thr'[t].cur = c
        /\ \A u \in Thread : u # t => thr'[u] = thr[u]
    BY <2>5, Zenon DEF Moves
  <2>7. NeverConverted'
    <3>1. \A u \in Thread : thr'[u].pc # "conv" /\ thr'[u].ctx # "conv"
      <4>1. \A u \in Thread : thr[u].pc # "conv" /\ thr[u].ctx # "conv"
        BY <2>1, Zenon DEF NeverConverted
      <4>2. thr'[t].pc # "conv"
        BY <2>6
      <4> QED
        BY <2>6, <4>1, <4>2, Zenon
    <3>2. \A m \in net' \ net : m.type \notin {"convert", "convrep"}
      <4>1. \A m \in net' \ net : m = BlAst(c, bits[blocking[c]], t)
        BY Zenon DEF BlAstSend
      <4>2. BlAst(c, bits[blocking[c]], t).type = "bl"
        BY DEF BlAst
      <4> QED
        BY <4>1, <4>2
    <3> QED
      BY <2>1, <3>1, <3>2, NoneConverts
  <2>8. \A u \in Thread : \A d \in thr'[u].bl : d \in thr[u].bl /\ d # c
    BY <2>3, <2>6
  <2>9. ASSUME NEW u \in Thread
        PROVE  /\ thr'[u].pc = "blfin" => thr'[u].cur \in blAstRun'
               /\ \A d \in thr'[u].bl :
                    /\ d \in astSent' \ blAstRun' /\ blocking'[d] # NoLock
                    /\ \A v \in Thread : d \in thr'[v].bl => v = u
    <3>1. \A d \in thr[u].bl : /\ d \in astSent \ blAstRun /\ blocking[d] # NoLock
                               /\ \A v \in Thread : d \in thr[v].bl => v = u
      BY <2>1, Zenon DEF WorkListed
    <3>2. thr[u].pc = "blfin" => thr[u].cur \in blAstRun
      BY <2>1, Zenon DEF WorkListed
    <3>3. thr'[u].pc = "blfin" => thr'[u].cur \in blAstRun'
      BY <2>2, <2>6, <3>2
    <3> QED
      BY <2>2, <2>8, <3>1, <3>3
  <2>10. blAstRun' \subseteq astSent' /\ \A d \in Lock : blocking'[d] # NoLock => d \in astSent'
    BY <2>1, <2>2, <2>3 DEF WorkListed
  <2> QED
    BY <2>4, <2>7, <2>9, <2>10, Zenon DEF ServerAsserts, WorkListed
\* l_blocking_lock is dropped for a lock that is on no work list any more.
<1>7. ASSUME NEW t \in Thread, BlAstFini(t)
      PROVE  ServerAsserts'
  <2> USE <1>7
  <2>1. WorkListed /\ NeverConverted /\ lbug = {}
    BY DEF ServerAsserts
  <2>2. /\ thr[t].pc = "blfin" /\ blAstRun' = blAstRun /\ astSent' = astSent /\ net' = net
        /\ lbug' = lbug
    BY DEF BlAstFini
  <2>3. PICK c : c = thr[t].cur
    OBVIOUS
  <2>4. \A d \in Lock : blocking'[d] = IF d = c THEN NoLock ELSE blocking[d]
    BY <2>3 DEF BlAstFini, SInv, ServerTypeOK
  <2>5. c \in blAstRun
    BY <2>1, <2>2, <2>3, Zenon DEF WorkListed
  <2>6. /\ thr'[t].pc = "bl" /\ thr'[t].ctx = thr[t].ctx /\ thr'[t].bl = thr[t].bl
        /\ \A u \in Thread : u # t => thr'[u] = thr[u]
    BY BlAstFiniMoves, Zenon DEF Moves
  <2>7. NeverConverted'
    <3>1. \A u \in Thread : thr'[u].pc # "conv" /\ thr'[u].ctx # "conv"
      <4>1. \A u \in Thread : thr[u].pc # "conv" /\ thr[u].ctx # "conv"
        BY <2>1, Zenon DEF NeverConverted
      <4>2. thr'[t].pc # "conv"
        BY <2>6
      <4> QED
        BY <2>6, <4>1, <4>2, Zenon
    <3>2. \A m \in net' \ net : m.type \notin {"convert", "convrep"}
      BY <2>2
    <3> QED
      BY <2>1, <3>1, <3>2, NoneConverts
  <2>8. ASSUME NEW u \in Thread
        PROVE  /\ thr'[u].pc = "blfin" => thr'[u].cur \in blAstRun'
               /\ \A d \in thr'[u].bl :
                    /\ d \in astSent' \ blAstRun' /\ blocking'[d] # NoLock
                    /\ \A v \in Thread : d \in thr'[v].bl => v = u
    <3>1. \A v \in Thread : thr'[v].bl = thr[v].bl
      BY <2>6, Zenon
    <3>2. \A d \in thr[u].bl : /\ d \in astSent \ blAstRun /\ blocking[d] # NoLock /\ d \in Lock
                               /\ \A v \in Thread : d \in thr[v].bl => v = u
      <4>1. thr[u].bl \subseteq Lock
        BY ThreadTyped DEF ThreadState
      <4> QED
        BY <2>1, <4>1, Zenon DEF WorkListed
    <3>3. \A d \in thr[u].bl : blocking'[d] # NoLock
      BY <2>4, <2>5, <3>2
    <3>4. thr'[u].pc = "blfin" => thr'[u].cur \in blAstRun
      <4>1. CASE u = t
        BY <2>6, <4>1
      <4>2. CASE u # t
        BY <2>1, <2>6, <4>2, Zenon DEF WorkListed
      <4> QED
        BY <4>1, <4>2
    <3> QED
      BY <2>2, <3>1, <3>2, <3>3, <3>4, Zenon
  <2>9. blAstRun' \subseteq astSent' /\ \A d \in Lock : blocking'[d] # NoLock => d \in astSent'
    BY <2>1, <2>2, <2>4 DEF WorkListed
  <2> QED
    BY <2>1, <2>2, <2>7, <2>8, <2>9, Zenon DEF ServerAsserts, WorkListed
\* ldlm_work_cp_ast_lock, and the answers to ASTs.
<1>8. ASSUME NEW t \in Thread, NEW c \in Lock,
             CpAstSend(t, c) \/ AstTimeout(t, c) \/ \E rc \in AstRc : AstReply(t, c, rc)
      PROVE  ServerAsserts'
  <2> USE <1>8
  <2>1. /\ lbug' = lbug /\ astSent' = astSent /\ blAstRun' = blAstRun /\ blocking' = blocking
    BY Zenon DEF CpAstSend, AstTimeout, AstReply, astState
  <2>2. \A u \in Thread : thr[u].pc # "conv"
    BY Zenon DEF ServerAsserts, NeverConverted
  <2>3. CASE CpAstSend(t, c)
    <3>1. PICK o : Become(t, [thr[t] EXCEPT !.cp = @ \ {c}, !.out = o])
      BY <2>3, Zenon DEF CpAstSend
    <3>2. Moves(t, thr[t].pc, thr[t].bl, thr[t].cp \ {c}, o, thr[t].rescan, thr[t].rc)
      BY <3>1, CpAstSendMoves, Zenon
    <3>3. \A m \in net' \ net : m.type \notin {"convert", "convrep"}
      <4>1. \A m \in net' \ net : m = CpAst(c, bits[c], c \in astSent, t)
        BY <2>3 DEF CpAstSend
      <4>2. CpAst(c, bits[c], c \in astSent, t).type = "cp"
        BY DEF CpAst
      <4> QED
        BY <4>1, <4>2
    <3>4. thr[t].pc # "blfin" /\ thr[t].pc # "conv"
      BY <2>3 DEF CpAstSend
    <3> QED
      BY <2>1, <3>2, <3>3, <3>4, MovesAsserts, Zenon
  <2>4. CASE AstTimeout(t, c) \/ \E rc \in AstRc : AstReply(t, c, rc)
    <3>1. PICK b : Become(t, [thr[t] EXCEPT !.out = @ \ {c}, !.restart = b])
      BY <2>4, Zenon DEF AstTimeout, AstReply
    <3>2. /\ Moves(t, thr[t].pc, thr[t].bl, thr[t].cp, thr[t].out \ {c}, thr[t].rescan, thr[t].rc)
          /\ thr'[t].cur = thr[t].cur
      BY <3>1, AnsweredMoves, Zenon
    <3>3. \A m \in net' \ net : m.type \notin {"convert", "convrep"}
      BY <2>4, Zenon DEF AstTimeout, AstReply
    <3>4. thr[t].pc # "conv"
      BY <2>2, Zenon
    <3> QED
      BY <2>1, <3>2, <3>3, <3>4, MovesAsserts, Zenon
  <2> QED
    BY <2>3, <2>4, Zenon
\* The handler returns: no reply is that of a convert.
<1>9. ASSUME NEW t \in Thread, CpDone(t)
      PROVE  ServerAsserts'
  <2> USE <1>9
  <2>1. /\ lbug' = lbug /\ astSent' = astSent /\ blAstRun' = blAstRun /\ blocking' = blocking
    BY DEF CpDone, astState
  <2>2. \A u \in Thread : thr[u].pc # "conv" /\ thr[u].ctx # "conv"
    BY Zenon DEF ServerAsserts, NeverConverted
  <2>3. CASE Goto(t, "reproc") /\ net' = net
    <3>1. Moves(t, "reproc", thr[t].bl, thr[t].cp, thr[t].out, thr[t].rescan, thr[t].rc)
      BY <2>3, GotoMoves
    <3>2. \A m \in net' \ net : m.type \notin {"convert", "convrep"}
      BY <2>3
    <3> QED
      BY <2>1, <3>1, <3>2, MovesAsserts, Zenon
  <2>4. CASE Become(t, Idle) /\ net' = net \cup Reply(t)
    <3>1. \A m \in net' \ net : m.type \notin {"convert", "convrep"}
      <4>1. CASE thr[t].ctx = "enq"
        <5>1. Reply(t) = {EnqRep(thr[t].lock, thr[t].rc, thr[t].ast)}
          BY <4>1 DEF Reply
        <5>2. EnqRep(thr[t].lock, thr[t].rc, thr[t].ast).type = "enqrep"
          BY DEF EnqRep
        <5> QED
          BY <2>4, <5>1, <5>2
      <4>2. CASE thr[t].ctx # "enq"
        <5>1. Reply(t) = {}
          BY <2>2, <4>2 DEF Reply
        <5> QED
          BY <2>4, <5>1
      <4> QED
        BY <4>1, <4>2
    <3>2. thr'[t] = Idle /\ \A u \in Thread : u # t => thr'[u] = thr[u]
      BY <2>4, BecomeThread
    <3>3. Idle.pc # "conv" /\ Idle.ctx # "conv" /\ Idle.pc # "blfin" /\ Idle.bl = {}
      BY Zenon DEF Idle
    <3>4. ASSUME NEW u \in Thread
          PROVE  /\ thr'[u].pc # "conv" /\ thr'[u].ctx # "conv" /\ thr'[u].bl \subseteq thr[u].bl
                 /\ thr'[u].pc = "blfin" => thr[u].pc = "blfin" /\ thr'[u].cur = thr[u].cur
      <4>1. CASE u = t
        BY <3>2, <3>3, <4>1
      <4>2. CASE u # t
        BY <2>2, <3>2, <4>2, Zenon
      <4> QED
        BY <4>1, <4>2, Zenon
    <3> QED
      BY <2>1, <3>1, <3>4, QuietAsserts
  <2> QED
    BY <2>3, <2>4, Zenon DEF CpDone
\* Requests other than converts.
<1>10. ASSUME NEW t \in Thread, HandleRequest(t)
       PROVE  ServerAsserts'
  <2> USE <1>10
  <2>1. PICK l \in Lock : \/ HandleEnqueue(t, l) \/ HandleCancel(t, l)
                          \/ ExportCancelLock(t, l)
                          \/ \E b \in SUBSET Bit : HandleConvert(t, l, b)
    BY Zenon DEF HandleRequest
  <2>2. ASSUME NEW b \in SUBSET Bit PROVE ~HandleConvert(t, l, b)
    <3>1. ConvReq(l, b).type = "convert"
      BY DEF ConvReq
    <3>2. \A m \in net : m.type # "convert"
      BY DEF ServerAsserts, NeverConverted
    <3> QED
      BY <3>1, <3>2, Zenon DEF HandleConvert
  <2>3. \A u \in Thread : thr[u].pc # "conv" /\ thr[u].ctx # "conv"
    BY Zenon DEF ServerAsserts, NeverConverted
  <2>4. CASE HandleEnqueue(t, l)
    <3>1. /\ lbug' = lbug /\ astSent' = astSent /\ blAstRun' = blAstRun /\ blocking' = blocking
          /\ net' \subseteq net
      BY <2>4 DEF HandleEnqueue, astState
    <3>2. \A m \in net' \ net : m.type \notin {"convert", "convrep"}
      BY <3>1
    <3>3. /\ thr'[t].pc \in {"reproc", "hash"} /\ thr'[t].ctx = "enq" /\ thr'[t].bl = {}
          /\ \A u \in Thread : u # t => thr'[u] = thr[u]
      BY <2>4, HandleEnqueueMoves, Zenon
    <3>4. ASSUME NEW u \in Thread
          PROVE  /\ thr'[u].pc # "conv" /\ thr'[u].ctx # "conv" /\ thr'[u].bl \subseteq thr[u].bl
                 /\ thr'[u].pc = "blfin" => thr[u].pc = "blfin" /\ thr'[u].cur = thr[u].cur
      <4>1. CASE u = t
        BY <3>3, <4>1
      <4>2. CASE u # t
        BY <2>3, <3>3, <4>2, Zenon
      <4> QED
        BY <4>1, <4>2, Zenon
    <3> QED
      BY <3>1, <3>2, <3>4, QuietAsserts
  <2>5. CASE HandleCancel(t, l) \/ ExportCancelLock(t, l)
    <3>1. /\ lbug' = lbug /\ astSent' = astSent /\ blAstRun' = blAstRun /\ blocking' = blocking
          /\ net' \subseteq net
      BY <2>5, Zenon DEF HandleCancel, ExportCancelLock, astState
    <3>2. \A m \in net' \ net : m.type \notin {"convert", "convrep"}
      BY <3>1
    <3>3. CASE Goto(t, "reproc")
      <4>1. Moves(t, "reproc", thr[t].bl, thr[t].cp, thr[t].out, thr[t].rescan, thr[t].rc)
        BY <3>3, GotoMoves
      <4> QED
        BY <3>1, <3>2, <4>1, MovesAsserts, Zenon
    <3>4. CASE thr' = thr
      BY <2>3, <3>1, <3>2, <3>4, QuietAsserts
    <3> QED
      BY <2>5, <3>3, <3>4, Zenon DEF HandleCancel, ExportCancelLock
  <2> QED
    BY <2>1, <2>2, <2>4, <2>5, Zenon
<1>11. ASSUME NEW t \in Thread, ThreadStep(t) PROVE ServerAsserts'
  <2>1. ~ConvertLocked(t)
    BY Zenon DEF ConvertLocked, ServerAsserts, NeverConverted
  <2> QED
    BY <1>11, <2>1, <1>3, <1>4, <1>5, <1>6,
       <1>7, <1>8, <1>9, Zenon DEF ThreadStep
<1>12. ASSUME NEW t \in Thread, AstAnswered(t) PROVE ServerAsserts'
  BY <1>12, <1>8, Zenon DEF AstAnswered
<1>13. CASE ServerWork
  BY <1>11, <1>12, <1>13, <1>10, Zenon DEF ServerWork
<1>14. CASE \/ \E l \in Lock : TimerExpire(l) \/ ExpiredEvict(l) \/ ExpiredProlong(l)
           \/ \E c \in Client : PingEvict(c) \/ StaleExportDone(c)
  <2>1. /\ lbug' = lbug /\ astSent' = astSent /\ blAstRun' = blAstRun /\ blocking' = blocking
        /\ net' = net /\ thr' = thr
    BY <1>14 DEF TimerExpire, ExpiredEvict, ExpiredProlong, PingEvict, StaleExportDone, astState
  <2>2. \A m \in net' \ net : m.type \notin {"convert", "convrep"}
    BY <2>1
  <2>3. \A u \in Thread : thr[u].pc # "conv" /\ thr[u].ctx # "conv"
    BY Zenon DEF ServerAsserts, NeverConverted
  <2> QED
    BY <2>1, <2>2, <2>3, QuietAsserts
<1> QED
  BY <1>13, <1>14, Zenon DEF ServerNext

-----------------------------------------------------------------------------
(* The assertions of the clients, where locks are not converted.           *)

\* The lock is not converted, and not in use if it is being cancelled.
Unused(c) ==
    /\ ~c.converting /\ \A w \in c.work : w[2] # "convert"
    /\ c.canceling \/ (\E w \in c.work : w[2] \in {"ast", "cancel"}) => ~c.ref /\ c.cbpending

\* A step that starts no cancel.
LEMMA UnusedKept ==
    ASSUME NEW c, NEW d, Unused(c), ~d.converting, d.canceling => c.canceling, d.ref => c.ref,
           c.cbpending => d.cbpending, \A w \in d.work : w \in c.work \/ w[2] = "queued"
    PROVE  Unused(d)
<1>1. \A w : w[2] = "queued" => w[2] # "convert" /\ w[2] \notin {"ast", "cancel"}
  OBVIOUS
<1> QED
  BY <1>1, Zenon DEF Unused

\* A step that starts a cancel of a lock without users.
LEMMA UnusedStart ==
    ASSUME NEW c, NEW d, Unused(c), ~d.converting, ~d.ref, d.cbpending,
           \A w \in d.work : w \in c.work \/ w[2] # "convert"
    PROVE  Unused(d)
BY Zenon DEF Unused

\* A new record.
LEMMA UnusedNew ==
    ASSUME NEW d, ~d.converting, ~d.canceling, d.work = {}
    PROVE  Unused(d)
BY Zenon DEF Unused

\* What a step of a client must show.
CliAsserts(l) ==
    /\ Unused(cl'[l]) /\ \A k \in Lock : k # l => cl'[k] = cl[k]
    /\ clbug' = clbug
    /\ \A m \in net' \ net : m.type \notin {"convert", "convrep"}

\* Every step of a client.
LEMMA ClientStepAsserts ==
    ASSUME CInv, ~CanConvert, NeverConverted, NEW l \in Lock, Unused(cl[l]), ClientStep(l)
    PROVE  CliAsserts(l)
\* ldlm_cli_enqueue, ldlm_cli_enqueue_fini and failed_lock_cleanup.
<1>1. ASSUME NEW rc \in EnqRc, NEW a \in BOOLEAN,
             CliEnqueue(l) \/ CliEnqueueFini(l, rc, a) \/ InterruptedCompletionWait(l)
      PROVE  CliAsserts(l)
  <2> USE <1>1
  <2>1. cl[l] \in ClientLock /\ cl \in [Lock -> ClientLock]
    BY DEF CInv, ClientTypeOK
  <2>2. /\ clbug' = clbug
        /\ \A m \in net' \ net : m.type \notin {"convert", "convrep"}
    BY DEF CliEnqueue, CliEnqueueFini, InterruptedCompletionWait, EnqReq
  <2>3. ASSUME NEW d, cl' = [cl EXCEPT ![l] = d], Unused(d) PROVE CliAsserts(l)
    BY <2>2, <2>3, ClientChanged, Zenon DEF CliAsserts
  <2>4. Unused(FailedLockCleanup(cl[l]))
    <3>1. PICK d : d = FailedLockCleanup(cl[l])
      OBVIOUS
    <3>2. /\ ~d.ref /\ (cl[l].cbpending => d.cbpending) /\ d.canceling = cl[l].canceling
          /\ d.converting = cl[l].converting
          /\ \/ d.work = cl[l].work \/ d.work = cl[l].work \cup {<<{}, "queued">>}
             \/ d.work = cl[l].work \cup {<<{}, "ast">>} /\ d.cbpending
      BY <2>1, <3>1, FailedLockCleanupFields, Zenon
    <3>3. ~d.converting
      BY <3>2, Zenon DEF Unused
    <3>4. CASE d.work = cl[l].work \/ d.work = cl[l].work \cup {<<{}, "queued">>}
      <4>1. \A w \in d.work : w \in cl[l].work \/ w[2] = "queued"
        BY <3>4
      <4>2. Unused(d)
        BY <3>2, <3>3, <4>1, UnusedKept, Zenon
      <4> QED
        BY <3>1, <4>2
    <3>5. CASE d.work = cl[l].work \cup {<<{}, "ast">>} /\ d.cbpending
      <4>1. \A w \in d.work : w \in cl[l].work \/ w[2] # "convert"
        BY <3>5
      <4>2. Unused(d)
        BY <3>2, <3>3, <3>5, <4>1, UnusedStart, Zenon
      <4> QED
        BY <3>1, <4>2
    <3> QED
      BY <3>2, <3>4, <3>5, Zenon
  <2>5. CASE InterruptedCompletionWait(l)
    BY <2>3, <2>4, <2>5, Zenon DEF InterruptedCompletionWait
  <2>6. CASE CliEnqueue(l)
    <3> DEFINE b == ReqBits[l]
               d == [NewLock EXCEPT !.st = "enq", !.ref = TRUE, !.bits = b]
    <3>1. cl' = [cl EXCEPT ![l] = d]
      BY <2>6 DEF CliEnqueue
    <3>2. ~d.converting /\ ~d.canceling /\ d.work = {}
      BY Zenon DEF NewLock
    <3> HIDE DEF d
    <3>3. Unused(d)
      BY <3>2, UnusedNew
    <3> QED
      BY <2>3, <3>1, <3>3, Zenon
  <2>7. CASE CliEnqueueFini(l, rc, a)
    <3>1. CASE cl[l].st # "enq"
      <4>1. cl' = [cl EXCEPT ![l] = cl[l]]
        BY <2>7, <3>1 DEF CliEnqueueFini
      <4> QED
        BY <2>3, <4>1, Zenon
    <3>2. CASE cl[l].st = "enq" /\ rc = "error"
      <4>1. cl' = [cl EXCEPT ![l] = FailedLockCleanup(cl[l])]
        BY <2>7, <3>2 DEF CliEnqueueFini
      <4> QED
        BY <2>3, <2>4, <4>1, Zenon
    <3>3. CASE cl[l].st = "enq" /\ rc # "error"
      <4> DEFINE p == cl[l].cbpending \/ a
                 q == cl[l].blAst \/ a
                 g == cl[l].granted \/ rc = "granted"
                 d == [cl[l] EXCEPT !.st = "held", !.cbpending = p, !.blAst = q, !.granted = g]
      <4>1. cl' = [cl EXCEPT ![l] = d]
        BY <2>7, <3>3 DEF CliEnqueueFini
      <4>2. cl[l].cbpending => p
        BY Zenon
      <4> HIDE DEF p, q, g
      <4>3. /\ d.converting = cl[l].converting /\ d.canceling = cl[l].canceling
            /\ d.ref = cl[l].ref /\ d.work = cl[l].work /\ d.cbpending = p
        BY <2>1, Zenon DEF ClientLock
      <4> HIDE DEF d
      <4>4. ~d.converting
        BY <4>3 DEF Unused
      <4>5. Unused(d)
        BY <4>2, <4>3, <4>4, UnusedKept, Zenon
      <4> QED
        BY <2>3, <4>1, <4>5, Zenon
    <3> QED
      BY <3>1, <3>2, <3>3, Zenon
  <2> QED
    BY <2>5, <2>6, <2>7
\* Match, decref, the LRU and the end of a cancel.
<1>2. ASSUME LockMatch(l) \/ LockDecref(l) \/ CancelLru(l) \/ CliCancelLocal(l)
      PROVE  CliAsserts(l)
  <2> USE <1>2
  <2>1. cl[l] \in ClientLock /\ cl \in [Lock -> ClientLock]
    BY DEF CInv, ClientTypeOK
  <2>2. ASSUME NEW d, cl' = [cl EXCEPT ![l] = d], Unused(d), clbug' = clbug,
               \A m \in net' \ net : m.type \notin {"convert", "convrep"}
        PROVE  CliAsserts(l)
    BY <2>2, ClientChanged, Zenon DEF CliAsserts
  <2>3. ~cl[l].converting
    BY DEF Unused
  <2>4. CASE LockMatch(l)
    <3> DEFINE d == [cl[l] EXCEPT !.ref = TRUE]
    <3>1. cl' = [cl EXCEPT ![l] = d] /\ clbug' = clbug /\ net' = net /\ ~cl[l].cbpending
      BY <2>1, <2>4 DEF LockMatch
    <3>2. /\ d.converting = cl[l].converting /\ d.canceling = cl[l].canceling
          /\ d.work = cl[l].work
      BY <2>1, Zenon DEF ClientLock
    <3> HIDE DEF d
    <3>3. Unused(d)
      BY <3>1, <3>2, Zenon DEF Unused
    <3>4. \A m \in net' \ net : m.type \notin {"convert", "convrep"}
      BY <3>1
    <3> QED
      BY <2>2, <3>1, <3>3, <3>4, Zenon
  <2>5. CASE LockDecref(l)
    <3>1. PICK d : d = DropLastRef(cl[l])
      OBVIOUS
    <3>2. cl' = [cl EXCEPT ![l] = d] /\ clbug' = clbug /\ net' = net
      BY <2>5, <3>1 DEF LockDecref
    <3>3. /\ ~d.ref /\ d.cbpending = cl[l].cbpending /\ d.canceling = cl[l].canceling
          /\ d.converting = cl[l].converting
          /\ d.work = cl[l].work \/ d.work = cl[l].work \cup {<<{}, "queued">>}
      BY <2>1, <3>1, DropLastRefFields, Zenon
    <3>4. \A w \in d.work : w \in cl[l].work \/ w[2] = "queued"
      BY <3>3, SMTT(30)
    <3>5. Unused(d)
      BY <2>3, <3>3, <3>4, UnusedKept, Zenon
    <3>6. \A m \in net' \ net : m.type \notin {"convert", "convrep"}
      BY <3>2
    <3> QED
      BY <2>2, <3>2, <3>5, <3>6, Zenon
  <2>6. CASE CancelLru(l)
    <3>1. PICK d : d = StartCancel(cl[l], FALSE)
      BY Zenon
    <3>2. /\ cl' = [cl EXCEPT ![l] = d] /\ clbug' = clbug /\ net' = net
          /\ ~cl[l].ref /\ ~cl[l].canceling
      BY <2>6, <3>1 DEF CancelLru
    <3>3. /\ d.ref = cl[l].ref /\ d.work = cl[l].work /\ d.converting = cl[l].converting
          /\ ~cl[l].canceling => d.cbpending
      BY <2>1, <3>1, StartCancelFields, Zenon
    <3>4. Unused(d)
      BY <2>3, <3>2, <3>3, UnusedStart, Zenon
    <3>5. \A m \in net' \ net : m.type \notin {"convert", "convrep"}
      BY <3>2
    <3> QED
      BY <2>2, <3>2, <3>4, <3>5, Zenon
  <2>7. CASE CliCancelLocal(l)
    <3> DEFINE d == [NewLock EXCEPT !.st = "gone"]
    <3>1. cl' = [cl EXCEPT ![l] = d] /\ cl[l].canceling
      BY <2>7, Zenon DEF CliCancelLocal
    <3>2. ~d.converting /\ ~d.canceling /\ d.work = {}
      BY Zenon DEF NewLock
    <3> HIDE DEF d
    <3>3. Unused(d)
      BY <3>2, UnusedNew, Zenon
    <3>4. clbug' = clbug
      <4>1. ~cl[l].ref
        BY <3>1, Zenon DEF Unused
      <4> QED
        BY <2>7, <4>1 DEF CliCancelLocal, CAssert
    <3>5. \A m \in net' \ net : m.type \notin {"convert", "convrep"}
      <4>1. \A m \in net' \ net : m = CancelReq(l)
        BY <2>7, Zenon DEF CliCancelLocal
      <4>2. CancelReq(l).type = "cancel"
        BY DEF CancelReq
      <4> QED
        BY <4>1, <4>2
    <3> QED
      BY <2>2, <3>1, <3>3, <3>4, <3>5, Zenon
  <2> QED
    BY <2>4, <2>5, <2>6, <2>7
\* The callbacks of the server and the bl threads.
<1>3. ASSUME NEW b \in SUBSET Bit,
             \/ \E t \in Thread : RecvBlAst(l, b, t) \/ \E a \in BOOLEAN : RecvCpAst(l, b, a, t)
             \/ HandleBlCallback(l, b) \/ MdBlockingAst(l, b) \/ CliCancel(l, b)
      PROVE  CliAsserts(l)
  <2> USE <1>3
  <2>1. cl[l] \in ClientLock /\ cl \in [Lock -> ClientLock]
    BY DEF CInv, ClientTypeOK
  <2>2. /\ clbug' = clbug
        /\ \A m \in net' \ net : m.type \notin {"convert", "convrep"}
    <3>1. /\ clbug' = clbug
          /\ net' \subseteq net \/ \E rc, t : net' \subseteq net \cup {AstRep(l, rc, t)}
      <4>1. CASE HandleBlCallback(l, b) \/ MdBlockingAst(l, b) \/ CliCancel(l, b)
        BY <4>1, Zenon DEF HandleBlCallback, MdBlockingAst, CliCancel
      <4>2. ASSUME NEW t, RecvBlAst(l, b, t)
            PROVE  clbug' = clbug /\ \E rc : net' \subseteq net \cup {AstRep(l, rc, t)}
        BY <4>2 DEF RecvBlAst
      <4>3. ASSUME NEW t, NEW a, RecvCpAst(l, b, a, t)
            PROVE  clbug' = clbug /\ \E rc : net' \subseteq net \cup {AstRep(l, rc, t)}
        BY <4>3, Zenon DEF RecvCpAst
      <4> QED
        BY <4>1, <4>2, <4>3, Zenon
    <3>2. \A rc, t : AstRep(l, rc, t).type = "astrep"
      BY DEF AstRep
    <3> QED
      BY <3>1, <3>2
  <2>3. ASSUME NEW d, cl' = [cl EXCEPT ![l] = d], Unused(d) PROVE CliAsserts(l)
    BY <2>2, <2>3, ClientChanged, Zenon DEF CliAsserts
  <2>4. ~cl[l].converting
    BY Zenon DEF Unused
  <2>5. ASSUME cl' = cl PROVE CliAsserts(l)
    BY <2>2, <2>5, Zenon DEF CliAsserts
  <2>6. ASSUME NEW t \in Thread, RecvBlAst(l, b, t) PROVE CliAsserts(l)
    <3>1. CASE Stale(l)
      BY <2>5, <2>6, <3>1, Zenon DEF RecvBlAst
    <3>2. CASE ~Stale(l)
      <4> DEFINE w == cl[l].work \cup {<<b, "queued">>}
                 d == [cl[l] EXCEPT !.blAst = TRUE, !.work = w]
      <4>1. cl' = [cl EXCEPT ![l] = d]
        BY <2>6, <3>2 DEF RecvBlAst
      <4>2. \A v \in w : v \in cl[l].work \/ v[2] = "queued"
        BY SMTT(30)
      <4> HIDE DEF w
      <4>3. /\ d.converting = cl[l].converting /\ d.canceling = cl[l].canceling
            /\ d.ref = cl[l].ref /\ d.work = w /\ d.cbpending = cl[l].cbpending
        BY <2>1, Zenon DEF ClientLock
      <4> HIDE DEF d
      <4>4. Unused(d)
        BY <2>4, <4>2, <4>3, UnusedKept, Zenon
      <4> QED
        BY <2>3, <4>1, <4>4, Zenon
    <3> QED
      BY <3>1, <3>2
  <2>7. ASSUME NEW t \in Thread, NEW a \in BOOLEAN, RecvCpAst(l, b, a, t) PROVE CliAsserts(l)
    <3>1. CASE ~Known(l) \/ cl[l].granted
      BY <2>5, <2>7, <3>1, Zenon DEF RecvCpAst
    <3>2. CASE ~(~Known(l) \/ cl[l].granted)
      <4> DEFINE p == cl[l].cbpending \/ a
                 q == cl[l].blAst \/ a
                 d == [cl[l] EXCEPT !.granted = TRUE, !.bits = b, !.cbpending = p, !.blAst = q]
      <4>1. cl' = [cl EXCEPT ![l] = d]
        BY <2>7, <3>2, Zenon DEF RecvCpAst
      <4>2. cl[l].cbpending => p
        BY Zenon
      <4> HIDE DEF p, q
      <4>3. /\ d.converting = cl[l].converting /\ d.canceling = cl[l].canceling
            /\ d.ref = cl[l].ref /\ d.work = cl[l].work /\ d.cbpending = p
        BY <2>1, Zenon DEF ClientLock
      <4> HIDE DEF d
      <4>4. Unused(d)
        BY <2>4, <4>2, <4>3, UnusedKept, Zenon
      <4> QED
        BY <2>3, <4>1, <4>4, Zenon
    <3> QED
      BY <3>1, <3>2
  <2>8. CASE HandleBlCallback(l, b)
    <3> DEFINE k == IF b # {} THEN b ELSE IF cl[l].cbpending THEN cl[l].cancelBits ELSE {}
               w == (cl[l].work \ {<<b, "queued">>})
                      \cup (IF cl[l].ref THEN {} ELSE {<<b, "ast">>})
               d == [cl[l] EXCEPT !.cancelBits = k, !.cbpending = TRUE, !.work = w]
    <3>1. cl' = [cl EXCEPT ![l] = d]
      BY <2>8 DEF HandleBlCallback
    <3>2. /\ cl[l].ref => \A v \in w : v \in cl[l].work
          /\ \A v \in w : v \in cl[l].work \/ v[2] # "convert"
      <4>1. \A v \in w : v \in cl[l].work \/ (~cl[l].ref /\ v = <<b, "ast">>)
        BY Zenon
      <4>2. <<b, "ast">>[2] = "ast"
        OBVIOUS
      <4> QED
        BY <4>1, <4>2, Zenon
    <3> HIDE DEF k, w
    <3>3. /\ d.converting = cl[l].converting /\ d.canceling = cl[l].canceling
          /\ d.ref = cl[l].ref /\ d.work = w /\ d.cbpending = TRUE
      BY <2>1, Zenon DEF ClientLock
    <3> HIDE DEF d
    <3>4. CASE cl[l].ref
      <4>1. Unused(d)
        BY <2>4, <3>2, <3>3, <3>4, UnusedKept, Zenon
      <4> QED
        BY <2>3, <3>1, <4>1, Zenon
    <3>5. CASE ~cl[l].ref
      <4>1. Unused(d)
        BY <2>4, <3>2, <3>3, <3>5, UnusedStart, Zenon
      <4> QED
        BY <2>3, <3>1, <4>1, Zenon
    <3> QED
      BY <3>4, <3>5
  <2>9. CASE MdBlockingAst(l, b)
    <3>1. /\ <<b, "ast">> \in cl[l].work
          /\ cl' = [cl EXCEPT ![l].work = (@ \ {<<b, "ast">>}) \cup {<<b, "cancel">>}]
      BY <2>9 DEF MdBlockingAst, NeedConvert
    <3>2. ~cl[l].ref /\ cl[l].cbpending
      BY <3>1 DEF Unused
    <3> DEFINE w == (cl[l].work \ {<<b, "ast">>}) \cup {<<b, "cancel">>}
               d == [cl[l] EXCEPT !.work = w]
    <3>3. cl' = [cl EXCEPT ![l] = d]
      BY <2>1, <3>1
    <3>4. \A v \in w : v \in cl[l].work \/ v[2] # "convert"
      <4>1. \A v \in w : v \in cl[l].work \/ v = <<b, "cancel">>
        BY Zenon
      <4>2. <<b, "cancel">>[2] # "convert"
        OBVIOUS
      <4> QED
        BY <4>1, <4>2, Zenon
    <3> HIDE DEF w
    <3>5. /\ d.converting = cl[l].converting /\ d.canceling = cl[l].canceling
          /\ d.ref = cl[l].ref /\ d.work = w /\ d.cbpending = cl[l].cbpending
      BY <2>1, Zenon DEF ClientLock
    <3> HIDE DEF d
    <3>6. Unused(d)
      BY <2>4, <3>2, <3>4, <3>5, UnusedStart, Zenon
    <3> QED
      BY <2>3, <3>3, <3>6, Zenon
  <2>10. CASE CliCancel(l, b)
    <3>1. <<b, "cancel">> \in cl[l].work
      BY <2>10 DEF CliCancel
    <3>2. ~cl[l].ref /\ cl[l].cbpending
      BY <3>1 DEF Unused
    <3> DEFINE w == cl[l].work \ {<<b, "cancel">>}
               c == [cl[l] EXCEPT !.work = w]
    <3>3. cl' = [cl EXCEPT ![l] = StartCancel(c, FALSE)]
      BY <2>10 DEF CliCancel
    <3>4. \A v \in w : v \in cl[l].work
      OBVIOUS
    <3>5. w \in SUBSET ((SUBSET Bit) \X Phase)
      BY <2>1, Zenon DEF ClientLock, Phase
    <3> HIDE DEF w
    <3>6. c \in ClientLock
      BY <2>1, <3>5 DEF ClientLock, Phase
    <3>7. /\ c.converting = cl[l].converting /\ c.canceling = cl[l].canceling
          /\ c.ref = cl[l].ref /\ c.work = w /\ c.cbpending = cl[l].cbpending
      BY <2>1, Zenon DEF ClientLock
    <3> HIDE DEF c
    <3>8. PICK d : d = StartCancel(c, FALSE)
      BY Zenon
    <3>9. /\ d.ref = c.ref /\ d.work = c.work /\ d.converting = c.converting
          /\ (c.canceling => d.cbpending = c.cbpending) /\ (~c.canceling => d.cbpending)
      BY <3>6, <3>8, StartCancelFields, Zenon
    <3>10. Unused(d)
      BY <2>4, <3>2, <3>4, <3>7, <3>9, UnusedStart, Zenon
    <3>11. cl' = [cl EXCEPT ![l] = d]
      BY <3>3, <3>8, Zenon
    <3> QED
      BY <2>3, <3>10, <3>11, Zenon
  <2> QED
    BY <2>6, <2>7, <2>8, <2>9, <2>10, Zenon
<1>4. ASSUME NEW b \in SUBSET Bit PROVE ~CliDropbits(l, b)
  <2>1. \A w \in cl[l].work : w[2] # "convert"
    BY DEF Unused
  <2> QED
    BY <2>1, Zenon DEF CliDropbits
<1>5. ASSUME NEW b \in SUBSET Bit, NEW rc \in ConvRc PROVE ~LockConvertInterpret(l, rc, b)
  <2>1. ConvRep(l, rc, b).type = "convrep"
    BY DEF ConvRep
  <2>2. \A m \in net : m.type # "convrep"
    BY DEF NeverConverted
  <2> QED
    BY <2>1, <2>2, Zenon DEF LockConvertInterpret
<1>6. "ok" \in AstRc /\ "error" \in EnqRc /\ TRUE \in BOOLEAN
  BY DEF AstRc, EnqRc
<1>7. CASE \/ CliEnqueue(l) \/ InterruptedCompletionWait(l)
           \/ \E rc \in EnqRc, a \in BOOLEAN : CliEnqueueFini(l, rc, a)
  BY <1>6, <1>7, <1>1, Zenon
<1>8. CASE LockMatch(l) \/ LockDecref(l) \/ CancelLru(l) \/ CliCancelLocal(l)
  BY <1>8, <1>2
<1>9. ASSUME NEW b \in SUBSET Bit,
             \/ HandleBlCallback(l, b) \/ MdBlockingAst(l, b) \/ CliCancel(l, b)
             \/ \E t \in Thread : RecvBlAst(l, b, t) \/ \E a \in BOOLEAN : RecvCpAst(l, b, a, t)
      PROVE  CliAsserts(l)
  BY <1>9, <1>3, Zenon
<1> QED
  BY <1>4, <1>5, <1>7, <1>8, <1>9, Zenon DEF ClientStep

-----------------------------------------------------------------------------
(* The theorems about the assertions.                                      *)

\* The clients' half of the invariant, lock by lock.
LEMMA UnusedMeaning ==
    NeverConverted /\ CancelUnused <=>
      /\ \A m \in net : m.type \notin {"convert", "convrep"}
      /\ \A t \in Thread : thr[t].pc # "conv" /\ thr[t].ctx # "conv"
      /\ \A l \in Lock : Unused(cl[l])
BY Zenon DEF NeverConverted, CancelUnused, Unused

\* A step of a client.
LEMMA ClientKeepsAssertions ==
    ASSUME CInv, ~CanConvert, WorkListed, NeverConverted, CancelUnused, NoLbug, UNCHANGED svars,
           \/ \E l \in Lock : ClientStep(l)
           \/ \E c \in Client : LearnEviction(c)
    PROVE  WorkListed' /\ NeverConverted' /\ CancelUnused' /\ NoLbug'
<1>1. /\ astSent' = astSent /\ blAstRun' = blAstRun /\ blocking' = blocking /\ thr' = thr
      /\ lbug' = lbug
  BY DEF svars, astState
<1>2. WorkListed'
  BY <1>1, Zenon DEF WorkListed
<1>3. /\ \A m \in net : m.type \notin {"convert", "convrep"}
      /\ \A t \in Thread : thr[t].pc # "conv" /\ thr[t].ctx # "conv"
      /\ \A l \in Lock : Unused(cl[l])
  BY UnusedMeaning, Zenon
<1>4. /\ clbug' = clbug
      /\ \A m \in net' \ net : m.type \notin {"convert", "convrep"}
      /\ \A k \in Lock : Unused(cl'[k])
  <2>1. ASSUME NEW l \in Lock, ClientStep(l)
        PROVE  /\ clbug' = clbug
               /\ \A m \in net' \ net : m.type \notin {"convert", "convrep"}
               /\ \A k \in Lock : Unused(cl'[k])
    <3>1. CliAsserts(l)
      BY <1>3, <2>1, ClientStepAsserts, Zenon
    <3>2. ASSUME NEW k \in Lock PROVE Unused(cl'[k])
      <4>1. CASE k = l
        BY <3>1, <4>1, Zenon DEF CliAsserts
      <4>2. CASE k # l
        BY <1>3, <3>1, <4>2, Zenon DEF CliAsserts
      <4> QED
        BY <4>1, <4>2
    <3> QED
      BY <3>1, <3>2, Zenon DEF CliAsserts
  <2>2. ASSUME NEW c \in Client, LearnEviction(c)
        PROVE  /\ clbug' = clbug
               /\ \A m \in net' \ net : m.type \notin {"convert", "convrep"}
               /\ \A k \in Lock : Unused(cl'[k])
    <3>1. clbug' = clbug /\ net' = net
      BY <2>2, Zenon DEF LearnEviction, InvalidateImport
    <3>2. \A m \in net' \ net : m.type \notin {"convert", "convrep"}
      BY <3>1
    <3>3. ASSUME NEW k \in Lock PROVE Unused(cl'[k])
      <4>1. CASE ~(Owner[k] = c /\ Known(k))
        BY <1>3, <2>2, <4>1, LearnEvictionChanges, Zenon
      <4>2. CASE Owner[k] = c /\ Known(k)
        <5>1. PICK d : d = CleanupResource(cl[k])
          OBVIOUS
        <5>2. cl'[k] = d /\ cl[k] \in ClientLock
          BY <2>2, <4>2, <5>1, LearnEvictionChanges, Zenon DEF CInv, ClientTypeOK
        <5>3. /\ d.ref = cl[k].ref /\ d.work = cl[k].work /\ d.converting = cl[k].converting
              /\ d.cbpending
              /\ d.canceling => cl[k].canceling \/ ~cl[k].ref \/ cl[k].converting
          BY <5>1, <5>2, CleanupResourceFields, Zenon
        <5>4. Unused(cl[k])
          BY <1>3, Zenon
        <5>5. Unused(d)
          BY <5>3, <5>4, Zenon DEF Unused
        <5> QED
          BY <5>2, <5>5, Zenon
      <4> QED
        BY <4>1, <4>2
    <3> QED
      BY <3>1, <3>2, <3>3, Zenon
  <2> QED
    BY <2>1, <2>2, Zenon
<1>5. NeverConverted' /\ CancelUnused'
  <2>1. \A m \in net' : m.type \notin {"convert", "convrep"}
    BY <1>3, <1>4, Zenon
  <2>2. \A t \in Thread : thr'[t].pc # "conv" /\ thr'[t].ctx # "conv"
    BY <1>1, <1>3, Zenon
  <2> QED
    BY <1>4, <2>1, <2>2, Zenon DEF NeverConverted, CancelUnused, Unused
<1>6. NoLbug'
  BY <1>1, <1>4, Zenon DEF NoLbug
<1> QED
  BY <1>2, <1>5, <1>6, Zenon

\* No step of the server or of a client breaks the assertion invariant.
LEMMA NextKeepsAssertions == (TypeInv /\ AssertionInv) /\ [Next]_vars => AssertionInv'
<1> SUFFICES ASSUME TypeInv, AssertionInv, [Next]_vars, ~CanConvert
             PROVE  WorkListed' /\ NeverConverted' /\ CancelUnused' /\ NoLbug'
  BY Zenon DEF AssertionInv
<1>1. SInv /\ CInv
  BY DEF TypeInv, TypeOK, SInv, CInv
<1>2. WorkListed /\ NeverConverted /\ CancelUnused /\ NoLbug
  BY Zenon DEF AssertionInv
<1>3. CASE ServerNext /\ UNCHANGED cvars
  <2>1. cl' = cl /\ clbug' = clbug
    BY <1>3 DEF cvars
  <2>2. ServerAsserts
    BY <1>2 DEF ServerAsserts, NoLbug
  <2>3. ServerAsserts'
    BY <1>1, <1>3, <2>1, <2>2, ServerNextAsserts
  <2>4. CancelUnused'
    BY <1>2, <2>1, Zenon DEF CancelUnused
  <2> QED
    BY <1>2, <2>1, <2>3, <2>4, Zenon DEF ServerAsserts, NoLbug
<1>4. CASE /\ UNCHANGED svars
           /\ (\E l \in Lock : ClientStep(l)) \/ \E c \in Client : LearnEviction(c)
  BY <1>1, <1>2, <1>4, ClientKeepsAssertions
<1>5. CASE UNCHANGED vars
  <2>1. /\ astSent' = astSent /\ blAstRun' = blAstRun /\ blocking' = blocking /\ thr' = thr
        /\ lbug' = lbug /\ cl' = cl /\ clbug' = clbug /\ net' = net
    BY <1>5 DEF vars, svars, astState, cvars
  <2> QED
    BY <1>2, <2>1, Zenon DEF WorkListed, NeverConverted, CancelUnused, NoLbug
<1>6. \A c \in Client : LearnEviction(c) => UNCHANGED svars
  BY Zenon DEF LearnEviction
<1> QED
  BY <1>3, <1>4, <1>5, <1>6, Zenon DEF Next

\* At the start nothing is called back.
LEMMA InitAssertions == Init => AssertionInv
<1> SUFFICES ASSUME Init PROVE WorkListed /\ NeverConverted /\ CancelUnused /\ NoLbug
  BY DEF AssertionInv
<1>1. /\ astSent = {} /\ blAstRun = {} /\ net = {} /\ lbug = {} /\ clbug = {}
      /\ \A l \in Lock : cl[l] = NewLock /\ blocking[l] = NoLock
      /\ \A t \in Thread : thr[t] = Idle
  BY Zenon DEF Init, ServerInit, ClientInit
<1>2. /\ Idle.pc = "idle" /\ Idle.ctx = "none" /\ Idle.bl = {}
      /\ NewLock.converting = FALSE /\ NewLock.canceling = FALSE /\ NewLock.work = {}
  BY Zenon DEF Idle, NewLock
<1>3. \A t \in Thread : /\ thr[t].pc # "conv" /\ thr[t].ctx # "conv"
                        /\ thr[t].pc # "blfin" /\ thr[t].bl = {}
  BY <1>1, <1>2
<1>4. WorkListed
  BY <1>1, <1>3, Zenon DEF WorkListed
<1>5. NeverConverted /\ CancelUnused
  BY <1>1, <1>2, <1>3, Zenon DEF NeverConverted, CancelUnused
<1> QED
  BY <1>1, <1>4, <1>5, Zenon DEF NoLbug
=============================================================================

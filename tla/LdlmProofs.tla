----------------------------- MODULE LdlmProofs -----------------------------
(***************************************************************************)
(* Theorems about Ldlm, for every number of locks, clients, bits and threads,*)
(* every choice of modes and every pattern of failures: types, mutual      *)
(* exclusion, and what follows from the invariants of the protocol.        *)
(***************************************************************************)
EXTENDS LdlmCoherenceProofs, LdlmCallbackProofs

\* Every RPC the model sends is a message of the protocol.
LEMMA MessageTypes ==
    ASSUME NEW l \in Lock
    PROVE  /\ EnqReq(l) \in Message /\ CancelReq(l) \in Message
           /\ \A b \in SUBSET Bit : ConvReq(l, b) \in Message
           /\ \A rc \in EnqRc, a \in BOOLEAN : EnqRep(l, rc, a) \in Message
           /\ \A rc \in ConvRc, b \in SUBSET Bit : ConvRep(l, rc, b) \in Message
           /\ \A b \in SUBSET Bit, t \in Thread : BlAst(l, b, t) \in Message
           /\ \A b \in SUBSET Bit, a \in BOOLEAN, t \in Thread :
                CpAst(l, b, a, t) \in Message
           /\ \A rc \in AstRc, t \in Thread : AstRep(l, rc, t) \in Message
BY DEF Message

\* A free thread is a thread state.
LEMMA IdleTyped == Idle \in ThreadState
BY Zenon DEF Idle, ThreadState, ThreadPc, EnqRc

-----------------------------------------------------------------------------
(* Types.  SInv is the server's half of the invariant: every action keeps  *)
(* it, one lemma each.                                                     *)

\* The policy only finds locks of the queue it walks.
LEMMA ConflictsInQueue ==
    ASSUME NEW l, NEW queue
    PROVE  /\ Conflicts(l, queue) \subseteq queue
           /\ ToCallBack(Conflicts(l, queue)) \subseteq queue
BY DEF Conflicts, ToCallBack

\* What a step of thread t leaves to be shown: t's new record is a thread
\* state, and holds created locks only.
LEMMA ThreadUpdated ==
    ASSUME SInv, NEW t \in Thread, NEW r \in ThreadState, Become(t, r),
           created \subseteq created', ThreadLocks(r, created')
    PROVE  /\ thr' \in [Thread -> ThreadState]
           /\ \A u \in Thread : ThreadLocks(thr'[u], created')
<1>1. thr \in [Thread -> ThreadState] /\ \A u \in Thread : ThreadLocks(thr[u], created)
  BY DEF SInv, ServerTypeOK, LocksCreated
<1>2. thr' \in [Thread -> ThreadState]
  BY <1>1 DEF Become
<1>3. ASSUME NEW u \in Thread PROVE ThreadLocks(thr'[u], created')
  <2>1. CASE u = t
    BY <2>1, <1>1 DEF Become
  <2>2. CASE u # t
    <3>1. thr'[u] = thr[u]
      BY <2>2, <1>1 DEF Become
    <3>2. ThreadLocks(thr[u], created)
      BY <1>1
    <3> QED
      BY <3>1, <3>2 DEF ThreadLocks
  <2> QED
    BY <2>1, <2>2
<1> QED
  BY <1>2, <1>3

\* Every step of the server keeps SInv.
LEMMA ServerTyped ==
    ASSUME SInv, ServerNext
    PROVE  SInv'
\* ldlm_handle_enqueue0 up to the first look at exp_disconnected.
<1>1. ASSUME NEW t \in Thread, NEW l \in Lock,
             HandleEnqueue(t, l)
      PROVE  SInv'
  <2> USE <1>1
  <2> DEFINE r == [Idle EXCEPT
                      !.pc = IF Owner[l] \in failed THEN "reproc" ELSE "hash",
                      !.ctx = "enq", !.lock = l]
  <2>1. r \in ThreadState
    BY ThreadTyped, IdleTyped, Zenon DEF ThreadState, ThreadPc
  <2>2. Become(t, r)
    BY DEF HandleEnqueue
  <2>3. created \subseteq created' /\ ThreadLocks(r, created')
    BY ThreadTyped, Zenon DEF HandleEnqueue, ThreadLocks, ThreadState, Idle, queues, astState, exports
  <2> HIDE DEF r
  <2>4. /\ thr' \in [Thread -> ThreadState]
        /\ \A u \in Thread : ThreadLocks(thr'[u], created')
    BY <2>1, <2>2, <2>3, ThreadUpdated
  <2>5. ServerTypeOK'
    BY <2>4 DEF SInv, ServerTypeOK, LocksCreated, queues, astState, exports, HandleEnqueue
  <2>6. LocksCreated'
    BY <2>4 DEF SInv, ServerTypeOK, LocksCreated, queues, astState, exports, HandleEnqueue
  <2>7. (net \subseteq Message)'
    BY DEF SInv, HandleEnqueue
  <2> QED
    BY <2>5, <2>6, <2>7 DEF SInv
\* The lock enters the lock hash of the export.
<1>2. ASSUME NEW t \in Thread,
             ExportAddLock(t)
      PROVE  SInv'
  <2> USE <1>2
  <2>0. thr[t].lock \in Lock
    BY ThreadTyped DEF ExportAddLock, ThreadLocks
  <2> DEFINE r == [thr[t] EXCEPT !.pc = "policy"]
  <2>1. r \in ThreadState
    BY ThreadTyped DEF ThreadState, ThreadPc
  <2>2. Become(t, r)
    BY DEF ExportAddLock, Goto
  <2>3. created \subseteq created' /\ ThreadLocks(r, created')
    BY ThreadTyped DEF ExportAddLock, ThreadLocks, ThreadState
  <2> HIDE DEF r
  <2>4. /\ thr' \in [Thread -> ThreadState]
        /\ \A u \in Thread : ThreadLocks(thr'[u], created')
    BY <2>1, <2>2, <2>3, ThreadUpdated
  <2>5. ServerTypeOK'
    BY <2>4, <2>0 DEF SInv, ServerTypeOK, LocksCreated, queues, astState, exports, ExportAddLock
  <2>6. LocksCreated'
    BY <2>4, <2>0, Zenon DEF SInv, ServerTypeOK, LocksCreated, queues, astState, exports, ExportAddLock
  <2>7. (net \subseteq Message)'
    BY DEF SInv, ExportAddLock
  <2> QED
    BY <2>5, <2>6, <2>7, Zenon DEF SInv
\* ldlm_work_bl_ast_lock, ldlm_server_blocking_ast.
<1>3. ASSUME NEW t \in Thread, NEW c \in Lock,
             BlAstSend(t, c)
      PROVE  SInv'
  <2> USE <1>3
  <2>0. c \in created /\ created' = created
    BY ThreadTyped, Zenon DEF BlAstSend, ThreadLocks
  <2> DEFINE r == [thr[t] EXCEPT !.pc = "blfin", !.bl = @ \ {c}, !.cur = c,
                         !.out = IF /\ c \notin destroyed /\ c \in granted
                                    /\ Owner[c] \notin failed /\ blocking[c] # NoLock
                                 THEN @ \cup {c} ELSE @]
  <2>1. r \in ThreadState
    BY ThreadTyped, ZenonT(120) DEF ThreadState, ThreadPc
  <2>2. Become(t, r)
    BY Zenon DEF BlAstSend
  <2>3. created \subseteq created' /\ ThreadLocks(r, created')
    BY ThreadTyped, <2>0, ZenonT(120) DEF BlAstSend, ThreadLocks, ThreadState
  <2> HIDE DEF r
  <2>4. /\ thr' \in [Thread -> ThreadState]
        /\ \A u \in Thread : ThreadLocks(thr'[u], created')
    BY <2>1, <2>2, <2>3, ThreadUpdated
  <2>5. ServerTypeOK'
    BY <2>4, Zenon DEF SInv, ServerTypeOK, LocksCreated, queues, astState, exports, BlAstSend, AddWaiting, Timer, LAssert, Assertion
  <2>6. LocksCreated'
    BY <2>4, Zenon DEF SInv, ServerTypeOK, LocksCreated, queues, astState, exports, BlAstSend, AddWaiting, Timer, LAssert, Assertion
  <2>7. (net \subseteq Message)'
    <3>1. net \subseteq Message
      BY DEF SInv
    <3>2. blocking[c] # NoLock => bits[blocking[c]] \in SUBSET Bit
      BY DEF SInv, ServerTypeOK
    <3> QED
      BY <3>1, <3>2, MessageTypes, Zenon DEF BlAstSend
  <2> QED
    BY <2>5, <2>6, <2>7 DEF SInv
\* The blocking lock is released.
<1>4. ASSUME NEW t \in Thread,
             BlAstFini(t)
      PROVE  SInv'
  <2> USE <1>4
  <2> DEFINE r == [thr[t] EXCEPT !.pc = "bl", !.cur = NoLock]
  <2>1. r \in ThreadState
    BY ThreadTyped, ZenonT(40) DEF ThreadState, ThreadPc
  <2>2. Become(t, r)
    BY DEF BlAstFini
  <2>3. created \subseteq created' /\ ThreadLocks(r, created')
    BY ThreadTyped DEF BlAstFini, ThreadLocks, ThreadState
  <2> HIDE DEF r
  <2>4. /\ thr' \in [Thread -> ThreadState]
        /\ \A u \in Thread : ThreadLocks(thr'[u], created')
    BY <2>1, <2>2, <2>3, ThreadUpdated
  <2>5. ServerTypeOK'
    BY <2>4, Zenon DEF SInv, ServerTypeOK, LocksCreated, queues, astState, exports, BlAstFini
  <2>6. LocksCreated'
    BY <2>4 DEF SInv, ServerTypeOK, LocksCreated, queues, astState, exports, BlAstFini
  <2>7. (net \subseteq Message)'
    BY DEF SInv, BlAstFini
  <2> QED
    BY <2>5, <2>6, <2>7 DEF SInv
\* ldlm_cb_interpret.
<1>5. ASSUME NEW t \in Thread, NEW c \in Lock, NEW rc,
             AstReply(t, c, rc)
      PROVE  SInv'
  <2> USE <1>5
  <2> DEFINE r == [thr[t] EXCEPT !.out = @ \ {c},
                    !.restart = @ \/ (rc = "einval" /\ c \in thr[t].out)]
  <2>1. r \in ThreadState
    BY ThreadTyped, Zenon DEF ThreadState
  <2>2. Become(t, r)
    BY DEF AstReply
  <2>3. created \subseteq created' /\ ThreadLocks(r, created')
    BY ThreadTyped DEF AstReply, ThreadLocks, ThreadState
  <2> HIDE DEF r
  <2>4. /\ thr' \in [Thread -> ThreadState]
        /\ \A u \in Thread : ThreadLocks(thr'[u], created')
    BY <2>1, <2>2, <2>3, ThreadUpdated
  <2>5. ServerTypeOK'
    BY <2>4, ThreadTyped DEF SInv, ServerTypeOK, LocksCreated, queues, astState, exports, AstReply, CancelLock, Timer, ThreadLocks
  <2>6. LocksCreated'
    BY <2>4, ThreadTyped DEF SInv, ServerTypeOK, LocksCreated, queues, astState, exports, AstReply, CancelLock, Timer, ThreadLocks
  <2>7. (net \subseteq Message)'
    BY DEF SInv, AstReply
  <2> QED
    BY <2>5, <2>6, <2>7, Zenon DEF SInv
\* ldlm_handle_ast_error.
<1>6. ASSUME NEW t \in Thread, NEW c \in Lock,
             AstTimeout(t, c)
      PROVE  SInv'
  <2> USE <1>6
  <2> DEFINE r == [thr[t] EXCEPT !.out = @ \ {c}, !.restart = @ \/ c \in destroyed]
  <2>1. r \in ThreadState
    BY ThreadTyped, Zenon DEF ThreadState
  <2>2. Become(t, r)
    BY DEF AstTimeout
  <2>3. created \subseteq created' /\ ThreadLocks(r, created')
    BY ThreadTyped DEF AstTimeout, ThreadLocks, ThreadState
  <2> HIDE DEF r
  <2>4. /\ thr' \in [Thread -> ThreadState]
        /\ \A u \in Thread : ThreadLocks(thr'[u], created')
    BY <2>1, <2>2, <2>3, ThreadUpdated
  <2>5. ServerTypeOK'
    BY <2>4 DEF SInv, ServerTypeOK, LocksCreated, queues, astState, exports, AstTimeout, Timer
  <2>6. LocksCreated'
    BY <2>4 DEF SInv, ServerTypeOK, LocksCreated, queues, astState, exports, AstTimeout, Timer
  <2>7. (net \subseteq Message)'
    BY DEF SInv, AstTimeout
  <2> QED
    BY <2>5, <2>6, <2>7 DEF SInv
\* The callbacks of a rescan are answered.
<1>7. ASSUME NEW t \in Thread,
             ReprocessBlDone(t)
      PROVE  SInv'
  <2> USE <1>7
  <2> DEFINE p == IF thr[t].restart THEN "reproc" ELSE "cp"
  <2> DEFINE r == [thr[t] EXCEPT !.pc = p, !.restart = FALSE]
  <2>p. p \in {"reproc", "cp"}
    OBVIOUS
  <2>2. Become(t, r)
    BY DEF ReprocessBlDone
  <2> HIDE DEF p
  <2>1. r \in ThreadState
    BY <2>p, ThreadTyped, ZenonT(40) DEF ThreadState, ThreadPc
  <2>3. created \subseteq created' /\ ThreadLocks(r, created')
    BY <2>p, ThreadTyped DEF ReprocessBlDone, ThreadLocks, ThreadState
  <2> HIDE DEF r
  <2>4. /\ thr' \in [Thread -> ThreadState]
        /\ \A u \in Thread : ThreadLocks(thr'[u], created')
    BY <2>1, <2>2, <2>3, ThreadUpdated
  <2>5. ServerTypeOK'
    BY <2>4 DEF SInv, ServerTypeOK, LocksCreated, queues, astState, exports, ReprocessBlDone
  <2>6. LocksCreated'
    BY <2>4 DEF SInv, ServerTypeOK, LocksCreated, queues, astState, exports, ReprocessBlDone
  <2>7. (net \subseteq Message)'
    BY DEF SInv, ReprocessBlDone
  <2> QED
    BY <2>5, <2>6, <2>7 DEF SInv
\* ldlm_server_completion_ast.
<1>8. ASSUME NEW t \in Thread, NEW l \in Lock,
             CpAstSend(t, l)
      PROVE  SInv'
  <2> USE <1>8
  <2> DEFINE r == [thr[t] EXCEPT !.cp = @ \ {l},
                         !.out = IF Owner[l] \notin failed THEN @ \cup {l} ELSE @]
  <2>1. r \in ThreadState
    BY ThreadTyped, Zenon DEF ThreadState
  <2>2. Become(t, r)
    BY DEF CpAstSend
  <2>3. created \subseteq created' /\ ThreadLocks(r, created')
    BY ThreadTyped DEF CpAstSend, ThreadLocks, ThreadState
  <2> HIDE DEF r
  <2>4. /\ thr' \in [Thread -> ThreadState]
        /\ \A u \in Thread : ThreadLocks(thr'[u], created')
    BY <2>1, <2>2, <2>3, ThreadUpdated
  <2>5. ServerTypeOK'
    BY <2>4 DEF SInv, ServerTypeOK, LocksCreated, queues, astState, exports, CpAstSend, AddWaiting, Timer
  <2>6. LocksCreated'
    BY <2>4 DEF SInv, ServerTypeOK, LocksCreated, queues, astState, exports, CpAstSend, AddWaiting, Timer
  <2>7. (net \subseteq Message)'
    <3>1. net \subseteq Message /\ bits[l] \in SUBSET Bit
      BY DEF SInv, ServerTypeOK
    <3>2. (l \in astSent) \in BOOLEAN
      OBVIOUS
    <3>3. CpAst(l, bits[l], l \in astSent, t) \in Message
      BY <3>1, <3>2, MessageTypes, Zenon
    <3> QED
      BY <3>1, <3>3 DEF CpAstSend
  <2> QED
    BY <2>5, <2>6, <2>7, Zenon DEF SInv
\* The locked part of ldlm_handle_convert0.
<1>9. ASSUME NEW t \in Thread,
             ConvertLocked(t)
      PROVE  SInv'
  <2> USE <1>9
  <2> DEFINE r == [thr[t] EXCEPT !.pc = "reproc"]
  <2>1. r \in ThreadState
    BY ThreadTyped DEF ThreadState, ThreadPc
  <2>2. Become(t, r)
    BY Zenon DEF ConvertLocked, Goto
  <2>3. created \subseteq created' /\ ThreadLocks(r, created')
    BY ThreadTyped, Zenon DEF ConvertLocked, ThreadLocks, ThreadState
  <2> HIDE DEF r
  <2>4. /\ thr' \in [Thread -> ThreadState]
        /\ \A u \in Thread : ThreadLocks(thr'[u], created')
    BY <2>1, <2>2, <2>3, ThreadUpdated
  <2>5. ServerTypeOK'
    BY <2>4, Zenon DEF SInv, ServerTypeOK, LocksCreated, queues, astState, exports, ConvertLocked, ForgetCallback, LAssert, Assertion, Timer
  <2>6. LocksCreated'
    BY <2>4, Zenon DEF SInv, ServerTypeOK, LocksCreated, queues, astState, exports, ConvertLocked, ForgetCallback, LAssert, Assertion, Timer
  <2>7. (net \subseteq Message)'
    BY Zenon DEF SInv, ConvertLocked
  <2> QED
    BY <2>5, <2>6, <2>7 DEF SInv
\* ldlm_cancel_lock_for_export.
<1>10. ASSUME NEW t \in Thread, NEW l \in Lock,
              ExportCancelLock(t, l)
       PROVE  SInv'
  <2> USE <1>10
  <2> DEFINE r == [thr[t] EXCEPT !.pc = "reproc"]
  <2>1. r \in ThreadState
    BY ThreadTyped DEF ThreadState, ThreadPc
  <2>2. Become(t, r)
    BY DEF ExportCancelLock, Goto
  <2>3. created \subseteq created' /\ ThreadLocks(r, created')
    BY ThreadTyped DEF ExportCancelLock, ThreadLocks, ThreadState
  <2> HIDE DEF r
  <2>4. /\ thr' \in [Thread -> ThreadState]
        /\ \A u \in Thread : ThreadLocks(thr'[u], created')
    BY <2>1, <2>2, <2>3, ThreadUpdated
  <2>5. ServerTypeOK'
    BY <2>4 DEF SInv, ServerTypeOK, LocksCreated, queues, astState, exports, ExportCancelLock, CancelLock, Timer, Live
  <2>6. LocksCreated'
    BY <2>4 DEF SInv, ServerTypeOK, LocksCreated, queues, astState, exports, ExportCancelLock, CancelLock, Timer, Live
  <2>7. (net \subseteq Message)'
    BY DEF SInv, ExportCancelLock
  <2> QED
    BY <2>5, <2>6, <2>7 DEF SInv
\* ldlm_process_inodebits_lock and ldlm_lock_enqueue, called with the lock's
\* reference held.
<1>11. ASSUME NEW t \in Thread, thr[t].lock \in created,
              ProcessEnqueue(t, thr[t].lock),
              UNCHANGED <<bits, created, destroyed, blAstRun, cbpending, tmr,
                          exports, net>>
       PROVE  SInv'
  <2> USE <1>11
  <2> DEFINE l == thr[t].lock
             C == Conflicts(l, granted \cup QueueAhead(l))
  <2>1. /\ QueueAhead(l) \subseteq waiting
        /\ C \subseteq created /\ ToCallBack(C) \subseteq created
    <3>1. QueueAhead(l) \subseteq waiting
      BY DEF QueueAhead
    <3> QED
      BY <3>1, ConflictsInQueue DEF SInv, LocksCreated
  <2>2. created \subseteq Lock
    BY DEF SInv, ServerTypeOK
  <2>3. CASE C = {}
    <3> DEFINE r == [thr[t] EXCEPT !.pc = "finish", !.rc = "granted"]
    <3>1. r \in ThreadState
      BY ThreadTyped, ZenonT(120) DEF ThreadState, ThreadPc, EnqRc
    <3>2. /\ Become(t, r) /\ granted' = granted \cup ({l} \ destroyed)
          /\ waiting' = waiting \ {l}
          /\ UNCHANGED <<ahead, astSent, blocking, lbug>>
      BY <2>3 DEF ProcessEnqueue
    <3>3. ThreadLocks(r, created')
      BY ThreadTyped DEF ThreadLocks, ThreadState
    <3> HIDE DEF r
    <3>4. /\ thr' \in [Thread -> ThreadState]
          /\ \A u \in Thread : ThreadLocks(thr'[u], created')
      BY <3>1, <3>2, <3>3, ThreadUpdated
    <3> QED
      BY <3>2, <3>4, <2>2 DEF SInv, ServerTypeOK, LocksCreated, exports
  <2>4. CASE C # {}
    <3> DEFINE N == ToCallBack(C)
               r == [thr[t] EXCEPT !.pc = "bl", !.bl = N, !.restart = FALSE]
    <3>1. /\ Become(t, r) /\ waiting' = waiting \cup ({l} \ destroyed)
          /\ ahead' = [ahead EXCEPT ![l] = QueueAhead(l)]
          /\ AddBlWork(N, l) /\ granted' = granted
      BY <2>4, Zenon DEF ProcessEnqueue
    <3> HIDE DEF N, C
    <3>2. N \subseteq created
      BY <2>1 DEF N
    <3>3. r \in ThreadState
      BY ThreadTyped, <3>2, <2>2, ZenonT(120) DEF ThreadState, ThreadPc
    <3>4. ThreadLocks(r, created')
      BY ThreadTyped, <3>2 DEF ThreadLocks, ThreadState
    <3> HIDE DEF r
    <3>5. /\ thr' \in [Thread -> ThreadState]
          /\ \A u \in Thread : ThreadLocks(thr'[u], created')
      BY <3>1, <3>3, <3>4, ThreadUpdated
    <3>6. /\ astSent' \subseteq Lock /\ blocking' \in [Lock -> Lock \cup {NoLock}]
          /\ lbug' \subseteq Assertion
      BY <3>1, <3>2, <2>2, Zenon DEF AddBlWork, LAssert, Assertion, SInv, ServerTypeOK
    <3>7. ahead' \in [Lock -> SUBSET Lock] /\ waiting' \subseteq created
      BY <3>1, <2>1, <2>2 DEF SInv, ServerTypeOK, LocksCreated
    <3> QED
      BY <3>1, <3>5, <3>6, <3>7, <2>2, Zenon DEF SInv, ServerTypeOK, LocksCreated, exports
  <2> QED
    BY <2>3, <2>4, Zenon
\* ldlm_lock_enqueue.
<1>12. ASSUME NEW t \in Thread, LockEnqueue(t)
       PROVE  SInv'
  <2> USE <1>12
  <2>1. thr[t].lock \in created
    BY ThreadTyped DEF LockEnqueue, ThreadLocks
  <2> QED
    BY <2>1, <1>11 DEF LockEnqueue
\* ldlm_handle_conflict_lock.
<1>13. ASSUME NEW t \in Thread, EnqueueBlDone(t)
       PROVE  SInv'
  <2> USE <1>13
  <2>1. thr[t].lock \in created
    BY ThreadTyped DEF EnqueueBlDone, AstWorkDone, ThreadLocks
  <2>2. CASE ProcessEnqueue(t, thr[t].lock)
    BY <2>1, <2>2, <1>11 DEF EnqueueBlDone
  <2>3. CASE ~ProcessEnqueue(t, thr[t].lock)
    <3> DEFINE rc == IF ~thr[t].restart THEN "blocked"
                     ELSE IF thr[t].lock \in destroyed THEN "error" ELSE "granted"
               r == [thr[t] EXCEPT !.pc = "finish", !.rc = rc]
    <3>1. r \in ThreadState
      <4>1. rc \in EnqRc
        BY DEF EnqRc
      <4> HIDE DEF rc
      <4> QED
        BY <4>1, ThreadTyped, ZenonT(40) DEF ThreadState, ThreadPc
    <3>2. Become(t, r) /\ UNCHANGED <<granted, waiting, ahead, astSent, blocking, lbug>>
      BY <2>3 DEF EnqueueBlDone
    <3>3. created' = created /\ ThreadLocks(r, created')
      BY ThreadTyped, <2>1 DEF EnqueueBlDone, ThreadLocks, ThreadState
    <3> HIDE DEF r
    <3>4. /\ thr' \in [Thread -> ThreadState]
          /\ \A u \in Thread : ThreadLocks(thr'[u], created')
      BY <3>1, <3>2, <3>3, ThreadUpdated
    <3> QED
      BY <3>2, <3>4 DEF SInv, ServerTypeOK, LocksCreated, exports, EnqueueBlDone
  <2> QED
    BY <2>2, <2>3, Zenon
\* ldlm_lock_cancel keeps the types of what it changes.
<1>14. ASSUME NEW l \in created, CancelLock(l)
       PROVE  /\ granted' \subseteq granted /\ waiting' \subseteq waiting
              /\ destroyed' \subseteq created /\ tmr' \in [Lock -> Timer]
  BY <1>14 DEF SInv, ServerTypeOK, CancelLock, Timer
\* The end of ldlm_handle_enqueue0.
<1>15. ASSUME NEW t \in Thread, EnqueueFinish(t)
       PROVE  SInv'
  <2> USE <1>15
  <2> DEFINE l == thr[t].lock
             next == IF l \in cbpending \/ thr[t].rc = "error" THEN "cp" ELSE "reproc"
  <2>1. l \in created /\ created \subseteq Lock
    BY ThreadTyped, Zenon DEF EnqueueFinish, ThreadLocks, SInv, ServerTypeOK
  <2>2. /\ granted' \subseteq granted /\ waiting' \subseteq waiting
        /\ destroyed' \subseteq created /\ tmr' \in [Lock -> Timer]
    <3>1. CASE CancelLock(l)
      BY <3>1, <2>1, <1>14
    <3>2. CASE ~CancelLock(l)
      BY <3>2, <2>1 DEF EnqueueFinish, AddWaiting, SInv, ServerTypeOK, Timer
    <3> QED
      BY <3>1, <3>2
  <2>3. PICK r \in ThreadState : Become(t, r) /\ ThreadLocks(r, created)
    <3> DEFINE r1 == [thr[t] EXCEPT !.pc = next, !.rc = "error"]
               ast == l \in astSent
               r2 == [thr[t] EXCEPT !.pc = next, !.ast = ast]
    <3>1. r1 \in ThreadState /\ r2 \in ThreadState
      <4>1. next \in ThreadPc /\ ast \in BOOLEAN /\ "error" \in EnqRc
        BY DEF ThreadPc, EnqRc
      <4> HIDE DEF next, ast
      <4>2. r1 \in ThreadState
        BY <4>1, ThreadTyped, Zenon DEF ThreadState
      <4>3. r2 \in ThreadState
        BY <4>1, ThreadTyped, Zenon DEF ThreadState
      <4> QED
        BY <4>2, <4>3
    <3>2. ThreadLocks(r1, created) /\ ThreadLocks(r2, created)
      BY ThreadTyped DEF ThreadLocks, ThreadState, EnqueueFinish
    <3>3. Become(t, r1) \/ Become(t, r2)
      BY DEF EnqueueFinish
    <3> HIDE DEF r1, r2
    <3> QED
      BY <3>1, <3>2, <3>3
  <2>4. created' = created
    BY DEF EnqueueFinish
  <2>5. /\ thr' \in [Thread -> ThreadState]
        /\ \A u \in Thread : ThreadLocks(thr'[u], created')
    BY <2>3, <2>4, ThreadUpdated
  <2> QED
    BY <2>2, <2>4, <2>5 DEF SInv, ServerTypeOK, LocksCreated, EnqueueFinish, astState, exports
\* ldlm_reprocess_queue.
<1>16. ASSUME NEW t \in Thread, Reprocess(t)
       PROVE  SInv'
  <2> USE <1>16
  <2>1. /\ created' = created /\ created \subseteq Lock
        /\ Grantable \subseteq waiting /\ waiting \subseteq created /\ granted \subseteq created
    BY ZenonT(120) DEF Reprocess, Grantable, SInv, ServerTypeOK, LocksCreated
  <2>2. /\ granted' \subseteq created /\ waiting' \subseteq created
        /\ UNCHANGED <<ahead, bits, created, destroyed, blAstRun, cbpending, tmr, exports, net>>
    BY <2>1, Zenon DEF Reprocess
  <2>3. CASE FirstBlocked = {}
    <3> DEFINE r == [thr[t] EXCEPT !.pc = "cp", !.rescan = TRUE, !.restart = FALSE,
                                   !.cp = @ \cup Grantable]
    <3>1. r \in ThreadState
      BY ThreadTyped, <2>1, ZenonT(120) DEF ThreadState, ThreadPc
    <3>2. Become(t, r) /\ UNCHANGED <<astSent, blocking, lbug>>
      BY <2>3 DEF Reprocess
    <3>3. ThreadLocks(r, created')
      BY ThreadTyped, <2>1, ZenonT(120) DEF ThreadLocks, ThreadState, Reprocess
    <3> HIDE DEF r
    <3>4. /\ thr' \in [Thread -> ThreadState]
          /\ \A u \in Thread : ThreadLocks(thr'[u], created')
      BY <2>1, <3>1, <3>2, <3>3, ThreadUpdated
    <3> QED
      BY <2>1, <2>2, <3>2, <3>4 DEF SInv, ServerTypeOK, LocksCreated, exports
  <2>4. CASE FirstBlocked # {}
    <3>1. PICK l \in FirstBlocked :
            LET N == ToCallBack(Conflicts(l, granted \cup Grantable)) IN
            /\ AddBlWork(N, l)
            /\ Become(t, [thr[t] EXCEPT !.pc = "bl", !.bl = N, !.rescan = TRUE,
                             !.restart = FALSE, !.cp = @ \cup Grantable])
      BY <2>4, Zenon DEF Reprocess
    <3> DEFINE N == ToCallBack(Conflicts(l, granted \cup Grantable))
               r == [thr[t] EXCEPT !.pc = "bl", !.bl = N, !.rescan = TRUE,
                        !.restart = FALSE, !.cp = @ \cup Grantable]
    <3>2. N \subseteq created /\ l \in created
      BY <2>1, ConflictsInQueue DEF FirstBlocked
    <3>3. AddBlWork(N, l) /\ Become(t, r)
      BY <3>1
    <3> HIDE DEF N
    <3>4. r \in ThreadState
      BY ThreadTyped, <3>2, <2>1, ZenonT(120) DEF ThreadState, ThreadPc
    <3>5. ThreadLocks(r, created')
      BY ThreadTyped, <3>2, <2>1, ZenonT(120) DEF ThreadLocks, ThreadState, Reprocess
    <3> HIDE DEF r
    <3>6. /\ thr' \in [Thread -> ThreadState]
          /\ \A u \in Thread : ThreadLocks(thr'[u], created')
      BY <2>1, <3>3, <3>4, <3>5, ThreadUpdated
    <3>7. /\ astSent' \subseteq Lock /\ blocking' \in [Lock -> Lock \cup {NoLock}]
          /\ lbug' \subseteq Assertion
      BY <3>3, <3>2, <2>1, Zenon DEF AddBlWork, LAssert, Assertion, SInv, ServerTypeOK
    <3> QED
      BY <2>1, <2>2, <3>6, <3>7, SMTT(60) DEF SInv, ServerTypeOK, LocksCreated, exports
  <2> QED
    BY <2>3, <2>4, SMTT(60)
\* The completion ASTs are answered; the reply is sent.
<1>17. ASSUME NEW t \in Thread, CpDone(t)
       PROVE  SInv'
  <2> USE <1>17
  <2> DEFINE r1 == [thr[t] EXCEPT !.pc = "reproc"]
  <2>1. r1 \in ThreadState
    BY ThreadTyped DEF ThreadState, ThreadPc
  <2>2. ThreadLocks(r1, created) /\ ThreadLocks(Idle, created) /\ created' = created
    BY ThreadTyped, Zenon DEF ThreadLocks, ThreadState, Idle, CpDone
  <2>3. Become(t, r1) \/ Become(t, Idle)
    BY DEF CpDone, Goto
  <2> HIDE DEF r1
  <2>4. /\ thr' \in [Thread -> ThreadState]
        /\ \A u \in Thread : ThreadLocks(thr'[u], created')
    BY <2>1, <2>2, <2>3, IdleTyped, ThreadUpdated
  <2>5. Reply(t) \subseteq Message
    <3>1. CASE thr[t].ctx = "enq"
      <4>1. thr[t].lock \in Lock /\ thr[t].rc \in EnqRc /\ thr[t].ast \in BOOLEAN
        BY <3>1, ThreadTyped DEF ThreadLocks, ThreadState
      <4> QED
        BY <3>1, <4>1, MessageTypes DEF Reply
    <3>2. CASE thr[t].ctx = "conv"
      <4>1. thr[t].lock \in Lock /\ bits[thr[t].lock] \in SUBSET Bit /\ "ok" \in ConvRc
        BY <3>2, ThreadTyped DEF ThreadLocks, ThreadState, SInv, ServerTypeOK, ConvRc
      <4> QED
        BY <3>2, <4>1, MessageTypes DEF Reply
    <3> QED
      BY <3>1, <3>2 DEF Reply
  <2>6. net' \subseteq Message
    BY <2>5 DEF CpDone, SInv
  <2> QED
    BY <2>4, <2>6 DEF SInv, ServerTypeOK, LocksCreated, CpDone, queues, astState, exports
\* ldlm_handle_cancel.
<1>18. ASSUME NEW t \in Thread, NEW l \in Lock, HandleCancel(t, l)
       PROVE  SInv'
  <2> USE <1>18
  <2>1. created' = created /\ created \subseteq Lock /\ net' \subseteq Message
    BY DEF HandleCancel, SInv, ServerTypeOK
  <2>2. CASE CancelLock(l) /\ Goto(t, "reproc") /\ l \in Live
    <3> DEFINE r == [thr[t] EXCEPT !.pc = "reproc"]
    <3>1. r \in ThreadState
      BY ThreadTyped DEF ThreadState, ThreadPc
    <3>2. ThreadLocks(r, created')
      BY ThreadTyped, <2>1 DEF ThreadLocks, ThreadState
    <3>3. Become(t, r)
      BY <2>2 DEF Goto
    <3> HIDE DEF r
    <3>4. /\ thr' \in [Thread -> ThreadState]
          /\ \A u \in Thread : ThreadLocks(thr'[u], created')
      BY <2>1, <3>1, <3>2, <3>3, ThreadUpdated
    <3>5. /\ granted' \subseteq granted /\ waiting' \subseteq waiting
          /\ destroyed' \subseteq created /\ tmr' \in [Lock -> Timer]
      BY <2>2, <1>14 DEF Live
    <3> QED
      BY <2>1, <3>4, <3>5 DEF SInv, ServerTypeOK, LocksCreated, HandleCancel, astState, exports
  <2>3. CASE UNCHANGED <<granted, waiting, destroyed, tmr, thr>>
    BY <2>1, <2>3 DEF SInv, ServerTypeOK, LocksCreated, HandleCancel, astState, exports
  <2> QED
    BY <2>2, <2>3, Zenon DEF HandleCancel
\* ldlm_handle_convert0 up to lock_res_and_lock.
<1>19. ASSUME NEW t \in Thread, NEW l \in Lock, NEW b \in SUBSET Bit,
              HandleConvert(t, l, b)
       PROVE  SInv'
  <2> USE <1>19
  <2> DEFINE r == [thr[t] EXCEPT !.pc = "conv", !.ctx = "conv", !.lock = l,
                                 !.drop = DropBits(l, b)]
  <2>1. bits[l] \in SUBSET Bit /\ net \subseteq Message /\ created' = created
    BY DEF SInv, ServerTypeOK, HandleConvert
  <2>2. net' \subseteq Message
    <3>1. \A rc \in ConvRc : ConvRep(l, rc, bits[l]) \in Message
      BY <2>1, MessageTypes
    <3> QED
      BY <2>1, <3>1, SMTT(60) DEF HandleConvert, ConvRc
  <2>3. CASE UNCHANGED thr
    BY <2>1, <2>2, <2>3 DEF SInv, ServerTypeOK, LocksCreated, HandleConvert, queues,
         astState, exports
  <2>4. CASE l \in created /\ Become(t, r)
    <3>1. r \in ThreadState
      BY <2>1, ThreadTyped, ZenonT(120) DEF ThreadState, ThreadPc, DropBits
    <3>2. ThreadLocks(r, created')
      BY ThreadTyped, <2>1, <2>4 DEF ThreadLocks, ThreadState
    <3>3. Become(t, r)
      BY <2>4
    <3> HIDE DEF r
    <3>4. /\ thr' \in [Thread -> ThreadState]
          /\ \A u \in Thread : ThreadLocks(thr'[u], created')
      BY <2>1, <3>1, <3>2, <3>3, ThreadUpdated
    <3> QED
      BY <2>1, <2>2, <3>4 DEF SInv, ServerTypeOK, LocksCreated, HandleConvert, queues,
           astState, exports
  <2> QED
    BY <2>3, <2>4 DEF HandleConvert, Live
\* The timer and expired_lock_main.
<1>20. ASSUME NEW l \in Lock,
              TimerExpire(l) \/ ExpiredEvict(l) \/ ExpiredProlong(l)
       PROVE  SInv'
  <2> USE <1>20
  <2>1. /\ thr' = thr /\ net' = net /\ lbug' = lbug /\ created' = created
        /\ destroyed' = destroyed /\ UNCHANGED queues /\ UNCHANGED astState
    BY DEF TimerExpire, ExpiredEvict, ExpiredProlong
  <2>2. failed' \subseteq Client /\ reaped' \subseteq failed' /\ tmr' \in [Lock -> Timer]
    BY LockAssumption DEF SInv, ServerTypeOK, Timer, TimerExpire, ExpiredEvict,
         ExpiredProlong, exports
  <2> QED
    BY <2>1, <2>2 DEF SInv, ServerTypeOK, LocksCreated, queues, astState
\* The ping evictor, and an export that has been emptied.
<1>21. ASSUME NEW c \in Client, PingEvict(c) \/ StaleExportDone(c)
       PROVE  SInv'
  <2> USE <1>21
  <2>1. /\ thr' = thr /\ net' = net /\ lbug' = lbug /\ created' = created /\ tmr' = tmr
        /\ destroyed' = destroyed /\ UNCHANGED queues /\ UNCHANGED astState
    BY DEF PingEvict, StaleExportDone
  <2>2. failed' \subseteq Client /\ reaped' \subseteq failed'
    BY DEF SInv, ServerTypeOK, PingEvict, StaleExportDone
  <2> QED
    BY <2>1, <2>2 DEF SInv, ServerTypeOK, LocksCreated, queues, astState
<1>22. ASSUME NEW t \in Thread, ThreadStep(t) PROVE SInv'
  BY <1>22, <1>2, <1>12, <1>4, <1>13,
     <1>15, <1>16, <1>7, <1>17,
     <1>9, <1>3, <1>8 DEF ThreadStep
<1>23. ASSUME NEW t \in Thread, HandleRequest(t) PROVE SInv'
  BY <1>23, <1>1, <1>18, <1>10,
     <1>19 DEF HandleRequest
<1>24. ASSUME NEW t \in Thread, AstAnswered(t) PROVE SInv'
  BY <1>24, <1>6, <1>5 DEF AstAnswered
<1>25. CASE ServerWork
  BY <1>22, <1>23, <1>24, <1>25 DEF ServerWork
<1>26. ASSUME NEW l \in Lock, TimerExpire(l) \/ ExpiredEvict(l) \/ ExpiredProlong(l)
      PROVE  SInv'
  BY <1>26, <1>20
<1>27. ASSUME NEW c \in Client, PingEvict(c) \/ StaleExportDone(c)
      PROVE  SInv'
  BY <1>27, <1>21
<1> QED
  BY <1>25, <1>26, <1>27, Zenon DEF ServerNext

-----------------------------------------------------------------------------
(* The client's half: CInv is kept by every step of a client.              *)

\* The record a client lock becomes is a client lock, whichever of the
\* transformations of ldlm_request.c is applied to it.
LEMMA ClientLockUpdates ==
    ASSUME NEW c \in ClientLock
    PROVE  /\ DropLastRef(c) \in ClientLock
           /\ FailedLockCleanup(c) \in ClientLock
           /\ \A v \in BOOLEAN : StartCancel(c, v) \in ClientLock
           /\ \A v \in BOOLEAN : ConvertFailed(c, v) \in ClientLock
           /\ \A b \in SUBSET Bit : ConvertDone(c, b) \in ClientLock
           /\ CleanupResource(c) \in ClientLock
<1>1. ASSUME NEW d \in ClientLock PROVE DropLastRef(d) \in ClientLock
  <2> DEFINE w == IF d.cbpending THEN d.work \cup {<<{}, "queued">>} ELSE d.work
             u == d.lru \/ ~(d.cbpending \/ d.blAst \/ d.converting)
  <2>1. w \in SUBSET ((SUBSET Bit) \X Phase) /\ u \in BOOLEAN
    BY DEF ClientLock, Phase
  <2>2. DropLastRef(d) = [d EXCEPT !.ref = FALSE, !.work = w, !.lru = u]
    BY DEF DropLastRef, ClientLock
  <2> HIDE DEF w, u
  <2>3. [d EXCEPT !.ref = FALSE, !.work = w, !.lru = u] \in ClientLock
    BY <2>1, ZenonT(120) DEF ClientLock, Phase
  <2> QED
    BY <2>2, <2>3
<1>2. ASSUME NEW d \in ClientLock, NEW v \in BOOLEAN PROVE StartCancel(d, v) \in ClientLock
  <2> DEFINE a == d.blAst \/ d.converting
             o == d.local \/ v
  <2>1. a \in BOOLEAN /\ o \in BOOLEAN
    OBVIOUS
  <2>2. ~d.canceling => StartCancel(d, v) =
          [d EXCEPT !.canceling = TRUE, !.cbpending = TRUE, !.blAst = a, !.local = o]
    BY DEF StartCancel
  <2> HIDE DEF a, o
  <2>3. [d EXCEPT !.canceling = TRUE, !.cbpending = TRUE, !.blAst = a, !.local = o]
          \in ClientLock
    BY <2>1, ZenonT(120) DEF ClientLock
  <2> QED
    BY <2>2, <2>3 DEF StartCancel
<1>3. FailedLockCleanup(c) \in ClientLock
  <2>1. [c EXCEPT !.st = "held"] \in ClientLock
    BY DEF ClientLock
  <2>2. [c EXCEPT !.st = "held", !.ref = FALSE, !.local = TRUE, !.failed = TRUE,
                  !.cbpending = TRUE, !.work = @ \cup {<<{}, "ast">>}] \in ClientLock
    <3> DEFINE w == c.work \cup {<<{}, "ast">>}
    <3>1. w \in SUBSET ((SUBSET Bit) \X Phase)
      BY DEF ClientLock, Phase
    <3> HIDE DEF w
    <3>2. [c EXCEPT !.st = "held", !.ref = FALSE, !.local = TRUE, !.failed = TRUE,
                    !.cbpending = TRUE, !.work = w] \in ClientLock
      BY <3>1, Zenon DEF ClientLock, Phase
    <3> QED
      BY <3>2 DEF w
  <2> QED
    BY <2>1, <2>2, <1>1 DEF FailedLockCleanup
<1>4. ASSUME NEW v \in BOOLEAN PROVE ConvertFailed(c, v) \in ClientLock
  <2>1. [c EXCEPT !.converting = FALSE, !.cbpending = TRUE,
                  !.blAst = TRUE, !.cancelBits = {}] \in ClientLock
    BY Zenon DEF ClientLock
  <2> QED
    BY <2>1, <1>2 DEF ConvertFailed
<1>5. ASSUME NEW b \in SUBSET Bit PROVE ConvertDone(c, b) \in ClientLock
  <2> DEFINE k == IF c.blAst THEN c.cancelBits ELSE {}
  <2>1. k \in SUBSET Bit
    BY DEF ClientLock
  <2>2. ConvertDone(c, b) \in {c, [c EXCEPT !.converting = FALSE, !.cancelBits = k]}
    BY DEF ConvertDone
  <2> HIDE DEF k
  <2>3. [c EXCEPT !.converting = FALSE, !.cancelBits = k] \in ClientLock
    BY <2>1, Zenon DEF ClientLock
  <2> QED
    BY <2>2, <2>3
<1>6. CleanupResource(c) \in ClientLock
  <2>1. [c EXCEPT !.st = "held", !.failed = TRUE, !.cbpending = TRUE,
                  !.local = TRUE] \in ClientLock
    BY Zenon DEF ClientLock
  <2> QED
    BY <2>1, <1>2, Zenon DEF CleanupResource
<1> QED
  BY <1>1, <1>2, <1>3, <1>4, <1>5, <1>6

\* A step on one lock keeps the type of all.
LEMMA ClientUpdated ==
    ASSUME CInv, NEW l \in Lock, NEW c \in ClientLock, cl' = [cl EXCEPT ![l] = c]
    PROVE  cl' \in [Lock -> ClientLock]
BY DEF CInv, ClientTypeOK

\* ptlrpc_invalidate_import and cleanup_resource.
LEMMA InvalidateImportTyped ==
    ASSUME CInv, NEW c \in Client, InvalidateImport(c)
    PROVE  CInv'
BY ClientLockUpdates DEF CInv, ClientTypeOK, InvalidateImport

\* Every step of a client keeps CInv.
LEMMA ClientTyped ==
    ASSUME CInv, NEW l \in Lock, ClientStep(l)
    PROVE  CInv'
\* Enqueue: ldlm_cli_enqueue, ldlm_cli_enqueue_fini, the interrupted wait.
<1>1. ASSUME NEW rc \in EnqRc, NEW a \in BOOLEAN,
             CliEnqueue(l) \/ CliEnqueueFini(l, rc, a) \/ InterruptedCompletionWait(l)
      PROVE  CInv'
  <2> USE <1>1
  <2>1. cl[l] \in ClientLock /\ cl \in [Lock -> ClientLock] /\ net \subseteq Message
    BY DEF CInv, ClientTypeOK
  <2>2. UNCHANGED <<evicted, clbug>>
    BY DEF CliEnqueue, CliEnqueueFini, InterruptedCompletionWait
  <2>3. net' \subseteq Message
    BY <2>1, MessageTypes DEF CliEnqueue, CliEnqueueFini, InterruptedCompletionWait
  <2>4. cl' \in [Lock -> ClientLock]
    <3>1. CASE CliEnqueue(l)
      <4> DEFINE b == ReqBits[l]
      <4>1. b \in SUBSET Bit
        BY LockAssumption
      <4>2. cl' = [cl EXCEPT ![l] = [NewLock EXCEPT !.st = "enq", !.ref = TRUE, !.bits = b]]
        BY <3>1 DEF CliEnqueue
      <4> HIDE DEF b
      <4>3. [NewLock EXCEPT !.st = "enq", !.ref = TRUE, !.bits = b] \in ClientLock
        BY <4>1, Zenon DEF NewLock, ClientLock
      <4> QED
        BY <4>2, <4>3, ClientUpdated, Zenon
    <3>2. CASE CliEnqueueFini(l, rc, a)
      <4> DEFINE p == cl[l].cbpending \/ a
                 q == cl[l].blAst \/ a
                 g == cl[l].granted \/ rc = "granted"
                 h == [cl[l] EXCEPT !.st = "held", !.cbpending = p, !.blAst = q, !.granted = g]
      <4>1. p \in BOOLEAN /\ q \in BOOLEAN /\ g \in BOOLEAN
        OBVIOUS
      <4>2. cl' = [cl EXCEPT ![l] = IF cl[l].st # "enq" THEN cl[l]
                     ELSE IF rc = "error" THEN FailedLockCleanup(cl[l]) ELSE h]
        BY <3>2 DEF CliEnqueueFini
      <4> HIDE DEF p, q, g
      <4>3. h \in ClientLock
        BY <2>1, <4>1, ZenonT(120) DEF ClientLock
      <4> HIDE DEF h
      <4> QED
        BY <2>1, <4>2, <4>3, ClientLockUpdates, ClientUpdated
    <3>3. CASE InterruptedCompletionWait(l)
      BY <2>1, <3>3, ClientLockUpdates, ClientUpdated DEF InterruptedCompletionWait
    <3> QED
      BY <3>1, <3>2, <3>3
  <2> QED
    BY <2>2, <2>3, <2>4 DEF CInv, ClientTypeOK
\* Use of a cached lock, and the cancels the client starts itself.
<1>2. ASSUME LockMatch(l) \/ LockDecref(l) \/ CancelLru(l) \/ CliCancelLocal(l)
      PROVE  CInv'
  <2> USE <1>2
  <2>1. cl[l] \in ClientLock /\ cl \in [Lock -> ClientLock] /\ net \subseteq Message
    BY DEF CInv, ClientTypeOK
  <2>2. evicted' = evicted /\ clbug' \subseteq ClientAssertion
    BY Zenon DEF CInv, ClientTypeOK, ClientAssertion, LockMatch, LockDecref, CancelLru,
           CliCancelLocal, CAssert
  <2>3. net' \subseteq Message
    BY <2>1, MessageTypes, Zenon DEF LockMatch, LockDecref, CancelLru, CliCancelLocal
  <2>4. cl' \in [Lock -> ClientLock]
    <3>1. CASE LockMatch(l)
      BY <3>1, <2>1, Zenon DEF LockMatch, ClientLock
    <3>2. CASE LockDecref(l)
      BY <3>2, <2>1, ClientLockUpdates, ClientUpdated DEF LockDecref
    <3>3. CASE CancelLru(l)
      BY <3>3, <2>1, ClientLockUpdates, ClientUpdated, Zenon DEF CancelLru
    <3>4. CASE CliCancelLocal(l)
      <4>1. [NewLock EXCEPT !.st = "gone"] \in ClientLock
        BY Zenon DEF NewLock, ClientLock
      <4> QED
        BY <3>4, <4>1, ClientUpdated, Zenon DEF CliCancelLocal
    <3> QED
      BY <3>1, <3>2, <3>3, <3>4
  <2> QED
    BY <2>2, <2>3, <2>4 DEF CInv, ClientTypeOK
\* The callbacks: ldlm_callback_handler, ldlm_handle_bl_callback,
\* ll_md_blocking_ast.
<1>3. ASSUME NEW b \in SUBSET Bit, NEW t \in Thread, NEW a \in BOOLEAN,
             RecvBlAst(l, b, t) \/ RecvCpAst(l, b, a, t)
      PROVE  CInv'
  <2> USE <1>3
  <2>1. cl[l] \in ClientLock /\ cl \in [Lock -> ClientLock] /\ net \subseteq Message
    BY DEF CInv, ClientTypeOK
  <2>2. UNCHANGED <<evicted, clbug>>
    BY DEF RecvBlAst, RecvCpAst
  <2>3. net' \subseteq Message
    BY <2>1, MessageTypes DEF RecvBlAst, RecvCpAst, AstRc
  <2>4. cl' \in [Lock -> ClientLock]
    <3> DEFINE w == cl[l].work \cup {<<b, "queued">>}
               p == cl[l].cbpending \/ a
               q == cl[l].blAst \/ a
               c1 == [cl[l] EXCEPT !.blAst = TRUE, !.work = w]
               c2 == [cl[l] EXCEPT !.granted = TRUE, !.bits = b, !.cbpending = p, !.blAst = q]
    <3>1. w \in SUBSET ((SUBSET Bit) \X Phase) /\ p \in BOOLEAN /\ q \in BOOLEAN
      BY <2>1 DEF ClientLock, Phase
    <3>2. cl' = cl \/ cl' = [cl EXCEPT ![l] = c1] \/ cl' = [cl EXCEPT ![l] = c2]
      BY DEF RecvBlAst, RecvCpAst
    <3> HIDE DEF w, p, q
    <3>3. c1 \in ClientLock
      BY <2>1, <3>1, Zenon DEF ClientLock, Phase
    <3>4. c2 \in ClientLock
      BY <2>1, <3>1, Zenon DEF ClientLock
    <3> HIDE DEF c1, c2
    <3> QED
      BY <2>1, <3>2, <3>3, <3>4, ClientUpdated
  <2> QED
    BY <2>2, <2>3, <2>4 DEF CInv, ClientTypeOK
\* The bl threads: ldlm_handle_bl_callback, ll_md_blocking_ast and the start of
\* a cancel.
<1>4. ASSUME NEW b \in SUBSET Bit,
             HandleBlCallback(l, b) \/ MdBlockingAst(l, b) \/ CliCancel(l, b)
      PROVE  CInv'
  <2> USE <1>4
  <2>1. cl[l] \in ClientLock /\ cl \in [Lock -> ClientLock] /\ net \subseteq Message
    BY DEF CInv, ClientTypeOK
  <2>2. UNCHANGED <<evicted, clbug, net>>
    BY Zenon DEF HandleBlCallback, MdBlockingAst, CliCancel
  <2>3. cl' \in [Lock -> ClientLock]
    <3>1. CASE HandleBlCallback(l, b)
      <4> DEFINE k == IF b # {} THEN b ELSE IF cl[l].cbpending THEN cl[l].cancelBits ELSE {}
                 w == (cl[l].work \ {<<b, "queued">>})
                        \cup (IF cl[l].ref THEN {} ELSE {<<b, "ast">>})
      <4>1. k \in SUBSET Bit /\ w \in SUBSET ((SUBSET Bit) \X Phase)
        BY <2>1, SMTT(30) DEF ClientLock, Phase
      <4>2. cl' = [cl EXCEPT ![l] = [cl[l] EXCEPT !.cancelBits = k, !.cbpending = TRUE,
                                                   !.work = w]]
        BY <3>1 DEF HandleBlCallback
      <4> HIDE DEF k, w
      <4>3. [cl[l] EXCEPT !.cancelBits = k, !.cbpending = TRUE, !.work = w] \in ClientLock
        BY <2>1, <4>1, Zenon DEF ClientLock, Phase
      <4> QED
        BY <4>2, <4>3, ClientUpdated, Zenon
    <3>2. CASE MdBlockingAst(l, b)
      <4>1. PICK how \in Phase :
              cl' = [cl EXCEPT ![l].work = (@ \ {<<b, "ast">>}) \cup {<<b, how>>}]
        BY <3>2, Zenon DEF MdBlockingAst, Phase
      <4> DEFINE w == (cl[l].work \ {<<b, "ast">>}) \cup {<<b, how>>}
      <4>2. w \in SUBSET ((SUBSET Bit) \X Phase)
        BY <2>1 DEF ClientLock, Phase
      <4>3. cl' = [cl EXCEPT ![l] = [cl[l] EXCEPT !.work = w]]
        BY <2>1, <4>1
      <4> HIDE DEF w
      <4>4. [cl[l] EXCEPT !.work = w] \in ClientLock
        BY <2>1, <4>2 DEF ClientLock, Phase
      <4> QED
        BY <4>3, <4>4, ClientUpdated, Zenon
    <3>3. CASE CliCancel(l, b)
      <4> DEFINE w == cl[l].work \ {<<b, "cancel">>}
                 c == [cl[l] EXCEPT !.work = w]
      <4>1. w \in SUBSET ((SUBSET Bit) \X Phase)
        BY <2>1 DEF ClientLock, Phase
      <4>2. cl' = [cl EXCEPT ![l] = StartCancel(c, FALSE)]
        BY <3>3 DEF CliCancel
      <4> HIDE DEF w
      <4>3. c \in ClientLock
        BY <2>1, <4>1 DEF ClientLock, Phase
      <4> HIDE DEF c
      <4>4. StartCancel(c, FALSE) \in ClientLock
        BY <4>3, ClientLockUpdates, Zenon
      <4> QED
        BY <4>2, <4>4, ClientUpdated, Zenon
    <3> QED
      BY <3>1, <3>2, <3>3
  <2> QED
    BY <2>1, <2>2, <2>3 DEF CInv, ClientTypeOK
\* ldlm_cli_dropbits and its fallback to a cancel.
<1>5. ASSUME NEW b \in SUBSET Bit, CliDropbits(l, b)
      PROVE  CInv'
  <2> USE <1>5
  <2> DEFINE w == cl[l].work \ {<<b, "convert">>}
             c == [cl[l] EXCEPT !.work = w]
             drop == c.bits \cap c.cancelBits
  <2>1. cl[l] \in ClientLock /\ cl \in [Lock -> ClientLock] /\ net \subseteq Message
    BY DEF CInv, ClientTypeOK
  <2>2. evicted' = evicted /\ clbug' \subseteq ClientAssertion
    BY Zenon DEF CInv, ClientTypeOK, CliDropbits, ClientAssertion
  <2>3. c \in ClientLock
    <3>1. w \in SUBSET ((SUBSET Bit) \X Phase)
      BY <2>1 DEF ClientLock, Phase
    <3> HIDE DEF w
    <3> QED
      BY <2>1, <3>1 DEF ClientLock, Phase
  <2>4. \/ cl' = [cl EXCEPT ![l] = [c EXCEPT !.work = @ \cup {<<b, "cancel">>}]] /\ net' = net
        \/ cl' = [cl EXCEPT ![l] = c] /\ net' = net
        \/ /\ cl' = [cl EXCEPT ![l] = [c EXCEPT !.cbpending = FALSE, !.blAst = FALSE,
                       !.converting = TRUE, !.cancelBits = drop, !.bits = @ \ drop]]
           /\ net' = net \cup {ConvReq(l, c.bits \ drop)}
    BY Zenon DEF CliDropbits
  <2> HIDE DEF c
  <2>5. c.bits \ drop \in SUBSET Bit /\ drop \in SUBSET Bit
    BY <2>3 DEF ClientLock
  <2> HIDE DEF drop
  <2>6. net' \subseteq Message
    BY <2>1, <2>4, <2>5, MessageTypes
  <2>7. [c EXCEPT !.work = @ \cup {<<b, "cancel">>}] \in ClientLock
    <3> DEFINE v == c.work \cup {<<b, "cancel">>}
    <3>1. v \in SUBSET ((SUBSET Bit) \X Phase)
      BY <2>3 DEF ClientLock, Phase
    <3> HIDE DEF v
    <3>2. [c EXCEPT !.work = v] \in ClientLock
      BY <2>3, <3>1 DEF ClientLock, Phase
    <3> QED
      BY <3>2 DEF v
  <2>8. [c EXCEPT !.cbpending = FALSE, !.blAst = FALSE, !.converting = TRUE,
                  !.cancelBits = drop, !.bits = @ \ drop] \in ClientLock
    BY <2>3, <2>5, Zenon DEF ClientLock
  <2>9. cl' \in [Lock -> ClientLock]
    BY <2>3, <2>4, <2>7, <2>8, ClientUpdated, Zenon
  <2> QED
    BY <2>2, <2>6, <2>9, Zenon DEF CInv, ClientTypeOK
\* lock_convert_interpret.
<1>6. ASSUME NEW rc \in ConvRc, NEW b \in SUBSET Bit,
             LockConvertInterpret(l, rc, b)
      PROVE  CInv'
  <2> USE <1>6
  <2>1. cl[l] \in ClientLock /\ cl \in [Lock -> ClientLock] /\ net \subseteq Message
    BY DEF CInv, ClientTypeOK
  <2> DEFINE nolock == rc = "nolock"
  <2>2. /\ UNCHANGED <<evicted, clbug>> /\ net' \subseteq net
        /\ cl' = [cl EXCEPT ![l] = IF ~Known(l) THEN cl[l]
                                   ELSE IF rc = "ok" THEN ConvertDone(cl[l], b)
                                   ELSE ConvertFailed(cl[l], nolock)]
    BY DEF LockConvertInterpret
  <2>3. nolock \in BOOLEAN
    OBVIOUS
  <2> HIDE DEF nolock
  <2>4. ConvertDone(cl[l], b) \in ClientLock /\ ConvertFailed(cl[l], nolock) \in ClientLock
    BY <2>1, <2>3, ClientLockUpdates
  <2>5. cl' \in [Lock -> ClientLock]
    BY <2>1, <2>2, <2>4, ClientUpdated
  <2> QED
    BY <2>1, <2>2, <2>5 DEF CInv, ClientTypeOK
<1> QED
  BY <1>1, <1>2, <1>3, <1>4, <1>5,
     <1>6, Zenon DEF ClientStep, EnqRc

-----------------------------------------------------------------------------
(* The type invariant of the composition.                                  *)

\* At mount time all is typed and nothing is held.
LEMMA InitTyped == Init => TypeInv
<1> SUFFICES ASSUME Init PROVE TypeInv
  OBVIOUS
<1>1. NewLock \in ClientLock
  BY DEF NewLock, ClientLock
<1>2. ClientTypeOK
  BY <1>1 DEF Init, ClientInit, ClientTypeOK
<1>3. ServerTypeOK
  BY IdleTyped, LockAssumption DEF Init, ServerInit, ServerTypeOK, Timer
<1>4. LocksCreated
  BY Zenon DEF Init, ServerInit, LocksCreated, ThreadLocks, Idle
<1> QED
  BY <1>2, <1>3, <1>4 DEF TypeInv, TypeOK, Init

\* Every step of the server, of a client and of an eviction keeps TypeInv.
LEMMA NextTyped == TypeInv /\ [Next]_vars => TypeInv'
<1> SUFFICES ASSUME TypeInv, [Next]_vars PROVE TypeInv'
  OBVIOUS
<1>1. SInv /\ CInv
  BY DEF TypeInv, TypeOK, SInv, CInv
<1>2. CASE ServerNext /\ UNCHANGED cvars
  <2>1. SInv'
    BY <1>1, <1>2, ServerTyped
  <2> QED
    BY <1>1, <1>2, <2>1 DEF TypeInv, TypeOK, SInv, CInv, ClientTypeOK, cvars
<1>3. CASE UNCHANGED svars /\ CInv'
  <2>1. ServerTypeOK' /\ LocksCreated'
    BY <1>1, <1>3 DEF SInv, ServerTypeOK, LocksCreated, svars, queues, astState, exports
  <2> QED
    BY <1>3, <2>1 DEF TypeInv, TypeOK, CInv
<1>4. ASSUME NEW l \in Lock, ClientStep(l), UNCHANGED svars PROVE TypeInv'
  BY <1>1, <1>3, <1>4, ClientTyped
<1>5. ASSUME NEW c \in Client, LearnEviction(c) PROVE TypeInv'
  BY <1>1, <1>3, <1>5, InvalidateImportTyped DEF LearnEviction
<1>6. CASE UNCHANGED vars
  <2>1. UNCHANGED svars /\ UNCHANGED cvars /\ UNCHANGED net
    BY <1>6 DEF vars
  <2>2. CInv'
    BY <1>1, <2>1 DEF CInv, ClientTypeOK, cvars
  <2> QED
    BY <1>3, <2>1, <2>2
<1> QED
  BY <1>2, <1>4, <1>5, <1>6 DEF Next

-----------------------------------------------------------------------------
(* Compatibility of the granted locks.  Only the policy run by an enqueue  *)
(* and the scan of the waiting queue add to a queue; all other steps       *)
(* shrink the queues or the bits of a lock.                                *)

Shrink ==
    /\ granted' \subseteq granted /\ waiting' \subseteq waiting
    /\ ahead' = ahead
    /\ \A l \in Lock : bits'[l] \subseteq bits[l]

\* Cancels and converts cannot make granted locks conflict.
LEMMA ShrinkKeeps ==
    ASSUME TypeInv, QInv, Shrink
    PROVE  QInv'
<1>1. granted \subseteq Lock
  BY DEF TypeInv, TypeOK, ServerTypeOK
<1>2. WaitingOrdered'
  BY DEF QInv, WaitingOrdered, Shrink
<1>3. GrantedCompatible'
  BY <1>1 DEF QInv, GrantedCompatible, InodebitsConflict, Shrink
<1> QED
  BY <1>2, <1>3 DEF QInv

\* Request handlers and AST replies cancel locks or leave the queues alone.
LEMMA RequestsShrink ==
    ASSUME NEW t \in Thread, NEW l \in Lock, NEW b, NEW rc,
           \/ HandleEnqueue(t, l) \/ HandleCancel(t, l) \/ ExportCancelLock(t, l)
           \/ HandleConvert(t, l, b) \/ AstTimeout(t, l) \/ AstReply(t, l, rc)
    PROVE  Shrink
BY DEF Shrink, queues, CancelLock, HandleEnqueue, HandleCancel, ExportCancelLock,
       HandleConvert, AstTimeout, AstReply

\* An enqueued lock is compared with the granted locks and with those waiting
\* ahead of it; a lock that waits joins the order of the queue.
LEMMA ProcessEnqueueKeeps ==
    ASSUME TypeInv, QInv, NEW t \in Thread, NEW l \in Lock, ProcessEnqueue(t, l),
           bits' = bits
    PROVE  QInv'
<1>1. /\ granted \subseteq Lock /\ waiting \subseteq Lock
      /\ ahead \in [Lock -> SUBSET Lock]
  BY DEF TypeInv, TypeOK, ServerTypeOK
<1> DEFINE C == Conflicts(l, granted \cup QueueAhead(l))
<1>2. CASE C = {}
  <2>1. /\ granted' = granted \cup ({l} \ destroyed) /\ waiting' = waiting \ {l}
        /\ ahead' = ahead
    BY <1>2 DEF ProcessEnqueue
  <2>2. \A m \in granted \ {l} : ~InodebitsConflict(Mode[m], bits[m], Mode[l], bits[l])
    BY <1>2 DEF Conflicts
  <2>3. \A m \in granted \ {l} : ~InodebitsConflict(Mode[l], bits[l], Mode[m], bits[m])
    BY <1>1, <2>2, LockConflictSymmetric
  <2>4. GrantedCompatible'
    BY <2>1, <2>2, <2>3 DEF QInv, GrantedCompatible
  <2>5. WaitingOrdered'
    BY <2>1 DEF QInv, WaitingOrdered
  <2> QED
    BY <2>4, <2>5 DEF QInv
<1>3. CASE C # {}
  <2>1. /\ granted' = granted /\ waiting' = waiting \cup ({l} \ destroyed)
        /\ ahead' = [ahead EXCEPT ![l] = QueueAhead(l)]
    BY <1>3 DEF ProcessEnqueue
  <2>2. GrantedCompatible'
    BY <2>1 DEF QInv, GrantedCompatible
  <2>3. \A m \in waiting : m = l \/ l \in ahead[m] \/ m \in QueueAhead(l)
    BY DEF QInv, WaitingOrdered, QueueAhead
  <2>4. \A m \in Lock : ahead'[m] = IF m = l THEN QueueAhead(l) ELSE ahead[m]
    BY <1>1, <2>1
  <2>5. WaitingOrdered'
    BY <1>1, <2>1, <2>3, <2>4 DEF QInv, WaitingOrdered
  <2> QED
    BY <2>2, <2>5 DEF QInv
<1> QED
  BY <1>2, <1>3

\* The locks one scan grants are compatible: of any two, one was queued when
\* the other came, and was compared with it.
LEMMA ReprocessKeeps ==
    ASSUME TypeInv, QInv, NEW t \in Thread, Reprocess(t)
    PROVE  QInv'
<1>1. /\ granted' = granted \cup Grantable /\ waiting' = waiting \ Grantable
      /\ ahead' = ahead /\ bits' = bits
  BY Zenon DEF Reprocess
<1>2. granted \subseteq Lock /\ waiting \subseteq Lock /\ Grantable \subseteq waiting
  BY DEF TypeInv, TypeOK, ServerTypeOK, Grantable
<1>3. \A l \in Grantable : \A m \in (granted \cup (ahead[l] \cap waiting)) \ {l} :
        ~InodebitsConflict(Mode[m], bits[m], Mode[l], bits[l])
  BY DEF Grantable, Conflicts
<1>4. \A l, m \in granted \cup Grantable : l # m =>
        ~InodebitsConflict(Mode[l], bits[l], Mode[m], bits[m])
  <2> SUFFICES ASSUME NEW l \in granted \cup Grantable, NEW m \in granted \cup Grantable,
                      l # m, InodebitsConflict(Mode[l], bits[l], Mode[m], bits[m])
               PROVE  FALSE
    OBVIOUS
  <2>1. InodebitsConflict(Mode[m], bits[m], Mode[l], bits[l])
    BY <1>2, LockConflictSymmetric
  <2>2. CASE l \in granted /\ m \in granted
    BY <2>2 DEF QInv, GrantedCompatible
  <2>3. CASE l \in Grantable /\ m \in granted
    BY <1>3, <2>1, <2>3
  <2>4. CASE l \in granted /\ m \in Grantable
    BY <1>3, <2>4
  <2>5. CASE l \in Grantable /\ m \in Grantable
    <3>1. l \in ahead[m] \/ m \in ahead[l]
      BY <1>2, <2>5 DEF QInv, WaitingOrdered
    <3> QED
      BY <1>2, <1>3, <2>1, <2>5, <3>1
  <2> QED
    BY <2>2, <2>3, <2>4, <2>5
<1>5. GrantedCompatible'
  BY <1>1, <1>4 DEF GrantedCompatible
<1>6. WaitingOrdered'
  BY <1>1 DEF QInv, WaitingOrdered
<1> QED
  BY <1>5, <1>6, SMTT(60) DEF QInv

\* What any step does to the queues: it shrinks them, runs the policy for one
\* lock, or scans the waiting queue.
LEMMA QueueSteps ==
    ASSUME TypeInv, [Next]_vars
    PROVE  \/ Shrink
           \/ \E t \in Thread, l \in Lock : ProcessEnqueue(t, l) /\ bits' = bits
           \/ \E t \in Thread : Reprocess(t)
<1> DEFINE Goal == \/ Shrink
                   \/ \E t \in Thread, l \in Lock : ProcessEnqueue(t, l) /\ bits' = bits
                   \/ \E t \in Thread : Reprocess(t)
<1>1. SInv
  BY DEF TypeInv, TypeOK, SInv
<1>2. CASE UNCHANGED queues
  BY <1>2 DEF queues, Shrink
<1>3. ASSUME NEW t \in Thread, LockEnqueue(t) PROVE Goal
  <2>1. thr[t].lock \in Lock
    BY <1>1, <1>3, ThreadTyped DEF LockEnqueue, ThreadLocks, SInv, ServerTypeOK
  <2> QED
    BY <1>3, <2>1, SMTT(60) DEF LockEnqueue
<1>4. ASSUME NEW t \in Thread, EnqueueBlDone(t) PROVE Goal
  <2>1. thr[t].lock \in Lock
    BY <1>1, <1>4, ThreadTyped DEF EnqueueBlDone, AstWorkDone, ThreadLocks, SInv, ServerTypeOK
  <2>2. \/ ProcessEnqueue(t, thr[t].lock) /\ bits' = bits
        \/ UNCHANGED queues
    BY <1>4 DEF EnqueueBlDone, queues
  <2> QED
    BY <1>2, <2>1, <2>2
<1>5. ASSUME NEW t \in Thread, ThreadStep(t) PROVE Goal
  <2>1. CASE \E l \in Lock : BlAstSend(t, l) \/ CpAstSend(t, l)
    BY <2>1, ZenonT(120) DEF BlAstSend, CpAstSend, queues, Shrink
  <2>2. CASE \/ ExportAddLock(t) \/ BlAstFini(t) \/ ReprocessBlDone(t) \/ CpDone(t)
    BY <1>2, <2>2 DEF ExportAddLock, BlAstFini, ReprocessBlDone, CpDone
  <2>3. CASE EnqueueFinish(t)
    BY <2>3 DEF EnqueueFinish, CancelLock, Shrink
  <2>4. CASE ConvertLocked(t)
    BY <2>4, Zenon DEF ConvertLocked, Shrink, TypeInv, TypeOK, ServerTypeOK
  <2> QED
    BY <1>3, <1>4, <1>5, <2>1, <2>2, <2>3, <2>4 DEF ThreadStep
<1>6. ASSUME NEW t \in Thread, HandleRequest(t) PROVE Goal
  BY <1>6, RequestsShrink DEF HandleRequest
<1>7. ASSUME NEW t \in Thread, AstAnswered(t) PROVE Goal
  BY <1>7, RequestsShrink DEF AstAnswered
<1>8. CASE ServerNext
  <2>1. CASE ServerWork
    BY <1>5, <1>6, <1>7, <2>1, SMTT(60) DEF ServerWork
  <2>2. ASSUME NEW l \in Lock, TimerExpire(l) \/ ExpiredEvict(l) \/ ExpiredProlong(l)
        PROVE  Goal
    BY <1>2, <2>2, ZenonT(120) DEF TimerExpire, ExpiredEvict, ExpiredProlong
  <2>3. ASSUME NEW c \in Client, PingEvict(c) \/ StaleExportDone(c) PROVE Goal
    BY <1>2, <2>3 DEF PingEvict, StaleExportDone
  <2> QED
    BY <1>8, <2>1, <2>2, <2>3 DEF ServerNext
<1>9. CASE UNCHANGED svars
  BY <1>2, <1>9 DEF svars
<1> QED
  BY <1>8, <1>9 DEF Next, LearnEviction, vars

\* IndInv is inductive.
LEMMA NextKeepsIndInv == IndInv /\ [Next]_vars => IndInv'
<1> SUFFICES ASSUME IndInv, [Next]_vars PROVE IndInv'
  OBVIOUS
<1>1. TypeInv /\ QInv
  BY DEF IndInv, TypeInv, QInv
<1>2. TypeInv'
  BY <1>1, NextTyped
<1>3. QInv'
  BY <1>1, QueueSteps, ShrinkKeeps, ProcessEnqueueKeeps, ReprocessKeeps
<1> QED
  BY <1>2, <1>3 DEF IndInv, TypeInv, QInv

-----------------------------------------------------------------------------
(* The theorems.                                                           *)

\* Types hold in every state, whatever fails and however the threads of the
\* server and of the clients interleave: no handler ever works on a lock that
\* was not created.
THEOREM TypeCorrect == Spec => [](TypeOK /\ LocksCreated)
<1>1. TypeInv <=> TypeOK /\ LocksCreated
  BY Zenon DEF TypeInv
<1> QED
  BY <1>1, InitTyped, NextTyped, PTL DEF Spec, TypeInv

\* The inductive invariant holds in every state.
THEOREM Invariance == Spec => []IndInv
<1>1. Init => IndInv
  BY InitTyped, Zenon DEF Init, ServerInit, TypeInv, IndInv, WaitingOrdered, GrantedCompatible
<1> QED
  BY <1>1, NextKeepsIndInv, PTL DEF Spec

\* Mutual exclusion: no two granted locks conflict, for any number of locks,
\* clients and service threads, with ASTs lost or late, clients evicted and
\* locks converted at any time.
THEOREM MutualExclusion == Spec => []GrantedCompatible
<1>1. IndInv => GrantedCompatible
  BY Zenon DEF IndInv
<1> QED
  BY <1>1, Invariance, PTL

\* Queue order: no step grants a lock past one that waits ahead of it and
\* conflicts with it (ldlm_inodebits_compat_queue on lr_waiting,
\* ldlm_reprocess_queue).
THEOREM QueueOrder == Spec => NoOvertaking
<1> DEFINE Fair == \A l \in granted' \ granted, m \in waiting \cap waiting' :
                     m \in QueueAhead(l) =>
                       ~InodebitsConflict(Mode[m], bits[m], Mode[l], bits[l])
<1>1. ASSUME TypeInv, [Next]_vars PROVE Fair
  <2>1. CASE Shrink
    BY <2>1, SMTT(60) DEF Shrink
  <2>2. ASSUME NEW t \in Thread, NEW k \in Lock, ProcessEnqueue(t, k) PROVE Fair
    <3>1. CASE Conflicts(k, granted \cup QueueAhead(k)) = {}
      <4>1. granted' = granted \cup ({k} \ destroyed) /\ waiting' = waiting \ {k}
        BY <2>2, <3>1, Zenon DEF ProcessEnqueue
      <4> QED
        BY <3>1, <4>1, Zenon DEF Conflicts
    <3>2. CASE Conflicts(k, granted \cup QueueAhead(k)) # {}
      BY <2>2, <3>2, Zenon DEF ProcessEnqueue
    <3> QED
      BY <3>1, <3>2, Zenon
  <2>3. ASSUME NEW t \in Thread, Reprocess(t) PROVE Fair
    <3>1. granted' = granted \cup Grantable /\ waiting' = waiting \ Grantable
      BY <2>3, Zenon DEF Reprocess
    <3>2. \A l \in Grantable : \A m \in (ahead[l] \cap waiting) \ {l} :
            ~InodebitsConflict(Mode[m], bits[m], Mode[l], bits[l])
      BY Zenon DEF Grantable, Conflicts
    <3>3. \A l \in Grantable : QueueAhead(l) = ahead[l] \cap waiting
      BY Zenon DEF Grantable, QueueAhead
    <3>4. ASSUME NEW l \in granted' \ granted, NEW m \in waiting \cap waiting', m \in QueueAhead(l)
          PROVE  ~InodebitsConflict(Mode[m], bits[m], Mode[l], bits[l])
      <4>1. l \in Grantable /\ m \notin Grantable
        BY <3>1, Zenon
      <4>2. l # m /\ m \in (ahead[l] \cap waiting) \ {l}
        BY <3>3, <3>4, <4>1, Zenon
      <4> QED
        BY <3>2, <4>1, <4>2, Zenon
    <3> QED
      BY <3>4, Zenon
  <2>4. \/ Shrink
        \/ \E t \in Thread, l \in Lock : ProcessEnqueue(t, l) /\ bits' = bits
        \/ \E t \in Thread : Reprocess(t)
    BY <1>1, QueueSteps, ZenonT(40)
  <2> HIDE DEF Fair
  <2> QED
    BY <2>1, <2>2, <2>3, <2>4, ZenonT(40)
<1>2. TypeInv <=> TypeOK /\ LocksCreated
  BY Zenon DEF TypeInv
<1>3. Spec => []TypeInv
  BY <1>2, TypeCorrect, PTL
<1>4. TypeInv /\ [Next]_vars => [Fair]_vars
  BY <1>1, Zenon
<1> QED
  BY <1>3, <1>4, PTL DEF Spec, NoOvertaking

-----------------------------------------------------------------------------
(* Eviction.                                                               *)

\* In every state an enqueue is handled once, a lock the policy has not seen is
\* known to nobody, and leftovers of evictions and called-back locks without a
\* timer are in the hands of a thread (ldlm_handle_enqueue0,
\* ldlm_server_blocking_ast, ldlm_server_completion_ast).
THEOREM EvictionInvariance == Spec => []EvictionInv
<1>1. Init => TypeInv /\ EvictionInv
  BY InitTyped, InitEviction, Zenon
<1>2. (TypeInv /\ EvictionInv) /\ [Next]_vars => (TypeInv /\ EvictionInv)'
  BY NextTyped, NextKeepsEviction, Zenon
<1> QED
  BY <1>1, <1>2, PTL DEF Spec

\* An evicted client leaves no lock behind: once its export has been reaped and
\* the handlers are done, none of its locks is on the resource, even if an
\* enqueue raced with the eviction (ldlm_handle_enqueue0, bug 5683).
THEOREM EvictionComplete == Spec => []EvictedLocksGone
<1>1. TypeInv /\ EvictionInv => EvictedLocksGone
  <2> SUFFICES ASSUME TypeInv, EvictionInv, ThreadsIdle, NEW l \in granted \cup waiting
               PROVE  Owner[l] \notin reaped
    BY Zenon DEF EvictedLocksGone
  <2>1. Idle.pc = "idle"
    BY Zenon DEF Idle
  <2>2. \A t \in Thread : thr[t].pc = "idle"
    BY <2>1, Zenon DEF ThreadsIdle
  <2>3. \A t \in Thread : ~Unfinished(t, l)
    BY <2>2, Zenon DEF Unfinished
  <2> QED
    BY <2>3, Zenon DEF EvictionInv, LeftoversUnfinished
<1> QED
  BY <1>1, TypeCorrect, EvictionInvariance, PTL DEF TypeInv

\* A client that never answers a callback cannot keep the lock: once the
\* handlers are done, a called-back granted lock has its timer armed or is
\* about to get its client evicted (ldlm_add_waiting_lock).
THEOREM CallbackTimed == Spec => []CalledBackHasTimer
<1>1. TypeInv /\ EvictionInv => CalledBackHasTimer
  <2> SUFFICES ASSUME TypeInv, EvictionInv, ThreadsIdle, NEW l \in granted \cap astSent, Alive(l)
               PROVE  tmr[l] # "off"
    BY Zenon DEF CalledBackHasTimer
  <2>1. Idle.pc = "idle" /\ Idle.bl = {} /\ Idle.cp = {}
    BY Zenon DEF Idle
  <2>2. \A t \in Thread : thr[t].pc = "idle" /\ thr[t].bl = {} /\ thr[t].cp = {}
    BY <2>1, Zenon DEF ThreadsIdle
  <2>3. \A t \in Thread : ~Unfinished(t, l) /\ l \notin thr[t].bl \cup thr[t].cp
    BY <2>2, Zenon DEF Unfinished
  <2> QED
    BY <2>3, Zenon DEF EvictionInv, TimerPending
<1> QED
  BY <1>1, TypeCorrect, EvictionInvariance, PTL DEF TypeInv

-----------------------------------------------------------------------------
(* Coherence and assertions.                                               *)

\* In every state what was seen granted, by the client, in a message or by a
\* thread, is granted until the client has given it up, and the client has
\* dropped every bit the server may drop (ldlm_server_completion_ast,
\* ldlm_handle_convert0, ldlm_cli_dropbits).
THEOREM CoherenceInvariance == Spec => []CoherenceInv
<1>1. Init => TypeInv /\ EvictionInv /\ CoherenceInv
  BY InitTyped, InitEviction, InitCoherence, Zenon
<1>2. (TypeInv /\ EvictionInv /\ CoherenceInv) /\ [Next]_vars
        => (TypeInv /\ EvictionInv /\ CoherenceInv)'
  BY NextTyped, NextKeepsEviction, NextKeepsCoherence, Zenon
<1> QED
  BY <1>1, <1>2, PTL DEF Spec

\* What a client that is not evicted believes to hold, lock and bits, the
\* server has granted to it, although grants, callbacks, cancels and converts
\* cross in the network (ldlm_handle_cp_callback, ldlm_cli_enqueue_fini,
\* ldlm_lock_cancel, ldlm_inodebits_drop).
THEOREM Coherence == Spec => []ClientCoherent
<1>1. CoherenceInv => ClientCoherent
  <2> SUFFICES ASSUME CoherenceInv, NEW l \in Lock, Held(l), Alive(l)
               PROVE  l \in granted /\ cl[l].bits \subseteq bits[l]
    BY Zenon DEF ClientCoherent
  <2>1. GrantsKept /\ BitsKept
    BY Zenon DEF CoherenceInv
  <2>2. l \in granted \cup destroyed /\ (l \in destroyed => Ended(l))
    BY <2>1, Zenon DEF GrantsKept, SeenGranted
  <2>3. ~Ended(l)
    BY Zenon DEF Held, Ended
  <2> QED
    BY <2>1, <2>2, <2>3, Zenon DEF BitsKept
<1> QED
  BY <1>1, CoherenceInvariance, PTL

\* In every state of a system that does not convert locks a lock is on the
\* work list of one thread at most, which has called it back, and a lock that
\* is being cancelled has no users (ldlm_add_ast_work_item,
\* ldlm_work_bl_ast_lock, ldlm_cli_cancel_local).
THEOREM AssertionInvariance == Spec => []AssertionInv
<1>1. Init => TypeInv /\ AssertionInv
  BY InitTyped, InitAssertions, Zenon
<1>2. (TypeInv /\ AssertionInv) /\ [Next]_vars => (TypeInv /\ AssertionInv)'
  BY NextTyped, NextKeepsAssertions, Zenon
<1> QED
  BY <1>1, <1>2, PTL DEF Spec

\* Where locks are not converted no assertion of the server or of a client
\* fails: LASSERT(list_empty(&lock->l_bl_ast)), l_blocking_lock == NULL and
\* the others that the model evaluates (ldlm_lock.c, ldlm_request.c).
THEOREM NoAssertionFails == ASSUME ~CanConvert PROVE Spec => []NoLbug
<1>1. AssertionInv => NoLbug
  BY Zenon DEF AssertionInv
<1> QED
  BY <1>1, AssertionInvariance, PTL

\* The invariant of the protocol between the server and its clients: what the
\* eviction, the coherence and the assertion theorems follow from.
THEOREM ProtocolInvariance == Spec => []ProtocolInv
BY EvictionInvariance, CoherenceInvariance, AssertionInvariance, PTL DEF ProtocolInv

-----------------------------------------------------------------------------
(* The waiting queue.                                                      *)

\* In every state of a system without faults what can be granted will be, what
\* a lock waits for has been called back, and the call reaches a client that
\* gives the lock up or has a user for it (ldlm_reprocess_all,
\* ldlm_run_ast_work, ldlm_handle_bl_callback).
THEOREM QueueInvariance == Spec => []QueueInv
BY InitQueue, NextKeepsQueue, Invariance, ProtocolInvariance, PTL DEF Spec

\* No waiter is stranded, for any number of locks, clients and threads: when
\* nothing is in progress the head of the waiting queue waits for a user of a
\* lock whose client has been told to give it up (ldlm_reprocess_queue).
THEOREM WaiterNotStranded == ASSUME NoFaults PROVE Spec => []NoStrandedWaiter
<1>1. IndInv /\ ProtocolInv /\ QueueInv => NoStrandedWaiter
  <2> SUFFICES ASSUME IndInv, ProtocolInv, QueueInv, Quiet, NEW l \in waiting,
                      ahead[l] \cap waiting = {}
               PROVE  \E m \in Conflicts(l, granted) : cl[m].ref /\ cl[m].cbpending
    BY Zenon DEF NoStrandedWaiter
  <2>1. Sound /\ Comm /\ ServerQ
    BY Zenon DEF QueueInv, Sound, Comm, ServerQ, IndInv, TypeInv, QInv
  <2>2. net = {} /\ \A t \in Thread : thr[t] = Idle
    BY Zenon DEF Quiet, ThreadsIdle
  <2>3. \A t \in Thread : ~WillRescan(t) /\ thr[t].bl = {} /\ thr[t].ctx = "none"
    BY <2>2, IdleRests, Zenon
  <2>4. \A t \in Thread : thr[t].cp = {}
    BY <2>2, IdleFields
  <2>5. l \in Lock /\ granted \subseteq Lock
    BY <2>1, SoundFacts, Zenon DEF SInv, ServerTypeOK
  <2>6. PICK m : m \in Conflicts(l, granted)
    BY <2>1, <2>3, <2>5, Zenon DEF ServerQ, HeadBlocked, Head
  <2>7. m \in granted /\ m \in astSent /\ m \in Lock
    BY <2>1, <2>5, <2>6, Zenon DEF ServerQ, BlockersCalledBack, Conflicts
  <2>8. cl[m].work = {} /\ ~cl[m].canceling
    BY <2>7, Zenon DEF Quiet
  <2>9. cl[m].cbpending
    <3>1. ~BlAstComing(m) /\ ~ReplyComing(m) /\ ~CpAstComing(m)
      BY <2>2, <2>3, <2>4, <2>8, Zenon DEF BlAstComing, ReplyComing, CpAstComing, Enqueues
    <3> QED
      BY <2>1, <2>2, <2>7, <3>1, Zenon DEF Comm, CallbacksArrive
  <2>10. Known(m)
    <3>1. cl[m].st \in {"none", "enq", "held", "gone"}
      BY <2>1, <2>7, SoundLock, Zenon DEF ClientLock
    <3>2. cl[m].st # "none"
      BY <2>1, <2>7, SoundFacts, Zenon DEF Fresh
    <3>3. cl[m].st # "gone"
      BY <2>1, <2>2, <2>7, Zenon DEF Comm, ClientsCooperate
    <3> QED
      BY <3>1, <3>2, <3>3, Zenon DEF Known
  <2>11. cl[m].ref
    BY <2>1, <2>7, <2>8, <2>9, <2>10, Zenon DEF Comm, ClientsCooperate
  <2> QED
    BY <2>6, <2>9, <2>11, Zenon
<1> QED
  BY <1>1, Invariance, ProtocolInvariance, QueueInvariance, PTL
=============================================================================

----------------------------- MODULE LdlmServer -----------------------------
(***************************************************************************)
(* The lock server (ldlm_lockd.c, ldlm_lock.c, ldlm_inodebits.c) for one   *)
(* inodebits resource: enqueue, cancel and convert handlers, blocking and  *)
(* completion ASTs, the lock-callback timer and client eviction.           *)
(*                                                                         *)
(* The resource lock (lock_res) is dropped whenever ASTs are sent and      *)
(* between the phases of a handler; one action is what a thread does       *)
(* between taking and releasing it.  A handler that has not finished is    *)
(* the record thr[t] of its thread, pc being the next critical section.    *)
(***************************************************************************)
EXTENDS LdlmBase

CONSTANT Flaky    \* clients whose callbacks may time out, or that fall silent

ASSUME FlakyAssumption == Flaky \subseteq Client

VARIABLES
    granted,    \* lr_granted: l_granted_mode = l_req_mode
    waiting,    \* lr_waiting, as a set ...
    ahead,      \* ... with the locks that were queued when a lock joined it
    bits,       \* l_policy_data.l_inodebits.bits
    created,    \* locks that have entered the lock hash of their export
    destroyed,  \* LDLM_FL_CANCEL and LDLM_FL_DESTROYED
    astSent,    \* LDLM_FL_AST_SENT
    blAstRun,   \* l_bl_ast_run # 0
    cbpending,  \* LDLM_FL_CBPENDING
    blocking,   \* l_blocking_lock
    tmr,        \* where l_pending_chain is: no list, waiting or expired list
    failed,     \* exp_disconnected: evicted clients
    reaped,     \* evicted clients whose lock hash has been emptied
    thr,        \* the service threads
    lbug        \* failed assertions

queues == <<granted, waiting, ahead, bits>>
astState == <<astSent, blAstRun, cbpending, blocking>>
exports == <<failed, reaped>>
svars == <<queues, created, destroyed, astState, tmr, exports, thr, lbug>>

ThreadPc == {"idle", "hash", "policy", "bl", "blfin", "finish", "reproc", "cp", "conv"}

Idle == [pc |-> "idle", ctx |-> "none", lock |-> NoLock, bl |-> {},
         cur |-> NoLock, out |-> {}, cp |-> {}, restart |-> FALSE,
         rescan |-> FALSE, rc |-> "error", ast |-> FALSE, drop |-> {}]

ThreadState ==
    [pc : ThreadPc, ctx : {"none", "enq", "conv"}, lock : Lock \cup {NoLock},
     bl : SUBSET Lock,        \* AST work list (l_bl_ast)
     cur : Lock \cup {NoLock},
     out : SUBSET Lock,       \* AST RPCs not answered yet
     cp : SUBSET Lock,        \* completion AST work list (l_cp_ast)
     restart : BOOLEAN,
     rescan : BOOLEAN,        \* in ldlm_reprocess_all
     rc : EnqRc, ast : BOOLEAN, drop : SUBSET Bit]

Timer == {"off", "armed", "expired", "failed"}

Assertion == {"l_blocking_lock == NULL", "list_empty(l_bl_ast)",
              "ast_sent, !l_bl_ast_run, l_blocking_lock",
              "l_req_mode == l_granted_mode"}

LAssert(cond, a) == IF cond THEN {} ELSE {a}

ServerTypeOK ==
    /\ granted \subseteq Lock /\ waiting \subseteq Lock
    /\ ahead \in [Lock -> SUBSET Lock]
    /\ bits \in [Lock -> SUBSET Bit]
    /\ created \subseteq Lock /\ destroyed \subseteq created
    /\ astSent \subseteq Lock /\ blAstRun \subseteq Lock
    /\ cbpending \subseteq Lock
    /\ blocking \in [Lock -> Lock \cup {NoLock}]
    /\ tmr \in [Lock -> Timer]
    /\ failed \subseteq Client /\ reaped \subseteq failed
    /\ thr \in [Thread -> ThreadState]
    /\ lbug \subseteq Assertion

ServerInit ==
    /\ granted = {} /\ waiting = {} /\ created = {} /\ destroyed = {}
    /\ ahead = [l \in Lock |-> {}]
    /\ bits = ReqBits
    /\ astSent = {} /\ blAstRun = {} /\ cbpending = {}
    /\ blocking = [l \in Lock |-> NoLock]
    /\ tmr = [l \in Lock |-> "off"]
    /\ failed = {} /\ reaped = {}
    /\ thr = [t \in Thread |-> Idle]
    /\ lbug = {}

-----------------------------------------------------------------------------
(* The policy function and the queues.                                     *)

\* ldlm_inodebits_compat_queue: the locks of a queue that exclude l.
ConflictsCalledBack(l, queue) ==
    {c \in queue \ ({l} \cup astSent) :
        InodebitsConflict(Mode[c], bits[c], Mode[l], bits[l])}
Conflicts(l, queue) ==
    {c \in queue \ {l} : InodebitsConflict(Mode[c], bits[c], Mode[l], bits[l])}

\* The walk of the waiting queue stops at the lock itself.
QueueAhead(l) == IF l \in waiting THEN ahead[l] \cap waiting ELSE waiting

\* ldlm_add_bl_work_item calls a lock back once only.
ToCallBackAgain(C) == C
ToCallBack(C) == C \ astSent

\* ldlm_add_bl_work_item for each lock of N, none of them AST_SENT.
AddBlWork(N, l) ==
    /\ astSent' = astSent \cup N
    /\ blocking' = [c \in Lock |-> IF c \in N THEN l ELSE blocking[c]]
    /\ lbug' = lbug
         \cup LAssert(\A c \in N, t \in Thread : c \notin thr[t].bl,
                     "list_empty(l_bl_ast)")
         \cup LAssert(\A c \in N : blocking[c] = NoLock,
                     "l_blocking_lock == NULL")

\* __ldlm_add_waiting_lock leaves alone a lock that is on some list.
AddWaitingCbpending(l) ==
    tmr' = IF l \in cbpending \ destroyed /\ tmr[l] = "off"
           THEN [tmr EXCEPT ![l] = "armed"] ELSE tmr
AddWaiting(l) ==
    tmr' = IF l \notin destroyed /\ tmr[l] = "off"
           THEN [tmr EXCEPT ![l] = "armed"] ELSE tmr

\* ldlm_lock_cancel: unlink from the resource and from the timer, destroy.
CancelLock(l) ==
    /\ granted' = granted \ {l}
    /\ waiting' = waiting \ {l}
    /\ destroyed' = destroyed \cup {l}
    /\ tmr' = [tmr EXCEPT ![l] = "off"]

\* The locks ldlm_handle2lock finds, and the lock hash of their export holds.
Live == created \ destroyed

Become(t, r) == thr' = [thr EXCEPT ![t] = r]

Goto(t, pc) == Become(t, [thr[t] EXCEPT !.pc = pc])

-----------------------------------------------------------------------------
(* Enqueue.                                                                *)

\* ldlm_handle_enqueue0: create the lock; do not go on if the export is gone.
HandleEnqueue(t, l) ==
    /\ t \in EnqThread /\ thr[t] = Idle
    /\ EnqReq(l) \in net
    /\ net' = net \ {EnqReq(l)}
    /\ Become(t, [Idle EXCEPT
                    !.pc = IF Owner[l] \in failed THEN "reproc" ELSE "hash",
                    !.ctx = "enq", !.lock = l])
    /\ UNCHANGED <<queues, created, destroyed, astState, tmr, exports, lbug>>

\* The lock enters the lock hash of the export, which may have been
\* disconnected since it was looked at.
ExportAddLock(t) ==
    /\ thr[t].pc = "hash"
    /\ created' = created \cup {thr[t].lock}
    /\ Goto(t, "policy")
    /\ UNCHANGED <<queues, destroyed, astState, tmr, exports, lbug, net>>

\* ldlm_process_inodebits_lock with LDLM_PROCESS_ENQUEUE, and joining the
\* waiting queue on a conflict (once only: a restart keeps the place). A lock
\* that was cancelled meanwhile is put on no list.
ProcessEnqueue(t, l) ==
    LET C == Conflicts(l, granted \cup QueueAhead(l))
        listed == {l} \ destroyed IN
    \/ /\ C = {}
       /\ granted' = granted \cup listed
       /\ waiting' = waiting \ {l}
       /\ Become(t, [thr[t] EXCEPT !.pc = "finish", !.rc = "granted"])
       /\ UNCHANGED <<ahead, astSent, blocking, lbug>>
    \/ /\ C # {}
       /\ waiting' = waiting \cup listed
       /\ ahead' = [ahead EXCEPT ![l] = QueueAhead(l)]
       /\ AddBlWork(ToCallBack(C), l)
       /\ Become(t, [thr[t] EXCEPT !.pc = "bl", !.bl = ToCallBack(C),
                                   !.restart = FALSE])
       /\ UNCHANGED granted

\* The export may be disconnected, and its locks cancelled, before the policy
\* runs.
LockEnqueue(t) ==
    /\ thr[t].pc = "policy"
    /\ ProcessEnqueue(t, thr[t].lock)
    /\ UNCHANGED <<bits, created, destroyed, blAstRun, cbpending, tmr,
                   exports, net>>

-----------------------------------------------------------------------------
(* Blocking ASTs (ldlm_run_ast_work of LDLM_WORK_BL_AST).                  *)

\* ldlm_work_bl_ast_lock and ldlm_server_blocking_ast for one lock c.
BlAstSend(t, c) ==
    LET send == c \notin destroyed /\ c \in granted
        rpc == send /\ Owner[c] \notin failed /\ blocking[c] # NoLock IN
    /\ thr[t].pc = "bl" /\ c \in thr[t].bl
    /\ blAstRun' = blAstRun \cup {c}
    /\ cbpending' = IF send THEN cbpending \cup {c} ELSE cbpending
    /\ IF send THEN AddWaiting(c) ELSE UNCHANGED tmr
    /\ net' = IF rpc THEN net \cup {BlAst(c, bits[blocking[c]], t)} ELSE net
    /\ Become(t, [thr[t] EXCEPT !.pc = "blfin", !.bl = @ \ {c}, !.cur = c,
                                !.out = IF rpc THEN @ \cup {c} ELSE @])
    /\ lbug' = lbug \cup LAssert(/\ c \in astSent /\ c \notin blAstRun
                                /\ blocking[c] # NoLock,
                                "ast_sent, !l_bl_ast_run, l_blocking_lock")
    /\ UNCHANGED <<queues, created, destroyed, astSent, blocking, exports>>

\* l_blocking_lock is dropped after the RPC has been handed to the network,
\* without the resource lock.
BlAstFini(t) ==
    /\ thr[t].pc = "blfin"
    /\ blocking' = [blocking EXCEPT ![thr[t].cur] = NoLock]
    /\ Become(t, [thr[t] EXCEPT !.pc = "bl", !.cur = NoLock])
    /\ UNCHANGED <<queues, created, destroyed, astSent, blAstRun, cbpending,
                   tmr, exports, lbug, net>>

\* ldlm_cb_interpret: -EINVAL means that the client has no such lock.
AstReply(t, c, rc) ==
    /\ AstRep(c, rc, t) \in net
    /\ net' = net \ {AstRep(c, rc, t)}
    /\ IF rc = "einval" /\ c \in thr[t].out
       THEN CancelLock(c) ELSE UNCHANGED <<granted, waiting, destroyed, tmr>>
    /\ Become(t, [thr[t] EXCEPT !.out = @ \ {c},
                      !.restart = @ \/ (rc = "einval" /\ c \in thr[t].out)])
    /\ UNCHANGED <<ahead, bits, created, astState, exports, lbug>>

\* ldlm_handle_ast_error when the RPC failed or was never answered: harmless
\* if the lock is cancelled or the client evicted by now, else ldlm_failed_ast.
\* The AST itself may still arrive later.
AstTimeout(t, c) ==
    /\ c \in thr[t].out /\ Owner[c] \in Flaky
    /\ tmr' = IF c \in destroyed \/ Owner[c] \in failed
              THEN tmr ELSE [tmr EXCEPT ![c] = "failed"]
    /\ Become(t, [thr[t] EXCEPT !.out = @ \ {c}, !.restart = @ \/ c \in destroyed])
    /\ UNCHANGED <<queues, created, destroyed, astState, exports, lbug, net>>

AstWorkDone(t, pc) ==
    /\ thr[t].pc = pc /\ thr[t].out = {}
    /\ (IF pc = "bl" THEN thr[t].bl ELSE thr[t].cp) = {}

\* ldlm_handle_conflict_lock, after all blocking ASTs have been answered.
EnqueueBlDone(t) ==
    LET l == thr[t].lock IN
    /\ AstWorkDone(t, "bl") /\ ~thr[t].rescan
    /\ \/ /\ thr[t].restart /\ l \notin destroyed \cup granted
          /\ ProcessEnqueue(t, l)
       \/ /\ ~thr[t].restart \/ l \in destroyed \cup granted
          /\ Become(t, [thr[t] EXCEPT !.pc = "finish",
                            !.rc = IF ~thr[t].restart THEN "blocked"
                                   ELSE IF l \in destroyed THEN "error"
                                   ELSE "granted"])
          /\ UNCHANGED <<granted, waiting, ahead, astSent, blocking, lbug>>
    /\ UNCHANGED <<bits, created, destroyed, blAstRun, cbpending, tmr, exports,
                   net>>

\* exp_disconnected is looked at again before the reply.
ExportGoneUnchecked(l) == FALSE
ExportGone(l) == Owner[l] \in failed

\* ldlm_handle_enqueue0 after ldlm_lock_enqueue: tell the client at once if
\* the lock has been called back, cancel it if the export is gone; then
\* reprocess the queue unless the enqueue failed or the lock is cbpending.
EnqueueFinish(t) ==
    LET l == thr[t].lock
        dead == ExportGone(l) \/ thr[t].rc = "error"
        next == IF l \in cbpending \/ thr[t].rc = "error" THEN "cp" ELSE "reproc" IN
    /\ thr[t].pc = "finish"
    /\ \/ /\ dead
          /\ CancelLock(l)
          /\ Become(t, [thr[t] EXCEPT !.pc = next, !.rc = "error"])
       \/ /\ ~dead
          /\ IF l \in astSent \cap granted THEN AddWaiting(l) ELSE UNCHANGED tmr
          /\ Become(t, [thr[t] EXCEPT !.pc = next, !.ast = (l \in astSent)])
          /\ UNCHANGED <<granted, waiting, destroyed>>
    /\ UNCHANGED <<ahead, bits, created, astState, exports, lbug, net>>

-----------------------------------------------------------------------------
(* ldlm_reprocess_all: grant what can be granted, in queue order up to the *)
(* first lock still blocked; call back the granted locks that block it;    *)
(* then send the completion ASTs.                                          *)

GrantableStale == {l \in waiting : Conflicts(l, granted) = {}}
GrantableFirst == {l \in GrantableStale : ahead[l] \cap waiting = {}}
Grantable ==
    {l \in waiting : \A m \in waiting :
        m = l \/ m \in ahead[l] =>
            Conflicts(m, granted \cup (ahead[m] \cap waiting)) = {}}

\* The first lock the scan could not grant, if there is one.
FirstBlocked == {l \in waiting \ Grantable : ahead[l] \cap waiting \subseteq Grantable}

\* ldlm_reprocess_queue with LDLM_PROCESS_RESCAN.
Reprocess(t) ==
    /\ thr[t].pc = "reproc"
    /\ granted' = granted \cup Grantable
    /\ waiting' = waiting \ Grantable
    /\ \/ /\ FirstBlocked = {}
          /\ Become(t, [thr[t] EXCEPT !.pc = "cp", !.rescan = TRUE,
                           !.restart = FALSE, !.cp = @ \cup Grantable])
          /\ UNCHANGED <<astSent, blocking, lbug>>
       \/ \E l \in FirstBlocked :
             LET N == ToCallBack(Conflicts(l, granted \cup Grantable)) IN
             /\ AddBlWork(N, l)
             /\ Become(t, [thr[t] EXCEPT !.pc = "bl", !.bl = N, !.rescan = TRUE,
                              !.restart = FALSE, !.cp = @ \cup Grantable])
    /\ UNCHANGED <<ahead, bits, created, destroyed, blAstRun, cbpending, tmr,
                   exports, net>>

ReprocessBlDone(t) ==
    /\ AstWorkDone(t, "bl") /\ thr[t].rescan
    /\ Become(t, [thr[t] EXCEPT !.pc = IF thr[t].restart THEN "reproc" ELSE "cp",
                                !.restart = FALSE])
    /\ UNCHANGED <<queues, created, destroyed, astState, tmr, exports, lbug, net>>

\* ldlm_work_cp_ast_lock and ldlm_server_completion_ast.
CpAstSend(t, l) ==
    LET rpc == Owner[l] \notin failed IN
    /\ thr[t].pc = "cp" /\ l \in thr[t].cp
    /\ IF l \in astSent THEN AddWaiting(l) ELSE UNCHANGED tmr
    /\ net' = IF rpc THEN net \cup {CpAst(l, bits[l], l \in astSent, t)} ELSE net
    /\ Become(t, [thr[t] EXCEPT !.cp = @ \ {l},
                                !.out = IF rpc THEN @ \cup {l} ELSE @])
    /\ UNCHANGED <<queues, created, destroyed, astState, exports, lbug>>

Reply(t) ==
    CASE thr[t].ctx = "enq" -> {EnqRep(thr[t].lock, thr[t].rc, thr[t].ast)}
      [] thr[t].ctx = "conv" -> {ConvRep(thr[t].lock, "ok", bits[thr[t].lock])}
      [] OTHER -> {}

\* All completion ASTs are answered: restart the scan if a lock turned out to
\* be gone, else the handler returns and its reply is sent.
CpDone(t) ==
    /\ AstWorkDone(t, "cp")
    /\ \/ /\ thr[t].restart
          /\ Goto(t, "reproc")
          /\ UNCHANGED net
       \/ /\ ~thr[t].restart
          /\ net' = net \cup Reply(t)
          /\ Become(t, Idle)
    /\ UNCHANGED <<queues, created, destroyed, astState, tmr, exports, lbug>>

-----------------------------------------------------------------------------
(* Cancel and convert.                                                     *)

\* ldlm_handle_cancel: a stale handle, or an export that is gone, is no error.
HandleCancel(t, l) ==
    /\ t \in CancelThread /\ thr[t] = Idle
    /\ CancelReq(l) \in net
    /\ net' = net \ {CancelReq(l)}
    /\ \/ /\ l \in Live /\ Owner[l] \notin failed
          /\ CancelLock(l)
          /\ Goto(t, "reproc")
       \/ /\ l \notin Live \/ Owner[l] \in failed
          /\ UNCHANGED <<granted, waiting, destroyed, tmr, thr>>
    /\ UNCHANGED <<ahead, bits, created, astState, exports, lbug>>

\* The bits of l to drop for it to be left with new: bits & ~new.
DropBitsKept(l, new) == new
DropBits(l, new) == bits[l] \ new

\* ldlm_handle_convert0 up to lock_res_and_lock: the lock is looked up and
\* examined, and the bits to drop are computed, without the resource lock.
HandleConvert(t, l, new) ==
    LET bad == l \notin Live \/ Owner[l] \in failed \/ l \notin granted IN
    /\ t \in CancelThread /\ thr[t] = Idle
    /\ ConvReq(l, new) \in net
    /\ \/ /\ bad \/ bits[l] = new
          /\ net' = (net \ {ConvReq(l, new)}) \cup
               {ConvRep(l, IF Owner[l] \in failed THEN "error"
                           ELSE IF bad THEN "nolock" ELSE "ok", bits[l])}
          /\ UNCHANGED thr
       \/ /\ ~bad /\ bits[l] # new
          /\ net' = net \ {ConvReq(l, new)}
          /\ Become(t, [thr[t] EXCEPT !.pc = "conv", !.ctx = "conv", !.lock = l,
                                      !.drop = DropBits(l, new)])
    /\ UNCHANGED <<queues, created, destroyed, astState, tmr, exports, lbug>>

\* A converted lock may be called back again.
ForgetCallback(l) ==
    /\ cbpending' = cbpending \ {l}
    /\ blAstRun' = blAstRun \ {l}
    /\ astSent' = astSent \ {l}

\* Mutant of ConvertLocked: it does not reprocess.
ConvertLockedOnly(t) ==
    LET l == thr[t].lock IN
    /\ thr[t].pc = "conv"
    /\ tmr' = [tmr EXCEPT ![l] = "off"]
    /\ ForgetCallback(l)
    /\ bits' = [bits EXCEPT ![l] = @ \ thr[t].drop]
    /\ Goto(t, "cp")
    /\ UNCHANGED <<granted, waiting, ahead, created, destroyed, blocking, lbug,
                   exports, net>>

\* The locked part: stop the timer, drop the bits (ldlm_inodebits_drop puts
\* the lock back on the granted list, asserting that it is granted), forget
\* that the lock was called back, and reprocess.
ConvertLocked(t) ==
    LET l == thr[t].lock
        dropping == bits[l] \cap thr[t].drop # {} IN
    /\ thr[t].pc = "conv"
    /\ tmr' = [tmr EXCEPT ![l] = "off"]
    /\ ForgetCallback(l)
    /\ bits' = [bits EXCEPT ![l] = @ \ thr[t].drop]
    /\ lbug' = lbug \cup LAssert(dropping => l \in granted,
                                "l_req_mode == l_granted_mode")
    /\ Goto(t, "reproc")
    /\ UNCHANGED <<granted, waiting, ahead, created, destroyed, blocking,
                   exports, net>>

-----------------------------------------------------------------------------
(* The lock-callback timer and eviction.                                   *)

\* waiting_locks_callback; group locks never expire.
TimerExpire(l) ==
    /\ tmr[l] = "armed" /\ Owner[l] \in Flaky /\ Mode[l] # "GROUP"
    /\ tmr' = [tmr EXCEPT ![l] = "expired"]
    /\ UNCHANGED <<queues, created, destroyed, astState, exports, thr, lbug, net>>

\* expired_lock_main: evict the client, unless the lock is gone ...
ExpiredEvict(l) ==
    /\ tmr[l] \in {"expired", "failed"}
    /\ tmr' = [tmr EXCEPT ![l] = "off"]
    /\ failed' = IF l \in destroyed THEN failed ELSE failed \cup {Owner[l]}
    /\ UNCHANGED <<queues, created, destroyed, astState, reaped, thr, lbug, net>>

\* ... or give it more time, if I/O under the lock is in progress.
ExpiredProlong(l) ==
    /\ tmr[l] = "expired" /\ l \notin destroyed
    /\ tmr' = [tmr EXCEPT ![l] = "armed"]
    /\ UNCHANGED <<queues, created, destroyed, astState, exports, thr, lbug, net>>

\* ping_evictor_main: a client that has not been heard of is evicted.
PingEvict(c) ==
    /\ c \in Flaky \ failed
    /\ failed' = failed \cup {c}
    /\ UNCHANGED <<queues, created, destroyed, astState, tmr, reaped, thr, lbug, net>>

\* ldlm_cancel_lock_for_export, for one lock of a stale export.
ExportCancelLockOnly(t, l) ==
    /\ t \in ReapThread /\ thr[t] = Idle
    /\ l \in Live /\ Owner[l] \in failed \ reaped
    /\ CancelLock(l)
    /\ UNCHANGED <<ahead, bits, created, astState, exports, thr, lbug, net>>
ExportCancelLock(t, l) ==
    /\ t \in ReapThread /\ thr[t] = Idle
    /\ l \in Live /\ Owner[l] \in failed \ reaped
    /\ CancelLock(l)
    /\ Goto(t, "reproc")
    /\ UNCHANGED <<ahead, bits, created, astState, exports, lbug, net>>

\* obd_stale_export_put: an export whose lock hash is empty is not visited
\* again.
StaleExportDone(c) ==
    /\ c \in failed \ reaped
    /\ \A l \in Live : Owner[l] # c
    /\ reaped' = reaped \cup {c}
    /\ UNCHANGED <<queues, created, destroyed, astState, tmr, failed, thr, lbug, net>>

-----------------------------------------------------------------------------
ThreadStep(t) ==
    \/ ExportAddLock(t) \/ LockEnqueue(t) \/ BlAstFini(t) \/ EnqueueBlDone(t) \/ EnqueueFinish(t)
    \/ Reprocess(t) \/ ReprocessBlDone(t) \/ CpDone(t) \/ ConvertLocked(t)
    \/ \E l \in Lock : BlAstSend(t, l) \/ CpAstSend(t, l)

HandleRequest(t) ==
    \E l \in Lock : \/ HandleEnqueue(t, l) \/ HandleCancel(t, l)
                    \/ ExportCancelLock(t, l)
                    \/ \E b \in SUBSET Bit : HandleConvert(t, l, b)

AstAnswered(t) ==
    \E l \in Lock : AstTimeout(t, l) \/ \E rc \in AstRc : AstReply(t, l, rc)

\* The service threads.
ServerWork ==
    \E t \in Thread : ThreadStep(t) \/ HandleRequest(t) \/ AstAnswered(t)

ServerNext ==
    \/ ServerWork
    \/ \E l \in Lock : TimerExpire(l) \/ ExpiredEvict(l) \/ ExpiredProlong(l)
    \/ \E c \in Client : PingEvict(c) \/ StaleExportDone(c)
=============================================================================

----------------------------- MODULE LdlmClient -----------------------------
(***************************************************************************)
(* The client side of the LDLM (ldlm_request.c, the callback handlers of   *)
(* ldlm_lockd.c, ldlm_cli_dropbits) for the locks of all the clients, with *)
(* the blocking AST of the metadata client (ll_md_blocking_ast).           *)
(*                                                                         *)
(* Blocking callbacks are queued for the ldlm_bl threads.  cl[l].work      *)
(* holds one entry <<b, phase>> for each of them: b is the cancel_bits of  *)
(* the RPC, {} for the callback the last decref makes; the phases are the  *)
(* critical sections a bl thread goes through.                             *)
(***************************************************************************)
EXTENDS LdlmBase

CONSTANTS
    CanConvert,    \* OBD_CONNECT2_LOCK_CONVERT is negotiated
    Dom,           \* MDS_INODELOCK_DOM: only DoM locks are converted
    MayInterrupt   \* locks whose enqueue may be interrupted by a signal

ASSUME ClientAssumption == CanConvert \in BOOLEAN /\ MayInterrupt \subseteq Lock

VARIABLES
    cl,      \* the clients' locks
    evicted, \* clients that know of their eviction
    clbug    \* failed assertions

cvars == <<cl, evicted, clbug>>

NewLock == [st |-> "none", granted |-> FALSE, ref |-> FALSE,
            cbpending |-> FALSE, blAst |-> FALSE, failed |-> FALSE,
            canceling |-> FALSE, local |-> FALSE, converting |-> FALSE,
            lru |-> FALSE, bits |-> {}, cancelBits |-> {}, work |-> {}]

ClientAssertion ==
    {"l_req_mode == l_granted_mode", "!l_readers && !l_writers",
     "cancel_bits != 0", "lock still has references"}

ClientLock ==
    [st : {"none", "enq", "held", "gone"},  \* gone: cancelled and destroyed
     granted : BOOLEAN, ref : BOOLEAN,      \* some reader or writer
     cbpending : BOOLEAN, blAst : BOOLEAN, failed : BOOLEAN,
     canceling : BOOLEAN, local : BOOLEAN,  \* no CANCEL RPC is to be sent
     converting : BOOLEAN,
     lru : BOOLEAN,                         \* l_last_used is set: was in the LRU
     bits : SUBSET Bit, cancelBits : SUBSET Bit,
     work : SUBSET ((SUBSET Bit) \X {"queued", "ast", "cancel", "convert"})]

ClientTypeOK ==
    /\ cl \in [Lock -> ClientLock]
    /\ evicted \subseteq Client
    /\ clbug \subseteq ClientAssertion

ClientInit ==
    /\ cl = [l \in Lock |-> NewLock]
    /\ evicted = {}
    /\ clbug = {}

CAssert(cond, a) == clbug' = IF cond THEN clbug ELSE clbug \cup {a}

Known(l) == cl[l].st \in {"enq", "held"}   \* ldlm_handle2lock finds it

-----------------------------------------------------------------------------
(* Enqueue and use.                                                        *)

\* ldlm_cli_enqueue: create the lock, take a reference, send the RPC.
CliEnqueue(l) ==
    /\ cl[l].st = "none" /\ Owner[l] \notin evicted
    /\ cl' = [cl EXCEPT ![l] = [NewLock EXCEPT !.st = "enq", !.ref = TRUE,
                                               !.bits = ReqBits[l]]]
    /\ net' = net \cup {EnqReq(l)}
    /\ UNCHANGED <<evicted, clbug>>

\* ldlm_lock_decref_internal of the last reference: a cbpending lock is queued
\* for the blocking callback, another goes to the LRU unless it is called back.
DropLastRef(c) ==
    [c EXCEPT !.ref = FALSE,
              !.work = IF c.cbpending THEN @ \cup {<<{}, "queued">>} ELSE @,
              !.lru = @ \/ ~(c.cbpending \/ c.blAst \/ c.converting)]

\* failed_lock_cleanup: a lock that is not granted is marked failed and its
\* last reference dropped, which runs the blocking callback at once; a lock
\* granted meanwhile stays in the cache.
FailedLockCleanup(c) ==
    IF ~c.granted /\ ~c.failed
    THEN [c EXCEPT !.st = "held", !.ref = FALSE, !.local = TRUE, !.failed = TRUE,
                   !.cbpending = TRUE, !.work = @ \cup {<<{}, "ast">>}]
    ELSE DropLastRef([c EXCEPT !.st = "held"])

\* ldlm_cli_enqueue_fini.  The reply may say that the lock is called back
\* already; a completion AST may have granted it before the reply arrives.
CliEnqueueFini(l, rc, ast) ==
    /\ EnqRep(l, rc, ast) \in net
    /\ net' = net \ {EnqRep(l, rc, ast)}
    /\ cl' = [cl EXCEPT ![l] =
         IF cl[l].st # "enq" THEN cl[l]
         ELSE IF rc = "error" THEN FailedLockCleanup(cl[l])
         ELSE [cl[l] EXCEPT !.st = "held",
                        !.cbpending = @ \/ ast, !.blAst = @ \/ ast,
                        !.granted = @ \/ rc = "granted"]]
    /\ UNCHANGED <<evicted, clbug>>

\* ldlm_completion_ast is interrupted while it waits for the lock.
InterruptedCompletionWait(l) ==
    /\ l \in MayInterrupt
    /\ cl[l].st = "held" /\ cl[l].ref /\ ~cl[l].granted
    /\ cl' = [cl EXCEPT ![l] = FailedLockCleanup(cl[l])]
    /\ UNCHANGED <<evicted, clbug, net>>

\* lock_matches: a cached lock is used again unless it is called back.
LockMatch(l) ==
    /\ cl[l].st = "held" /\ cl[l].granted /\ ~cl[l].ref
    /\ ~cl[l].cbpending /\ ~cl[l].failed
    /\ cl' = [cl EXCEPT ![l].ref = TRUE]
    /\ UNCHANGED <<evicted, clbug, net>>

\* ldlm_lock_decref by the last user of the lock.
LockDecref(l) ==
    /\ cl[l].st = "held" /\ cl[l].ref
    /\ cl[l].granted \/ cl[l].failed
    /\ cl' = [cl EXCEPT ![l] = DropLastRef(cl[l])]
    /\ UNCHANGED <<evicted, clbug, net>>

-----------------------------------------------------------------------------
(* Callbacks from the server (ldlm_callback_handler).                      *)

\* The lock a blocking AST is about is not there, or failed.
StaleUngranted(l) == ~Known(l) \/ cl[l].failed \/ ~cl[l].granted
Stale(l) == ~Known(l) \/ cl[l].failed

\* LDLM_BL_CALLBACK: answer -EINVAL if there is no lock (any more), else mark
\* the lock, answer, and queue the work for a bl thread.
RecvBlAst(l, b, t) ==
    /\ BlAst(l, b, t) \in net
    /\ net' = (net \ {BlAst(l, b, t)})
                \cup {AstRep(l, IF Stale(l) THEN "einval" ELSE "ok", t)}
    /\ cl' = IF Stale(l) THEN cl
             ELSE [cl EXCEPT ![l] = [cl[l] EXCEPT !.blAst = TRUE,
                                              !.work = @ \cup {<<b, "queued">>}]]
    /\ UNCHANGED <<evicted, clbug>>

\* LDLM_CP_CALLBACK: answer, then grant the lock with the bits the server
\* granted, unless the enqueue reply already did.
RecvCpAst(l, b, ast, t) ==
    /\ CpAst(l, b, ast, t) \in net
    /\ net' = (net \ {CpAst(l, b, ast, t)})
                \cup {AstRep(l, IF Known(l) THEN "ok" ELSE "einval", t)}
    /\ cl' = IF ~Known(l) \/ cl[l].granted THEN cl
             ELSE [cl EXCEPT ![l] = [cl[l] EXCEPT !.granted = TRUE, !.bits = b,
                        !.cbpending = @ \/ ast, !.blAst = @ \/ ast]]
    /\ UNCHANGED <<evicted, clbug>>

\* ldlm_handle_bl_callback: note which bits to cancel; go on only if the lock
\* is not in use.
HandleBlCallback(l, b) ==
    /\ Known(l) /\ <<b, "queued">> \in cl[l].work
    /\ cl' = [cl EXCEPT ![l] = [cl[l] EXCEPT
         !.cancelBits = IF b # {} THEN b
                        ELSE IF cl[l].cbpending THEN @ ELSE {},
         !.cbpending = TRUE,
         !.work = (@ \ {<<b, "queued">>})
                    \cup (IF cl[l].ref THEN {} ELSE {<<b, "ast">>})]]
    /\ UNCHANGED <<evicted, clbug, net>>

\* ll_md_need_convert.  A lock that is too old is not converted, which a lock
\* that never was in the LRU always is; nor is one whose remaining bits another
\* lock of the client covers.
NeedConvert(l) ==
    /\ CanConvert
    /\ cl[l].cancelBits # {} /\ cl[l].bits \ cl[l].cancelBits # {}
    /\ ~cl[l].canceling /\ cl[l].lru
    /\ Dom \in cl[l].bits \cup cl[l].cancelBits
    /\ Mode[l] \in {"PR", "PW", "CW", "CR"}

\* ll_md_blocking_ast with LDLM_CB_BLOCKING decides between cancel and convert.
MdBlockingAst(l, b) ==
    /\ Known(l) /\ <<b, "ast">> \in cl[l].work
    /\ \E how \in {"cancel"} \cup (IF NeedConvert(l) THEN {"convert"} ELSE {}) :
         cl' = [cl EXCEPT ![l].work = (@ \ {<<b, "ast">>}) \cup {<<b, how>>}]
    /\ UNCHANGED <<evicted, clbug, net>>

-----------------------------------------------------------------------------
(* Cancel and convert.                                                     *)

\* ldlm_cli_cancel without LCF_CONVERT, up to ldlm_cli_cancel_local: only the
\* first to come cancels.
StartCancel(c, local) ==
    IF c.canceling THEN c
    ELSE [c EXCEPT !.canceling = TRUE, !.cbpending = TRUE,
                   !.blAst = @ \/ c.converting, !.local = @ \/ local]

CliCancel(l, b) ==
    /\ Known(l) /\ <<b, "cancel">> \in cl[l].work
    /\ cl' = [cl EXCEPT ![l] =
                StartCancel([cl[l] EXCEPT !.work = @ \ {<<b, "cancel">>}], FALSE)]
    /\ UNCHANGED <<evicted, clbug, net>>

\* ldlm_prepare_lru_list: cancel a lock that is cached and not called back.
CancelLru(l) ==
    /\ cl[l].st = "held" /\ cl[l].granted /\ ~cl[l].ref
    /\ ~cl[l].cbpending /\ ~cl[l].blAst /\ ~cl[l].converting /\ ~cl[l].canceling
    /\ cl' = [cl EXCEPT ![l] = StartCancel(cl[l], FALSE)]
    /\ UNCHANGED <<evicted, clbug, net>>

\* ldlm_cli_cancel_local: once the cache under the lock is flushed, destroy
\* the lock and tell the server.
CliCancelLocal(l) ==
    /\ Known(l) /\ cl[l].canceling
    /\ CAssert(~cl[l].ref, "lock still has references")
    /\ cl' = [cl EXCEPT ![l] = [NewLock EXCEPT !.st = "gone"]]
    /\ net' = IF cl[l].local THEN net ELSE net \cup {CancelReq(l)}
    /\ UNCHANGED evicted

\* ldlm_cli_dropbits: give up the conflicting bits and tell the server; fall
\* back to a cancel if no bit would be left.
CliDropbits(l, b) ==
    LET c == [cl[l] EXCEPT !.work = @ \ {<<b, "convert">>}]
        drop == c.bits \cap c.cancelBits IN
    /\ Known(l) /\ <<b, "convert">> \in cl[l].work
    /\ \/ /\ c.bits \ c.cancelBits = {} \/ (drop # {} /\ c.canceling)
          /\ cl' = [cl EXCEPT ![l] = [c EXCEPT !.work = @ \cup {<<b, "cancel">>}]]
          /\ UNCHANGED net
       \/ /\ c.bits \ c.cancelBits # {} /\ drop = {}
          /\ cl' = [cl EXCEPT ![l] = c]
          /\ UNCHANGED net
       \/ /\ c.bits \ c.cancelBits # {} /\ drop # {} /\ ~c.canceling
          /\ cl' = [cl EXCEPT ![l] =
               [c EXCEPT !.cbpending = FALSE, !.blAst = FALSE,
                         !.converting = TRUE, !.cancelBits = drop,
                         !.bits = @ \ drop]]
          /\ net' = net \cup {ConvReq(l, c.bits \ drop)}
    /\ clbug' = clbug
         \cup (IF c.cancelBits = {} THEN {"cancel_bits != 0"} ELSE {})
         \cup (IF c.ref THEN {"!l_readers && !l_writers"} ELSE {})
         \cup (IF drop # {} /\ ~c.granted
               THEN {"l_req_mode == l_granted_mode"} ELSE {})
    /\ UNCHANGED evicted

\* lock_convert_interpret.
ConvertDone(c, b) ==
    IF ~c.converting \/ b # c.bits THEN c
    ELSE [c EXCEPT !.converting = FALSE,
                   !.cancelBits = IF c.blAst THEN @ ELSE {}]

ConvertFailed(c, nolock) ==
    StartCancel(IF c.converting
                THEN [c EXCEPT !.converting = FALSE, !.cbpending = TRUE,
                               !.blAst = TRUE, !.cancelBits = {}]
                ELSE c, nolock)

LockConvertInterpret(l, rc, b) ==
    /\ ConvRep(l, rc, b) \in net
    /\ net' = net \ {ConvRep(l, rc, b)}
    /\ cl' = [cl EXCEPT ![l] =
                IF ~Known(l) THEN cl[l]
                ELSE IF rc = "ok" THEN ConvertDone(cl[l], b)
                ELSE ConvertFailed(cl[l], rc = "nolock")]
    /\ UNCHANGED <<evicted, clbug>>

-----------------------------------------------------------------------------
(* Eviction.  A client that learns of it fails its RPCs in flight and      *)
(* marks every lock failed; those in use go away with their last user.     *)

CleanupResource(c) ==
    LET f == [c EXCEPT !.st = "held", !.failed = TRUE, !.cbpending = TRUE,
                       !.local = TRUE] IN
    IF c.ref /\ ~c.converting THEN f ELSE StartCancel(f, TRUE)

InvalidateImport(c) ==
    /\ c \notin evicted
    /\ evicted' = evicted \cup {c}
    /\ cl' = [l \in Lock |-> IF Owner[l] = c /\ Known(l)
                             THEN CleanupResource(cl[l]) ELSE cl[l]]
    /\ UNCHANGED <<clbug, net>>

-----------------------------------------------------------------------------
ClientStep(l) ==
    \/ CliEnqueue(l) \/ InterruptedCompletionWait(l) \/ LockMatch(l)
    \/ LockDecref(l) \/ CancelLru(l) \/ CliCancelLocal(l)
    \/ \E rc \in EnqRc, a \in BOOLEAN : CliEnqueueFini(l, rc, a)
    \/ \E b \in SUBSET Bit :
         \/ HandleBlCallback(l, b) \/ MdBlockingAst(l, b)
         \/ CliCancel(l, b) \/ CliDropbits(l, b)
         \/ \E rc \in ConvRc : LockConvertInterpret(l, rc, b)
         \/ \E t \in Thread : \/ RecvBlAst(l, b, t)
                              \/ \E a \in BOOLEAN : RecvCpAst(l, b, a, t)
=============================================================================

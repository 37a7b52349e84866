-------------------------------- MODULE Ldlm --------------------------------
(***************************************************************************)
(* The lock server and its clients, composed.  A failed assertion (LBUG)   *)
(* stops the system.                                                       *)
(***************************************************************************)
EXTENDS LdlmServer, LdlmClient

vars == <<svars, cvars, net>>

\* Types: the queues and flags hold locks, the threads are in one of their
\* critical sections, the network carries the RPCs of the protocol.
TypeOK == ServerTypeOK /\ ClientTypeOK /\ net \subseteq Message

Init == ServerInit /\ ClientInit /\ net = {}

\* A client learns of its eviction when it next talks to the server.
LearnEviction(c) == c \in failed /\ InvalidateImport(c) /\ UNCHANGED svars

Running == lbug = {} /\ clbug = {}

Next ==
    /\ Running
    /\ \/ ServerNext /\ UNCHANGED cvars
       \/ \E l \in Lock : ClientStep(l) /\ UNCHANGED svars
       \/ \E c \in Client : LearnEviction(c)

Spec == Init /\ [][Next]_vars

-----------------------------------------------------------------------------
(* Safety.                                                                 *)

\* No two locks on the granted list exclude each other, although the policy
\* is evaluated by many threads that drop the resource lock between the
\* policy, the callbacks and the reprocessing (ldlm_process_inodebits_lock,
\* ldlm_reprocess_queue, ldlm_inodebits_drop).
GrantedCompatible ==
    \A l, m \in granted : l # m =>
        ~InodebitsConflict(Mode[l], bits[l], Mode[m], bits[m])

Held(l) == cl[l].granted /\ cl[l].st # "gone" /\ ~cl[l].failed
Alive(l) == Owner[l] \notin failed
ThreadsIdle == \A t \in Thread : thr[t] = Idle

\* What a client that is not evicted believes to hold, lock and bits, the
\* server has granted to it: cached data under the lock may be used.
ClientCoherent ==
    \A l \in Lock : Held(l) /\ Alive(l) =>
        l \in granted /\ cl[l].bits \subseteq bits[l]

\* No assertion of the server or of a client fails.  Checked where locks are
\* not converted (OBD_CONNECT2_LOCK_CONVERT not negotiated).
NoLbug == lbug = {} /\ clbug = {}

\* Nothing is in progress but the users of the locks.
Quiet ==
    /\ net = {} /\ ThreadsIdle
    /\ \A l \in Lock : cl[l].work = {} /\ ~cl[l].canceling

\* When nothing is in progress, the lock at the head of the waiting list waits
\* for a client that is being evicted, or for a user of a lock whose client has
\* been told to give it up: every cancel or convert that could have unblocked it
\* has reprocessed the queue (ldlm_reprocess_all), and no blocking AST was
\* forgotten.  The locks behind wait for it: the scan stops at the first lock
\* that is blocked (ldlm_reprocess_queue).
NoStrandedWaiter ==
    Quiet /\ Running =>
      \A l \in waiting : Alive(l) /\ ahead[l] \cap waiting = {} =>
        \E m \in Conflicts(l, granted) : ~Alive(m) \/ (cl[m].ref /\ cl[m].cbpending)

\* Once the handlers are done, a granted lock that was called back is on the
\* list of waiting locks or about to get its client evicted: a client that
\* never answers cannot keep it (ldlm_add_waiting_lock from the blocking AST,
\* the enqueue reply and the completion AST).
CalledBackHasTimer ==
    ThreadsIdle /\ Running =>
      \A l \in granted \cap astSent : Alive(l) => tmr[l] # "off"

\* Once an export's locks have been reaped and the handlers are done, no lock
\* of it is left on the resource, even if an enqueue was being handled while
\* the client was evicted (ldlm_handle_enqueue0, bug 5683).
EvictedLocksGone ==
    ThreadsIdle /\ Running =>
      \A l \in granted \cup waiting : Owner[l] \notin reaped

\* A lock is never granted past a lock ahead of it in the waiting queue that
\* it excludes and that goes on waiting: readers cannot starve a writer.
NoOvertaking ==
    [][\A l \in granted' \ granted, m \in waiting \cap waiting' :
          m \in QueueAhead(l) =>
            ~InodebitsConflict(Mode[m], bits[m], Mode[l], bits[l])]_vars

-----------------------------------------------------------------------------
(* What makes GrantedCompatible inductive.                                 *)

\* Handlers and queues hold locks that were created, never a free slot.
ThreadLocks(r, made) ==
    /\ r.bl \cup r.out \cup r.cp \subseteq made
    /\ r.pc = "blfin" => r.cur \in made
    /\ r.pc \in {"policy", "finish", "conv"} \/ (r.pc \in {"bl", "blfin"} /\ ~r.rescan)
         => r.lock \in made
    /\ r.pc = "hash" \/ r.ctx # "none" => r.lock \in Lock

LocksCreated ==
    /\ granted \cup waiting \subseteq created
    /\ \A t \in Thread : ThreadLocks(thr[t], created)

\* Of two waiting locks one was there when the other came.
WaitingOrdered ==
    \A l, m \in waiting : l = m \/ l \in ahead[m] \/ m \in ahead[l]

\* The inductive invariant: the granted locks stay compatible because a scan
\* of the waiting queue, which grants several locks at once, meets them in an
\* order that compares each with all before it (ldlm_reprocess_queue).
IndInv == TypeOK /\ LocksCreated /\ WaitingOrdered /\ GrantedCompatible

-----------------------------------------------------------------------------
(* What makes EvictedLocksGone and CalledBackHasTimer inductive.           *)

\* A thread's work list is empty and its enqueue over outside these phases.
ThreadPhase(r) ==
    /\ r.pc \in {"hash", "policy", "finish"} => r.ctx = "enq" /\ ~r.rescan
    /\ r.pc \in {"bl", "blfin"} /\ ~r.rescan => r.ctx = "enq"
    /\ r.pc \notin {"bl", "blfin"} => r.bl = {}

Enqueues(t, l) == thr[t].ctx = "enq" /\ thr[t].lock = l

\* Thread t will look at exp_disconnected again before it replies to l.
Unfinished(t, l) ==
    /\ Enqueues(t, l) /\ ~thr[t].rescan
    /\ thr[t].pc \in {"hash", "policy", "bl", "blfin", "finish"}

\* The policy has not seen l yet.
Fresh(l) ==
    \/ cl[l].st = "none" \/ EnqReq(l) \in net
    \/ \E t \in Thread : Enqueues(t, l) /\ thr[t].pc \in {"hash", "policy"}

\* An enqueue RPC is handled once, by one thread.
EnqueuedOnce ==
    /\ \A t, u \in Thread : \A l \in Lock : Enqueues(t, l) /\ Enqueues(u, l) => t = u
    /\ \A l \in Lock : EnqReq(l) \in net \/ cl[l].st = "none" =>
                         \A t \in Thread : ~Enqueues(t, l)
    /\ \A l \in Lock : cl[l].st = "none" => EnqReq(l) \notin net

\* Nobody knows of a lock the policy has not seen: it is neither queued nor
\* called back, and only an evicted client gives it up.
FreshUntouched ==
    \A l \in Lock : Fresh(l) =>
        /\ l \notin granted \cup waiting
        /\ \A t \in Thread : /\ l \notin thr[t].cp \cup thr[t].out
                             /\ ~(thr[t].ctx = "conv" /\ thr[t].lock = l)
        /\ \A m \in net : m.lock = l =>
             m.type \notin {"enqrep", "bl", "cp"} /\ (Alive(l) => m.type = "enq")
        /\ Alive(l) =>
             /\ l \notin destroyed
             /\ cl[l].st \in {"none", "enq"}
             /\ cl[l].work = {} /\ ~cl[l].canceling

\* A cancelled lock is not on the resource, and one that is although its
\* export was reaped is still in the hands of its enqueue.
LeftoversUnfinished ==
    \A l \in granted \cup waiting :
        /\ l \notin destroyed
        /\ Owner[l] \in reaped => \E t \in Thread : Unfinished(t, l)

\* A called-back lock without a timer is in the hands of a thread that will
\* arm it: by the blocking or the completion AST, or before the reply.
TimerPending ==
    \A l \in granted \cap astSent : Alive(l) /\ tmr[l] = "off" =>
        \E t \in Thread : l \in thr[t].bl \cup thr[t].cp \/ Unfinished(t, l)

EvictionInv ==
    /\ \A t \in Thread : ThreadPhase(thr[t])
    /\ EnqueuedOnce /\ FreshUntouched /\ LeftoversUnfinished /\ TimerPending

-----------------------------------------------------------------------------
(* What makes ClientCoherent inductive.                                    *)

\* The client has given up l.
Ended(l) == cl[l].st = "gone" \/ cl[l].failed

\* Somebody has seen l granted: its client, a message to it, or the thread
\* that will send that message.
SeenGranted(l) ==
    \/ Held(l)
    \/ \E m \in net : /\ m.lock = l
                      /\ m.type = "cp" \/ (m.type = "enqrep" /\ m.rc = "granted")
    \/ \E t \in Thread : \/ l \in thr[t].cp
                         \/ Enqueues(t, l) /\ thr[t].rc = "granted"

\* What was seen granted is granted until its client has given it up: only
\* then is it cancelled, or its enqueue fails.
GrantsKept ==
    \A l \in Lock : Alive(l) =>
        /\ \A t \in Thread : thr[t].pc = "finish" /\ thr[t].rc = "error" /\ thr[t].lock = l
                              => l \in destroyed
        /\ SeenGranted(l) => l \in granted \cup destroyed
        /\ l \in destroyed => Ended(l)
        /\ \A m \in net : m.lock = l =>
             /\ m.type = "cancel" => cl[l].st = "gone"
             /\ m.type = "astrep" /\ m.rc = "einval" => Ended(l)

\* The client drops bits before the server does, and a completion AST brings
\* those the server still has.
BitsKept ==
    \A l \in Lock :
        /\ cl[l].bits \subseteq bits[l]
        /\ cl[l].st = "none" => ~cl[l].granted /\ bits[l] = ReqBits[l]
        /\ \A b \in SUBSET Bit : ConvReq(l, b) \in net => cl[l].bits \subseteq b
        /\ \A t \in Thread : thr[t].pc = "conv" /\ thr[t].lock = l =>
                               cl[l].bits \cap thr[t].drop = {}
        /\ ~cl[l].granted /\ cl[l].st # "gone" =>
             /\ \A m \in net : m.lock = l /\ m.type = "cp" => m.bits = bits[l]
             /\ clbug = {} =>
                  /\ \A m \in net : m.lock = l => m.type # "convert"
                  /\ \A t \in Thread : ~(thr[t].pc = "conv" /\ thr[t].lock = l)

CoherenceInv == GrantsKept /\ BitsKept

-----------------------------------------------------------------------------
(* What makes NoLbug inductive, where locks are not converted.             *)

\* A lock on a work list has been called back by that thread alone and its
\* blocking AST has not run.
WorkListed ==
    /\ blAstRun \subseteq astSent
    /\ \A c \in Lock : blocking[c] # NoLock => c \in astSent
    /\ \A t \in Thread :
         /\ thr[t].pc = "blfin" => thr[t].cur \in blAstRun
         /\ \A c \in thr[t].bl :
              /\ c \in astSent \ blAstRun /\ blocking[c] # NoLock
              /\ \A u \in Thread : c \in thr[u].bl => u = t

\* No trace of a convert.
NeverConverted ==
    /\ \A m \in net : m.type \notin {"convert", "convrep"}
    /\ \A t \in Thread : thr[t].pc # "conv" /\ thr[t].ctx # "conv"
    /\ \A l \in Lock : ~cl[l].converting /\ \A w \in cl[l].work : w[2] # "convert"

\* A lock that is being cancelled is not in use and cannot be matched again.
CancelUnused ==
    \A l \in Lock : cl[l].canceling \/ (\E w \in cl[l].work : w[2] \in {"ast", "cancel"})
        => ~cl[l].ref /\ cl[l].cbpending

AssertionInv == ~CanConvert => WorkListed /\ NeverConverted /\ CancelUnused /\ NoLbug

\* The protocol between the server and the clients.
ProtocolInv == EvictionInv /\ CoherenceInv /\ AssertionInv

-----------------------------------------------------------------------------
(* What makes NoStrandedWaiter inductive, where no client falls silent, no *)
(* enqueue is interrupted and no lock is converted.                        *)

NoFaults == Flaky = {} /\ MayInterrupt = {} /\ ~CanConvert

\* No client is evicted and no lock is given up without telling the server.
NoneEvicted ==
    /\ failed = {}
    /\ \A l \in Lock : tmr[l] \in {"off", "armed"} /\ ~cl[l].failed /\ ~cl[l].local

\* An enqueue that has not been answered is waited for by its client, is
\* answered once, and does not fail.
Unanswered(l) ==
    \/ EnqReq(l) \in net
    \/ \E t \in Thread : Enqueues(t, l)
    \/ \E m \in net : m.type = "enqrep" /\ m.lock = l

EnqueuesSucceed ==
    /\ \A l \in Lock : Unanswered(l) => cl[l].st = "enq"
    /\ \A t \in Thread : thr[t].ctx = "enq" /\ thr[t].rc = "error" =>
         ~thr[t].rescan /\ thr[t].pc \in {"hash", "policy", "bl", "blfin"}
    /\ \A m \in net : m.type = "enqrep" =>
         /\ m.rc # "error"
         /\ \A t \in Thread : ~Enqueues(t, m.lock)
         /\ \A n \in net : n.type = "enqrep" /\ n.lock = m.lock => n = m

\* A client keeps a lock it waits for, and cancels one it does not use and is
\* called back.
ClientsCooperate ==
    \A l \in Lock :
        /\ Known(l) /\ (cl[l].st = "enq" \/ ~cl[l].granted) => cl[l].ref
        /\ Known(l) /\ cl[l].cbpending /\ ~cl[l].ref =>
             cl[l].canceling \/ cl[l].work # {}
        /\ l \in waiting => Known(l) /\ ~cl[l].granted
        /\ l \in granted /\ cl[l].st = "gone" => CancelReq(l) \in net

\* A lock moves from the waiting to the granted list and is destroyed last.
QueuePlaces ==
    /\ granted \cap waiting = {} /\ cbpending \subseteq granted \cup destroyed
    /\ \A l \in waiting : ahead[l] \subseteq granted \cup waiting \cup destroyed
    /\ \A t \in Thread : ~thr[t].rescan /\ thr[t].pc \in {"bl", "blfin", "finish"} =>
         thr[t].lock \in granted \cup waiting \cup destroyed

\* Thread t will call ldlm_reprocess_all.
WillRescan(t) ==
    \/ thr[t].pc = "reproc" \/ thr[t].restart
    \/ Unfinished(t, thr[t].lock) /\ thr[t].lock \notin cbpending

Head(l) == l \in waiting /\ ahead[l] \cap waiting = {}

\* What can be granted will be.
HeadBlocked ==
    \A l \in Lock : Head(l) =>
        Conflicts(l, granted) # {} \/ \E t \in Thread : WillRescan(t)

\* A blocking AST is sent for the sake of the thread's own lock, or of the
\* head of the queue.
CallsForWaiter ==
    \A t \in Thread : \A c \in thr[t].bl :
        /\ ~thr[t].rescan => c \in Conflicts(thr[t].lock, Lock)
        /\ thr[t].rescan =>
             /\ c \in granted \cup destroyed
             /\ c \in granted => \E l \in Lock : Head(l) /\ c \in Conflicts(l, granted)

\* What a waiting lock waits for has been called back ...
BlockersCalledBack ==
    \A l \in waiting : Conflicts(l, granted \cup QueueAhead(l)) \subseteq astSent

\* ... which its client knows, or will be told: by a blocking AST, by the
\* enqueue reply, or by the completion AST if that one grants the lock.
ToldSilently(l) ==
    \/ cl[l].granted
    \/ \E t \in Thread : /\ Enqueues(t, l) /\ ~Unfinished(t, l)
                         /\ thr[t].rc = "granted" /\ ~thr[t].ast
    \/ \E m \in net : /\ m.lock = l
                      /\ \/ m.type = "cp" /\ ~m.ast
                         \/ m.type = "enqrep" /\ m.rc = "granted" /\ ~m.ast

BlAstComing(l) ==
    \/ \E t \in Thread : l \in thr[t].bl
    \/ \E m \in net : m.lock = l /\ m.type = "bl"
    \/ \E w \in cl[l].work : w[2] = "queued"

ReplyComing(l) ==
    \/ \E t \in Thread : Enqueues(t, l) /\ (Unfinished(t, l) \/ thr[t].ast)
    \/ \E m \in net : m.lock = l /\ m.type = "enqrep" /\ m.ast

CpAstComing(l) ==
    /\ ~ToldSilently(l)
    /\ \/ \E t \in Thread : l \in thr[t].cp
       \/ \E m \in net : m.lock = l /\ m.type = "cp" /\ m.ast

CallbacksArrive ==
    \A l \in granted \cap astSent :
        \/ cl[l].cbpending \/ CancelReq(l) \in net
        \/ BlAstComing(l) \/ ReplyComing(l) \/ CpAstComing(l)

QueueInv ==
    NoFaults =>
        /\ NoneEvicted /\ EnqueuesSucceed /\ ClientsCooperate /\ QueuePlaces
        /\ HeadBlocked /\ CallsForWaiter /\ BlockersCalledBack /\ CallbacksArrive

-----------------------------------------------------------------------------
(* The assertions of the code, one by one.                                 *)

\* ldlm_lock.c:1080: a lock put on the granted list has its requested mode.
ConvertedLockGranted == "l_req_mode == l_granted_mode" \notin lbug

\* ldlm_lock.c:671: a lock that is called back again has no blocking lock
\* left from the time before.
BlockingLockCleared == "l_blocking_lock == NULL" \notin lbug

\* ldlm_request.c:1479 and ldlm_lock.c:2405: a lock that is cancelled on the
\* client has no readers or writers.
CancelledLockUnused == "lock still has references" \notin clbug

\* ldlm_request.c:1503: a lock to be converted knows the bits to drop.
CancelBitsKnown == "cancel_bits != 0" \notin clbug

-----------------------------------------------------------------------------
(* Liveness.                                                               *)

\* The steps of a client that answers: it receives messages and its bl threads
\* run.
ClientProgress(l) ==
    \/ CliCancelLocal(l)
    \/ \E rc \in EnqRc, a \in BOOLEAN : CliEnqueueFini(l, rc, a)
    \/ \E b \in SUBSET Bit :
         \/ HandleBlCallback(l, b) \/ MdBlockingAst(l, b)
         \/ CliCancel(l, b) \/ CliDropbits(l, b)
         \/ \E rc \in ConvRc : LockConvertInterpret(l, rc, b)
         \/ \E t \in Thread : \/ RecvBlAst(l, b, t)
                              \/ \E a \in BOOLEAN : RecvCpAst(l, b, a, t)

\* Threads, timers and the network make progress, and so do the clients that
\* are not Flaky, whose users release the locks they hold; a lock whose timer
\* has expired is not busy for ever.
Fairness ==
    /\ WF_vars(Running /\ UNCHANGED cvars /\ ServerWork)
    /\ \A l \in {k \in Lock : Owner[k] \in Flaky} :
         /\ WF_vars(Running /\ UNCHANGED cvars /\ TimerExpire(l))
         /\ SF_vars(Running /\ UNCHANGED cvars /\ ExpiredEvict(l))
    /\ \A l \in {k \in Lock : Owner[k] \notin Flaky} :
         /\ WF_vars(Running /\ UNCHANGED svars /\ ClientProgress(l))
         /\ WF_vars(Running /\ UNCHANGED svars /\ LockDecref(l))

FairSpec == Spec /\ Fairness

\* A lock on the waiting list is granted or its enqueue fails, even if the
\* client of a lock it waits for falls silent: that client is evicted and its
\* locks are cancelled.
WaiterServed == \A l \in Lock : []<>(l \notin waiting)
=============================================================================

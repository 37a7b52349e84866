------------------------------- MODULE Flock -------------------------------
(***************************************************************************)
(* POSIX record locks (fcntl) on the lock server: ldlm_flock.c.            *)
(*                                                                         *)
(* A thread of a client process makes one lock call at a time; its owner   *)
(* is the process.  The call is an enqueue RPC, handled by the server      *)
(* under the lock of the resource, which is dropped where a lock must be   *)
(* allocated for a split, and held while a call that found a conflict      *)
(* looks for a deadlock.  A request that must wait stands in the waiting   *)
(* queue under the name of its thread, with a link to the owner it found   *)
(* in its way.  F_GETLK changes nothing and is left out.                   *)
(***************************************************************************)
EXTENDS FlockList, FiniteSets

CONSTANTS
    Thread, Owner, Res,
    OwnerOf,         \* [Thread -> Owner]
    OffsetMax,       \* the last byte locked, OFFSET_MAX of the client
    WholeFile,       \* the files that are only locked as a whole: a bound
    ReqMode,         \* the modes asked for
    ReqFlag,         \* "wait" (F_SETLKW), "nowait" (F_SETLK)
    AllocFails,      \* ldlm_lock_create may run out of memory
    Interruptible,   \* the threads that get signals
    None

ASSUME FlockAssumption ==
    /\ OwnerOf \in [Thread -> Owner]
    /\ OffsetMax \in 0 .. Eof - 1 /\ WholeFile \subseteq Res
    /\ ReqMode \subseteq {"PR", "PW", "NL"}
    /\ ReqFlag \subseteq {"wait", "nowait"}
    /\ AllocFails \in BOOLEAN /\ Interruptible \subseteq Thread
    /\ None \notin Thread \cup Owner

VARIABLES
    granted,   \* [Res -> Seq(lock)]: lr_granted
    waiting,   \* [Res -> Seq(Thread)]: lr_waiting
    link,      \* [Thread -> owner]: blocking_owner of a request in exp_flock_hash
    th,        \* [Thread -> what the call, and the server thread serving it, do]
    rlock,     \* [Res -> Thread]: the server thread that keeps the resource lock
    leaked,    \* a lock allocated for a split was forgotten
    dangling   \* a pointer to a lock that is in no list was followed

vars == <<granted, waiting, link, th, rlock, leaked, dangling>>

Request ==
    {q \in [res : Res, mode : ReqMode, start : 0 .. OffsetMax, end : 0 .. OffsetMax,
             flag : ReqFlag] :
        q.res \in WholeFile => q.start = 0 /\ q.end = OffsetMax}
NoReq == [res |-> None]

\* pos is the next request of a scan of the waiting queue, pend the request
\* being granted while a lock is allocated, req the request of the thread.
Doing(pc, q) == [pc |-> pc, req |-> q, pos |-> None, pend |-> None]
Idle == Doing("idle", NoReq)

Init ==
    /\ granted = [r \in Res |-> << >>]
    /\ waiting = [r \in Res |-> << >>]
    /\ link = [t \in Thread |-> None]
    /\ th = [t \in Thread |-> Idle]
    /\ rlock = [r \in Res |-> None]
    /\ leaked = FALSE /\ dangling = FALSE

-----------------------------------------------------------------------------
First(r) == IF waiting[r] = << >> THEN None ELSE Head(waiting[r])

\* list_for_each_safe: the request behind t in the waiting queue.
Behind(t, r) ==
    LET i == CHOOSE j \in DOMAIN waiting[r] : waiting[r][j] = t
    IN  IF i = Len(waiting[r]) THEN None ELSE waiting[r][i + 1]

Dequeue(t, r) == SelectSeq(waiting[r], LAMBDA u : u # t)

\* ownlocks of thread t: the lock it remembered if there is one, which an unlock
\* looks up again, else the first lock of the owner, else the end of the list.
OwnStart(g, o, t, mode) ==
    LET own == {i \in DOMAIN g : t \in g[i].cur /\ mode # "NL"}
        any == {i \in DOMAIN g : g[i].owner = o}
    IN  IF own # {} THEN Min(own) ELSE IF any # {} THEN Min(any) ELSE Len(g) + 1

Unmark(g, t) == [i \in DOMAIN g |-> [g[i] EXCEPT !.cur = @ \ {t}]]
Mark(g, t, i) == [g EXCEPT ![i].cur = @ \cup {t}]

\* Thread t goes on with the grant of request q of owner o after the
\* allocation: are the pointers it kept still good?
OwnlocksValid(t, o, q) ==
    \/ \E i \in DOMAIN granted[q.res] : t \in granted[q.res][i].cur
    \/ q.mode = "NL" /\ \E i \in DOMAIN granted[q.res] : granted[q.res][i].owner = o

-----------------------------------------------------------------------------
(* Deadlock detection: follow the links from the owner b in the way of o.  *)
(* pick is the request the hash finds for an owner that has several.       *)

Queued(t) == \E r \in Res : t \in ToSet(waiting[r])

LinkedQueued(o) == {t \in Thread : OwnerOf[t] = o /\ link[t] # None /\ Queued(t)}
Linked(o) == {t \in Thread : OwnerOf[t] = o /\ link[t] # None}

Picks == {p \in [Owner -> Thread \cup {None}] :
            \A o \in Owner : IF Linked(o) = {} THEN p[o] = None
                                               ELSE p[o] \in Linked(o)}

\* "loop": the walk meets an owner again that is not o and goes round for ever.
RECURSIVE FollowLinks(_, _, _, _)
FollowLinks(o, b, seen, pick) ==
    IF pick[b] = None THEN "none"
    ELSE LET n == link[pick[b]]
         IN  IF n = o THEN "deadlock"
             ELSE IF n \in seen THEN "loop"
             ELSE FollowLinks(o, n, seen \cup {n}, pick)

FlockDeadlock(o, b, pick) == FollowLinks(o, b, {b}, pick)

-----------------------------------------------------------------------------
(* A lock call.                                                            *)

\* The request conflicts: F_SETLK fails, F_SETLKW is linked to the owner of
\* the first conflicting lock before it looks for a deadlock.
Conflict(t, q, new2) ==
    LET B == Blockers(granted[q.res], OwnerOf[t], q)
    IN  /\ B # {}
        /\ granted' = [granted EXCEPT ![q.res] = Unmark(@, t)]
        /\ leaked' = (leaked \/ new2)
        /\ \/ /\ q.flag = "nowait"
              /\ th' = [th EXCEPT ![t] = Idle]
              /\ UNCHANGED <<link, rlock>>
           \/ /\ q.flag = "wait"
              /\ link' = [link EXCEPT ![t] = granted[q.res][Min(B)].owner]
              /\ rlock' = [rlock EXCEPT ![q.res] = t]
              /\ th' = [th EXCEPT ![t] = Doing("linked", q)]
        /\ UNCHANGED <<waiting, dangling>>

\* Granted: an unlock that freed something goes on to scan the waiting queue.
AfterGrantIdle(t, q, overlaps) == th' = [th EXCEPT ![t] = Idle] /\ UNCHANGED rlock

AfterGrant(t, q, overlaps) ==
    IF q.mode = "NL" /\ overlaps
    THEN /\ th' = [th EXCEPT ![t] = [Doing("scan", q) EXCEPT !.pos = First(q.res)]]
         /\ rlock' = [rlock EXCEPT ![q.res] = t]
    ELSE /\ th' = [th EXCEPT ![t] = Idle]
         /\ UNCHANGED rlock

GrantRequest(t, q, new2) ==
    LET g == granted[q.res]
        c == GrantFlock(Unmark(g, t), OwnerOf[t], q, OwnStart(g, OwnerOf[t], t, q.mode),
                        new2, {})
    IN  /\ Blockers(g, OwnerOf[t], q) = {}
        /\ IF c.stop = "alloc"
           THEN /\ th' = [th EXCEPT ![t] = Doing("alloc", q)]
                /\ granted' = [granted EXCEPT ![q.res] = Mark(c.g, t, c.pos)]
                /\ UNCHANGED rlock
           ELSE /\ granted' = [granted EXCEPT ![q.res] = c.g]
                /\ AfterGrant(t, q, c.overlaps)
        /\ UNCHANGED <<waiting, link, leaked, dangling>>

ProcessFlockLock(t, q, new2) == Conflict(t, q, new2) \/ GrantRequest(t, q, new2)

Free(r) == rlock[r] = None

\* A call arrives.  The flag of an unlock makes no difference.
HandleEnqueue(t, q) ==
    /\ th[t].pc = "idle"
    /\ q.start <= q.end
    /\ q.mode = "NL" => q.flag = "wait"
    /\ Free(q.res)
    /\ ProcessFlockLock(t, q, FALSE)

\* A pointer into a list that the lock has left is followed.
Dangle == dangling' = TRUE /\ UNCHANGED <<granted, waiting, link, th, rlock, leaked>>

AllocDone(t) ==
    LET q == th[t].req IN
    /\ th[t].pc = "alloc"
    /\ Free(q.res)
    /\ IF OwnlocksValid(t, OwnerOf[t], q) THEN ProcessFlockLock(t, q, TRUE) ELSE Dangle

AllocFailed(t) ==
    LET r == th[t].req.res IN
    /\ AllocFails
    /\ th[t].pc = "alloc"
    /\ Free(r)
    /\ granted' = [granted EXCEPT ![r] = Unmark(@, t)]
    /\ th' = [th EXCEPT ![t] = Idle]
    /\ UNCHANGED <<waiting, link, rlock, leaked, dangling>>

\* The deadlock check of a request that conflicts: EDEADLK, or wait.
CheckDeadlock(t) ==
    LET walk(p) == FlockDeadlock(OwnerOf[t], link[t], p)
    IN  /\ th[t].pc = "linked"
        /\ \/ /\ \E p \in Picks : walk(p) = "deadlock"
              /\ link' = [link EXCEPT ![t] = None]
              /\ rlock' = [rlock EXCEPT ![th[t].req.res] = None]
              /\ th' = [th EXCEPT ![t] = Idle]
           \/ /\ \E p \in Picks : walk(p) = "none"
              /\ th' = [th EXCEPT ![t].pc = "checked"]
              /\ UNCHANGED <<link, rlock>>
        /\ UNCHANGED <<granted, waiting, leaked, dangling>>

AddWaiting(t) ==
    LET r == th[t].req.res IN
    /\ th[t].pc = "checked"
    /\ waiting' = [waiting EXCEPT ![r] = Append(@, t)]
    /\ rlock' = [rlock EXCEPT ![r] = None]
    /\ th' = [th EXCEPT ![t].pc = "sleep"]
    /\ UNCHANGED <<granted, link, leaked, dangling>>

-----------------------------------------------------------------------------
(* The scan of the waiting queue (ldlm_reprocess_queue): every request is  *)
(* tried again and granted, cancelled because of a deadlock, or kept.      *)

\* The caller of p is told, unless it is already cancelling its request.
Woken(p) == IF th[p].pc = "sleep" THEN Idle ELSE th[p]

\* Thread t tries request p; next is the one to try after it.
RetryBlocked(t, p, next, new2) ==
    LET q == th[p].req
        g == granted[q.res]
        B == Blockers(g, OwnerOf[p], q)
        walk(i, k) == FlockDeadlock(OwnerOf[p], g[i].owner, k)
    IN  /\ B # {}
        /\ granted' = [granted EXCEPT ![q.res] = Unmark(@, t)]
        /\ leaked' = (leaked \/ new2)
        /\ \/ /\ \E i \in B : \E k \in Picks : walk(i, k) = "deadlock"
              /\ link' = [link EXCEPT ![p] = None]
              /\ waiting' = [waiting EXCEPT ![q.res] = Dequeue(p, q.res)]
              /\ th' = [th EXCEPT ![t].pc = "scan", ![t].pos = next,
                                  ![t].pend = None, ![p] = Woken(p)]
           \/ /\ \A i \in B : \E k \in Picks : walk(i, k) = "none"
              /\ th' = [th EXCEPT ![t].pc = "scan", ![t].pos = next, ![t].pend = None]
              /\ UNCHANGED <<link, waiting>>
        /\ rlock' = [rlock EXCEPT ![q.res] = t]
        /\ UNCHANGED dangling

RetryGranted(t, p, next, new2) ==
    LET q == th[p].req
        g == granted[q.res]
        c == GrantFlock(Unmark(g, t), OwnerOf[p], q, OwnStart(g, OwnerOf[p], t, q.mode),
                        new2, IF th[p].pc = "sleep" THEN {} ELSE {p})
    IN  /\ Blockers(g, OwnerOf[p], q) = {}
        /\ link' = [link EXCEPT ![p] = None]
        /\ IF c.stop = "alloc"
           THEN /\ granted' = [granted EXCEPT ![q.res] = Mark(c.g, t, c.pos)]
                /\ th' = [th EXCEPT ![t].pc = "scanalloc", ![t].pos = next,
                                    ![t].pend = p]
                /\ rlock' = [rlock EXCEPT ![q.res] = None]
                /\ UNCHANGED waiting
           ELSE /\ granted' = [granted EXCEPT ![q.res] = c.g]
                /\ waiting' = [waiting EXCEPT ![q.res] = Dequeue(p, q.res)]
                /\ th' = [th EXCEPT ![t].pc = "scan", ![t].pos = next,
                                    ![t].pend = None, ![p] = Woken(p)]
                /\ rlock' = [rlock EXCEPT ![q.res] = t]
        /\ UNCHANGED <<leaked, dangling>>

\* The request at the scan's position, unless that has left the queue while a
\* lock was allocated for the one before.
ReprocessNext(t) ==
    LET p == th[t].pos IN
    /\ th[t].pc = "scan" /\ p # None
    /\ IF Queued(p)
       THEN LET next == Behind(p, th[p].req.res)
            IN  RetryBlocked(t, p, next, FALSE) \/ RetryGranted(t, p, next, FALSE)
       ELSE Dangle

ReprocessEnd(t) ==
    /\ th[t].pc = "scan" /\ th[t].pos = None
    /\ rlock' = [r \in Res |-> IF rlock[r] = t THEN None ELSE rlock[r]]
    /\ th' = [th EXCEPT ![t] = Idle]
    /\ UNCHANGED <<granted, waiting, link, leaked, dangling>>

ReprocessAllocDone(t) ==
    LET p == th[t].pend IN
    /\ th[t].pc = "scanalloc"
    /\ Free(th[t].req.res)
    /\ IF Queued(p) /\ OwnlocksValid(t, OwnerOf[p], th[p].req)
       THEN RetryBlocked(t, p, th[t].pos, TRUE) \/ RetryGranted(t, p, th[t].pos, TRUE)
       ELSE Dangle

\* The request is destroyed and the scan ends; its caller is not told.
ReprocessAllocFailed(t) ==
    LET p == th[t].pend
        r == th[t].req.res
    IN  /\ AllocFails
        /\ th[t].pc = "scanalloc"
        /\ Free(r)
        /\ IF Queued(p)
           THEN /\ granted' = [granted EXCEPT ![r] = Unmark(@, t)]
                /\ waiting' = [waiting EXCEPT ![r] = Dequeue(p, r)]
                /\ th' = [th EXCEPT ![t] = Idle]
                /\ UNCHANGED <<link, rlock, leaked, dangling>>
           ELSE Dangle

-----------------------------------------------------------------------------
(* A signal wakes a sleeping call: the client cancels the request, and the *)
(* server rescans the waiting queue.                                       *)

CancelCallbackLinked(t) ==
    /\ t \in Interruptible
    /\ th[t].pc = "sleep"
    /\ Free(th[t].req.res)
    /\ th' = [th EXCEPT ![t].pc = "canceling"]
    /\ UNCHANGED <<granted, waiting, link, rlock, leaked, dangling>>

CancelCallback(t) ==
    /\ t \in Interruptible
    /\ th[t].pc = "sleep"
    /\ Free(th[t].req.res)
    /\ link' = [link EXCEPT ![t] = None]
    /\ th' = [th EXCEPT ![t].pc = "canceling"]
    /\ UNCHANGED <<granted, waiting, rlock, leaked, dangling>>

\* The resource lock was dropped for the callback: a scan may have granted the
\* request in the meantime, and it leaves whatever list it is in.
CancelWaiting(t) ==
    LET r == th[t].req.res IN
    /\ th[t].pc = "canceling"
    /\ Free(r)
    /\ waiting' = [waiting EXCEPT ![r] = Dequeue(t, r)]
    /\ granted' = [granted EXCEPT ![r] = SelectSeq(@, LAMBDA l : t \notin l.cur)]
    /\ th' = [th EXCEPT ![t].pc = "cancelled"]
    /\ UNCHANGED <<link, rlock, leaked, dangling>>

ReprocessAll(t) ==
    LET r == th[t].req.res IN
    /\ th[t].pc = "cancelled"
    /\ Free(r)
    /\ th' = [th EXCEPT ![t].pc = "scan", ![t].pos = First(r)]
    /\ rlock' = [rlock EXCEPT ![r] = t]
    /\ UNCHANGED <<granted, waiting, link, leaked, dangling>>

Next ==
    /\ ~dangling
    /\ \E t \in Thread :
        \/ \E q \in Request : HandleEnqueue(t, q)
        \/ AllocDone(t) \/ AllocFailed(t)
        \/ CheckDeadlock(t) \/ AddWaiting(t)
        \/ ReprocessNext(t) \/ ReprocessEnd(t)
        \/ ReprocessAllocDone(t) \/ ReprocessAllocFailed(t)
        \/ CancelCallback(t) \/ CancelWaiting(t) \/ ReprocessAll(t)

Spec == Init /\ [][Next]_vars
-----------------------------------------------------------------------------
(* Correctness.                                                            *)

TypeOK ==
    /\ \A r \in Res : \A i \in DOMAIN granted[r] :
         LET l == granted[r][i] IN
         /\ l.owner \in Owner /\ l.mode \in ReqMode \ {"NL"}
         /\ l.start \in 0 .. OffsetMax /\ l.end \in l.start .. OffsetMax
         /\ l.cur \subseteq Thread
    /\ waiting \in [Res -> Seq(Thread)]
    /\ link \in [Thread -> Owner \cup {None}]
    /\ rlock \in [Res -> Thread \cup {None}]
    /\ \A t \in Thread : th[t].req \in Request \cup {NoReq}

\* Two owners never hold locks on the same byte unless both are read locks,
\* whatever was merged, split and granted while a lock was being allocated.
FlocksExclusive ==
    \A r \in Res : \A i, j \in DOMAIN granted[r] :
        LET a == granted[r][i]
            b == granted[r][j]
        IN  a.owner # b.owner /\ FlocksOverlap(a, b) => a.mode = "PR" /\ b.mode = "PR"

\* The list keeps what the scan of ldlm_process_flock_lock relies on: the
\* locks of an owner are contiguous, in order, disjoint, and two of the same
\* mode do not touch.
OwnListOK ==
    \A r \in Res : \A i, j \in DOMAIN granted[r] :
        LET a == granted[r][i]
            b == granted[r][j]
        IN  i < j /\ a.owner = b.owner =>
              /\ a.end < b.start
              /\ a.mode = b.mode => a.end + 1 < b.start
              /\ \A k \in i .. j : granted[r][k].owner = a.owner

\* What owner o holds by list g, byte by byte: the meaning of the list.
HeldBytes(g, o) ==
    [b \in 0 .. OffsetMax |->
        {g[i].mode : i \in {k \in DOMAIN g : /\ g[k].owner = o
                                            /\ g[k].start <= b /\ b <= g[k].end}}]

Overridden(h, q) ==
    [b \in 0 .. OffsetMax |->
        IF b < q.start \/ b > q.end THEN h[b]
        ELSE IF q.mode = "NL" THEN {} ELSE {q.mode}]

\* Granting a request does to the bytes of its owner what was asked, and
\* nothing to the bytes of others, whatever locks are merged, trimmed, split
\* or removed for it in whatever list the calls so far have left.
GrantMatchesBytes ==
    (\A t \in Thread : th[t].pc = "idle") =>
    \A r \in Res, o \in Owner : \A q \in Request :
        LET g == granted[r]
            h == GrantFlock(g, o, q, OwnStart(g, o, None, q.mode), TRUE, {}).g
        IN  q.res = r /\ q.start <= q.end /\ Blockers(g, o, q) = {} =>
              \A p \in Owner :
                HeldBytes(h, p) = IF p = o THEN Overridden(HeldBytes(g, o), q)
                                  ELSE HeldBytes(g, p)

\* What an owner holds changes only by the bytes and the mode that one of its
\* calls is asking for, also when the lock was dropped to split one.
GrantExact ==
    [][\A r \in Res, o \in Owner :
        LET old == HeldBytes(granted[r], o)
            new == HeldBytes(granted'[r], o)
        IN  new # old =>
              \E t \in Thread, q \in Request :
                /\ OwnerOf[t] = o /\ q.res = r
                /\ new = Overridden(old, q)
                /\ IF th[t].pc = "idle" THEN HandleEnqueue(t, q)
                   ELSE th[t].pc \in {"alloc", "sleep"} /\ th[t].req = q]_vars

-----------------------------------------------------------------------------
(* Waiting and deadlock.                                                   *)

\* The owners that a waiting call really waits for.
BlockedBy(t) ==
    LET q == th[t].req
    IN  {granted[q.res][i].owner : i \in Blockers(granted[q.res], OwnerOf[t], q)}

Waits(t) == th[t].pc \in {"linked", "checked", "sleep"}

\* Owners S that all wait for one another.
Cycle(S) ==
    /\ S # {}
    /\ \A o \in S : \E t \in Thread : /\ OwnerOf[t] = o /\ Waits(t)
                                      /\ BlockedBy(t) \cap S # {}

Quiet == \A t \in Thread : th[t].pc \in {"idle", "sleep"}

\* Calls that wait for one another do not sleep: one of them got EDEADLK.
DeadlockDetected == Quiet => \A S \in SUBSET Owner : ~Cycle(S)

\* A call is refused for a deadlock, at once or in a later scan, only when
\* its owner waits, over however many others, for itself.
DeadlockReal ==
    [][\A t \in Thread :
        /\ Waits(t) /\ th'[t].pc = "idle" /\ granted' = granted
        => \E S \in SUBSET Owner : OwnerOf[t] \in S /\ Cycle(S)]_vars

\* When nothing is going on at the server, a sleeping call is in the waiting
\* queue and something is in its way: every release rescans the queue.
NoStranded ==
    Quiet => \A t \in Thread :
        th[t].pc = "sleep" => Queued(t) /\ BlockedBy(t) # {}

\* A request is not destroyed while its caller sleeps: what the scan cannot grant stays in
\* the waiting queue.
SleepersQueued == Quiet => \A t \in Thread : th[t].pc = "sleep" => Queued(t)

\* The walk along the links ends: they form no cycle, so that the check,
\* which runs under the resource lock, cannot go round for ever.
WalkEnds ==
    Quiet => \A o, b \in Owner : \A p \in Picks : FlockDeadlock(o, b, p) # "loop"

\* Each lock allocated for a split is used or destroyed.
NoLeak == ~leaked

\* The request, its position in the owner's locks and the position in the
\* waiting queue are still valid when the resource lock has been retaken.
CursorsValid == ~dangling
=============================================================================

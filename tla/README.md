# Lustre in TLA+

TLA+ models of the protocols of the Lustre file system (`src/lustre`), checked with
TLC on small instances and, for the properties that matter most, proved with
TLAPS for every instance. `PROJECT.json` lists, for every definition that
models code, the source lines it stands for, and for every property the run
that checks it.

## 1. The system

A Lustre file system is a set of servers and many clients, mostly kernel code.
Metadata servers (MDT, on MDD, LOD, OSP, OSD) keep the name space, object
servers (OFD, OSD) keep file data, the MGS keeps the configuration. Clients
(llite on LMV/MDC and LOV/OSC) cache metadata and data. All of them talk PtlRPC
over LNet. Coherence of the caches rests on one distributed lock manager
(LDLM): every server is the lock server of its own resources, the clients hold
locks and give them up when called back.

Five protocols are modelled, those on which the others rest and where the
interleavings are hardest to test:

| Part | Source | Modules | What is hard |
|---|---|---|---|
| Locks (IBITS) | `ldlm/ldlm_lockd.c`, `ldlm_lock.c`, `ldlm_inodebits.c`, `ldlm_request.c` | `LdlmModes`, `LdlmBase`, `LdlmServer`, `LdlmClient`, `Ldlm`; `LdlmEvictionProofs`, `LdlmCoherenceProofs`, `LdlmQueueProofs`, `LdlmCallbackProofs`, `LdlmProofs` | handlers drop the resource lock while they call clients back; clients die, answer late or never; callbacks overtake replies |
| POSIX locks | `ldlm/ldlm_flock.c` | `FlockList`, `Flock` | merging and splitting with the resource lock dropped in the middle; deadlock detection over links that grow stale |
| FID sequences, FLDB | `fid/`, `fld/fld_handler.c` | `SeqRange`, `FidServer`, `FidClient`, `Fid`, `FidProofs` | sequences are handed out before they are on disk; crashes, lost replies, failing writes |
| Object precreation | `osp/osp_precreate.c`, `osp/osp_object.c`, `ofd/ofd_dev.c` | `OspPrecreate`, `OfdCreate`, `ObjectPrecreate`, `PrecreateProofs` | crash of either side; an object in use must not pass for an orphan |
| Recovery | `ldlm/ldlm_lib.c`, `target/tgt_lastrcvd.c`, `ptlrpc/import.c`, `recover.c`, `client.c` | `RecoveryNet`, `ReplyData`, `PtlrpcImport`, `TargetRecovery`, `Recovery`, `ExactlyOnce` | each request executed once, over resends, reconnections, restarts, replays by many clients and a timer |

`MCLdlm`, `MCFlock`, `MCFid`, `MCPrecreate` and `MCRecovery` instantiate them for TLC.
The rest of the system is listed in section 9.

Conventions. One action is what a thread does between two points where another
thread, a message or a crash can intervene. A failed assertion (LBUG) stops the
system. Bounds are constants; a comment says so where they are declared.
Definitions marked `mutant` are plausible mistakes; each property has one
that it must detect.

## 2. LDLM

* `LdlmModes`: lock modes, the compatibility matrix (`LCK_COMPAT_*`,
  `lockmode_compat`), conflict of two IBITS locks.
* `LdlmBase`: the locks that will be requested (`Owner`, `Mode`, `ReqBits`), the RPCs.
* `LdlmServer`: one resource on the server. `granted`, `waiting` and `ahead` are
  the two queues (`lr_granted`, `lr_waiting`): `ahead[l]` is the set of locks
  that were queued when `l` joined, which is the queue order the policy
  uses. `thr[t]` is the local state of a service thread between two critical
  sections; one action is what a thread does between `lock_res` and
  `unlock_res`. `tmr` is where `l_pending_chain` is (no list, waiting list,
  expired list).
* `LdlmClient`: the locks of all clients. `cl[l].work` are the work items of the
  `ldlm_bl` threads, with the phase each has reached.
* `Ldlm`: both sides, the properties, fairness.

### What is abstracted

* A `Client` is one export: a client that reconnects after an eviction is a new
  one, with new lock handles. Handles are never reused.
* Request RPCs are never lost (PtlRPC resends until reply or eviction); ASTs
  may time out and still arrive later (`Flaky` clients). Messages are
  delivered in any order.
* `ref` stands for readers + writers > 0. `canceling` stands for
  `FL_CANCELING` and `FL_CANCEL`. Identical work items of a lock merge.
* `InvalidateImport` merges the failing of the RPCs in flight with
  `cleanup_resource`. An AST to an export already failed is not sent.
* The bits of the convert RPC are read together with the drop.
* `BlAstSend` is `ldlm_work_bl_ast_lock` and `ldlm_server_blocking_ast`,
  `EnqueueFinish` the end of `ldlm_handle_enqueue0` from the reply to the decision to
  reprocess, `CancelLock` sets `FL_CANCEL` and `FL_DESTROYED`, `ExpiredEvict` takes the
  lock off the list and fails the export: one step each. `DropLastRef` has no GROUP case.
* The user of a lock (llite) is: match, use, decref at any time.
* `Flaky` and `MayInterrupt` are constants so that an instance can leave out what
  it is not about. The proofs hold for any value, but for `NoStrandedWaiter` (section 7).
* Not modelled: intents, LVBs and glimpses, commit-on-sharing and `try_bits`,
  cancel-on-block, lock replay, MDT-MDT locks, ELC, LRU ageing.

### Runs

| Run | Instance | Shows |
|---|---|---|
| `ldlm` | three clients, PR/PW/PR on one bit, two enqueue threads | exclusion, no forgotten waiter with its inductive invariant (`QueueInv`), queue order |
| `ldlm_evict` | two clients, one flaky, two enqueue threads | assertions, timers, evicted locks gone |
| `ldlm_convert` | a cached two-bit lock, two writers of one bit each | coherence of the bits, no forgotten waiter |
| `ldlm_live` | two clients, one flaky, enqueues interrupted, fairness | the two inductive invariants of the proofs (`IndInv`, `ProtocolInv`), coherence, no forgotten waiter; a waiter is served even if the holder falls silent |
| `ldlm_stranded` | as `ldlm_evict` | violation: a cancelled enqueue does not reprocess |

Three locks are enough for a holder, a waiter and a lock queued behind it; two
enqueue threads for every race of two handlers; one cancel thread, since cancel
and convert handlers race with enqueues and the reaper. The instances of
`ldlm` and `ldlm_evict` are not combined: three locks, two enqueue
threads and evictions take far more than a few minutes. Threads are
interchangeable (`ThreadSymmetry`), except under fairness.
`CHECK_DEADLOCK FALSE`: the system rests when all locks are cached and nobody
wants them, or when every lock slot is used up.

`NoStrandedWaiter` speaks of the lock at the head of the waiting queue: the scan
of `ldlm_reprocess_queue` stops at the first lock that is blocked, so those
behind it wait for it, whatever they conflict with. `ldlm`, `ldlm_live` and
`ldlm_convert` check it where the defects of section 8 cannot happen (no eviction,
or one enqueue thread and two locks).

Fairness: service threads, timers and the network make progress (weak fairness
on `ServerWork`). A client that is not flaky handles its callbacks and its users
release locks eventually. `ExpiredEvict` is strongly fair: `ldlm_lock_busy`
may prolong a lock repeatedly, but not for ever, since the I/O it waits for ends.
Nothing is assumed of a flaky client. `WaiterServed` says that no lock stays
in the waiting queue for ever.

## 3. POSIX locks

`FlockList` is the list algorithm of `ldlm_process_flock_lock`: the granted list
is a sequence of ranges, and `GrantFlock` scans the locks of the owner as the
code does, merging, trimming, splitting and removing, with 64-bit wrap-around
modulo `Eof + 1`. It stops where the code must allocate a second lock.

`Flock` adds the threads. `th[t]` is the state of a client thread and of the server
thread that serves it: it enqueues, allocates with the resource lock
dropped (`alloc`), links itself to the owner in its way and checks for a deadlock
(`linked`, `checked`), sleeps in the waiting queue, is granted or refused by a scan
of the queue (`ldlm_reprocess_queue`), or is interrupted and cancels. `link` is
`blocking_owner` in `exp_flock_hash`. A granted lock carries in `cur` the threads
that remember a pointer to it while they do not hold the resource lock.

Left out: F_GETLK (changes nothing), eviction of a flock client, replay, clients
without `OBD_CONNECT_FLOCK_DEAD`. A sleeper that a scan grants is told in the same step
(`Woken`). Each file has its own resource lock (`rlock`); a thread keeps it while it
walks the links.

| Run | Instance | Shows |
|---|---|---|
| `flock` | two owners, one file of three bytes, all modes, allocations that fail | exclusion per byte; the list stays sorted, merged and contiguous; granting a request does to the bytes what was asked, as a property of every list reached and of every step |
| `flock_deadlock` | two owners, two files (one locked only as a whole), signals | deadlocks are found, are real, and nobody sleeps for nothing |

`GrantMatchesBytes` compares the list algorithm with its meaning, a function
from bytes to modes, for every request on every list reached.
Three bytes and `Eof = 7` give splits, adjacency and the low end of the range, where
`start - 1` wraps. The high end is not reached: llite asks for `OFFSET_MAX` at most,
half of the unsigned range.
With two owners the recorded link is always the right one; with three it is
not (section 8).

## 4. FID sequences

* `SeqRange`: ranges and their arithmetic (`seq_range.h`).
* `FidServer`: the sequence controller on MDT0 (`ctl`, with its disk) and the
  servers: `space`, the low- and high-water sets `lo` and `hi`, what is on `disk` and
  being written (`pend`), the lightweight connection (`lwp`), and the FLDB. A server
  hands out sequences whose write has not committed, and restarts at any time.
* `FidClient`: `cspace` and `fid` of each client, threads that take FIDs and whole
  sequences at once (`update`), RPCs that are resent, evictions.
* `Fid`: the composition, the properties, the inductive invariant.

MDT0's own server calls the controller directly; here it is a server that
is connected at once and loses no reply. The controller and that server
restart independently, which is more than the code does. The ranges an administrator
sets (`Specs`) are assumed to lie inside the controller's space.

| Run | Instance | Shows |
|---|---|---|
| `fid` | one server, two clients, four sequences, super-sequences of 3, sets of 1, FIDs per sequence 2; controller writes may fail | no sequence is handed out twice, the low-water set is safe, no FID is used twice |
| `fid_two` | two servers, one with an lwp callback, an administrator's range with a gap, server writes may fail | the FLDB names the server of every sequence it has or had |

A set of one sequence makes both sets run out at every allocation, and four
sequences exhaust the space of the controller and end with a short range.

## 5. Object precreation

`OspPrecreate` is the MDT's side: the pool of created ids, the reservations,
`last_used` in memory and on disk, the creating threads inside their transaction, crash,
replay and recovery, and the precreate thread. `OfdCreate` is `ofd_create_hdl`: the
last id, the objects, orphan cleanup and precreation with their steps
under `os_create_lock`, the connection count, crash of the OST. `ObjectPrecreate`
composes them over a network that loses and delays.

| Run | Instance | Shows |
|---|---|---|
| `precreate` | two creating threads, five ids, two connections, one crash of each side | pool and objects in use exist on the OST; reservations are backed; no object in use is destroyed and no id is used twice, but for the exceptions below; the inductive invariant of the proofs (`IndInv`) |

Every thread takes ids and writes `last_used`, in any order, and an OST thread may stall
between any two statements while the MDT reconnects or restarts; `os_create_lock` goes
to any waiter. The loop that destroys orphans is one step. `MaxPrecreate = 2` makes the
OST distrust an MDT that is too far behind. Two connections are what a stale request of
the first and a cleanup of the second need.

In two cases the code does not keep objects in use (section 8), and two history
variables, which no action reads, tell them from the others. `uncovered` are the ids of
committed files beyond the `last_used` that a restart of the MDT reads from disk;
`strayed` are the objects destroyed by a cleanup of an earlier connection, which passed
the check of `exp_conn_cnt` before the reconnection. `InUseKept` is about cleanups of
the current connection and, like `IdsUnique` and the second half of `PoolBacked`, about
ids that are not `uncovered`; `PoolBacked` is up to `strayed`. `InUseAlwaysKept` and
`IdsAlwaysUnique` of `MCPrecreate` are the first two without exceptions, and fail.

Not modelled: `last_used` below 2, the end of a sequence and the next one, the
branch for a reformatted OST, an MDT without `SKIP_ORPHAN`, the rebuilding of
LAST_ID, administrative deactivation, the reporting of gaps, the adaptation of
`create_count`.

## 6. Recovery

* `RecoveryNet`: requests, replies, connects; delivered in any order, late or never.
* `ReplyData` (`tgt_lastrcvd.c`): the journal is a sequence of transactions, of which
  a prefix (`committed`) is on disk; a crash keeps the prefix. `reply[c]` is
  `ted_reply_list` and the one reply that keeps its slot (`ted_reply_last`). Reply
  data is released by the last xid received and by the reuse of a tag.
* `PtlrpcImport`: `imp[c]`, with its sending, replay and unreplied lists, its state
  and replay cursor; send, timeout and reconnect, replay in order, resend,
  final ping, eviction.
* `TargetRecovery` (`ldlm_lib.c`): exports, the checks of an arriving request, the
  replay queue, `check_for_next_transno`, the recovery thread, the timer that
  evicts, restart.
* `Recovery`: the composition. A crash of the target may happen at any point; the
  clients do not know until a request times out.
* `ExactlyOnce`: what all this promises, without messages or crashes: an
  operation takes effect at most once, and once acknowledged it stays unless
  its client is evicted.

Refinement. `Recovery` implements `ExactlyOnce` (`ImplementsExactlyOnce`). An
operation is in effect if it is in the journal, or will be replayed (`Replayed`): its
client has not recovered and retains it, or a reply that carries a transno is on
its way to a client that will retain it. So a crash that loses an uncommitted
transaction is a stutter when the client can replay it, a loss when nobody
was told, and a violation when the client was told and cannot. The third
component of an effect counts executions, so a second execution is a step that
`ExactlyOnce` does not have.

| Run | Instance | Shows |
|---|---|---|
| `recovery` | two clients, two operations, two tags, three reconnections, one crash | the refinement; replays in transno order; `last_committed` never goes back; one replay of a client counts at a time (`ReplayCountedOnce`); the recovery thread never waits for nobody |
| `recovery_live` | two reconnections, evictions by the timer, fairness | recovery ends whatever the clients do; the refinement with evictions |

Two operations of one client give a gap in the other's replay, two tags give out of
order replies and the release of reply data by tag. The operations of all clients
are counted together, so every distribution is covered. `EpochSize = 10` is larger
than the number of transactions, as 2^32 is.

A replay is compared with `obd_next_recovery_transno` and queued in two holds of
`obd_recovery_task_lock`, and a replay is answered before the recovery thread moves on,
as in the code. Two assertions of `ldlm_lib.c` fail in between (`GapAhead` and
`ReplayNeeded`, section 8); a failed assertion stops the model. A replay that is queued
after its turn (`Overtaken`) is the other consequence: the thread waits until the hard
timeout aborts the recovery, which is not modelled, so `RecoveryNotStuck` and
`RecoveryEnds` except it, and `RecoveryEnds` a failed assertion.

`Windows` names two more places where another step may come between two that the code
does not protect: requests past `ptlrpc_check_req` when their client reconnects
("stale"; here they are dropped, the code answers `-ESTALE`), and a request between the
release of reply data and its own lookup ("lookup"). It is empty in the two runs, and
section 8 says what happens with each. Fairness: the service threads and the recovery
thread run and the recovery timer expires (weak fairness). Nothing is assumed of clients
and network.

Left out: replay of locks, version-based recovery beyond the failure of a check (a
client does not learn that it failed; it is evicted), distributed updates, the transno
of a connect and its `-EBUSY`, the connection count of a queued replay that is sent
again, the epoch update of a restart without clients, failing writes of reply data,
opens kept on the committed list, pings of an idle import, abort of recovery, eviction
by an administrator, late release of the slots of a busy evicted export, the life of an
import after eviction. Three operations of a client are beyond the bound: they reuse a
tag while a resent request is on its way, and the refinement fails (section 8).

## 7. Proofs

TLC checks the instances above; TLAPS proves these theorems for every value of the
constants, from the assumptions named in the modules only.

| Module | Theorems | Statement |
|---|---|---|
| `LdlmProofs` | `TypeCorrect`, `Invariance`, `MutualExclusion`, `QueueOrder` | types; `IndInv`; `GrantedCompatible`; `NoOvertaking` |
| | `EvictionInvariance`, `EvictionComplete`, `CallbackTimed` | `EvictionInv`; `EvictedLocksGone`; `CalledBackHasTimer` |
| | `CoherenceInvariance`, `Coherence`, `AssertionInvariance`, `NoAssertionFails`, `ProtocolInvariance` | `CoherenceInv`; `ClientCoherent`; `AssertionInv`; `NoLbug` where locks are not converted; `ProtocolInv` |
| | `QueueInvariance`, `WaiterNotStranded` | `QueueInv`; `NoStrandedWaiter` under `NoFaults` |
| `FidProofs` | `BaseInvariant`, `TypeCorrect`, `FldCorrect` | types; `FldLocates`, with failing writes and lwp callbacks |
| | `AloneInvariant`, `SequencesCorrect`, `LowaterCorrect`, `IndInvCorrect`, `FidsCorrect` | `SequencesUnique`, `LowaterSafe`, `FidsUnique`, under `Strict` |
| `PrecreateProofs` | `Invariance`, `Reservations`, `Backing`, `Uniqueness`, `OrphansOnly` | `IndInv`; `ReservationsBacked`; `PoolBacked`; `IdsUnique`; `InUseKept` |

The lemmas about LDLM are in four modules that show, one step of a proof per action,
that each action keeps an invariant. `LdlmEvictionProofs` begins with what the actions do
to the record of a thread and to a client's lock, and goes on with `EvictionInv`;
`LdlmCoherenceProofs` has `CoherenceInv` and `AssertionInv`; `LdlmQueueProofs` and
`LdlmCallbackProofs` have the two sides of `QueueInv`, the queues of the server and the
callbacks to the clients. `LdlmProofs` has the types, the exclusion, and the theorems.

LDLM. `GrantedCompatible` alone is not inductive: `Reprocess` grants a whole
prefix of the waiting queue at once, and that two of those locks are compatible
follows only if one of them is ahead of the other and was compared with it,
hence `WaitingOrdered`. Granting a lock relies on what the thread record says
(`LocksCreated`). The conversion keeps exclusion because bits only shrink
(`ShrinkKeeps`). The theorems cover converts, evictions and any number of threads,
which is why the runs need not repeat them there.

Eviction. What has to be shown is that no lock slips between the reaper and
the handler that is just enqueueing it. `Fresh` locks are those the policy has not
seen; nobody knows them (`FreshUntouched`), and an enqueue RPC is in one place
(`EnqueuedOnce`). A cancelled lock is not on the resource, and one that is there
though its export is reaped is in the hands of an enqueue that will still look at
`exp_disconnected` before it replies (`LeftoversUnfinished`). A called-back lock
without a timer is on the blocking or completion list of a thread or its enqueue is
unfinished (`TimerPending`): all three places call `ldlm_add_waiting_lock`. With
idle threads nothing of this is left, which gives both theorems.

Coherence. The client's view follows from what others have seen of it. A lock seen
granted, by its client, in a message or in the record of a thread, is granted until
the client has given it up, and only then is it cancelled or its enqueue refused
(`GrantsKept`). The client drops bits before the server does, so the bits in a
convert request contain the client's and the bits a handler is about to drop do
not; a completion AST carries the bits the server still has (`BitsKept`). The
proof needs `FreshUntouched` of the eviction invariant for locks that a client is
only just creating.

Assertions. `NoAssertionFails` assumes `~CanConvert`, because with converts some
assertions do fail (section 8). Without them a lock on a work list was called back
by that thread alone and its blocking AST has not run (`WorkListed`), and a lock that is
being cancelled has no users and cannot be matched again (`CancelUnused`).

Waiters. `NoStrandedWaiter` is about a state in which nothing is in progress; to prove
it one must say, for every state, what is in progress on behalf of the head of the
queue. `HeadBlocked`: it conflicts with a granted lock, or some thread will call
`ldlm_reprocess_all`. `BlockersCalledBack`: what it conflicts with has been called back,
and so has what is ahead of a lock further back. `CallbacksArrive`: the client of a
granted lock that was called back knows, or will be told, by a blocking AST that a
thread is about to send, is on its way or is queued on the client, by the enqueue reply,
or by a completion AST, which tells it only if nothing else has granted the lock before
(`ToldSilently`). `ClientsCooperate`: a client that knows and has no user for the lock
is cancelling it, and a CANCEL is on its way for a lock it has destroyed.
`EnqueuesSucceed`, `QueuePlaces` and `CallsForWaiter` support these. With nothing in
progress they leave one possibility: the lock in the way has a user and its client knows
that it is wanted.

`NoFaults` says that no client falls silent (`Flaky`), no enqueue is interrupted
(`MayInterrupt`) and no lock is converted. The first two are needed: with either the
property fails (section 8). The third only spares the proof the convert handlers;
`ldlm_convert` checks the property with them. Clients, locks, threads and their
interleavings are arbitrary.

FID. `Strict` says that the writes of the servers do not fail and no lwp callback
runs; without it the properties do not hold (section 8). `Base` is
ownership: whatever a server has, may read back from its disk or is about to get
is recorded as its own in the FLDB. `Alone` adds that the sets, the space, the disk,
the write in progress and what was handed out do not overlap, except that the
high-water set may overlap the disk while a write is pending. `IndInv` adds the
clients: sequences to use are theirs alone, used ones are not to be used.

Precreation. `IndInv` says which requests of the MDT can be in flight and which of them
the OST will still accept. The pool stays shut while an orphan cleanup of the current
connection is pending (`CleanupInv`), and the cleanup whose reply opens the pool is the
only one of its connection: the precreate thread has one RPC in flight. A reply to a
precreation only extends the pool, and the cleanup ends only with no reservation left,
so reservations stay backed. What a cleanup destroys lies above the `last_used` it was
sent with, and `opd_last_used_fid` in memory covers all that is in use but what a
restart did not find covered (`FileInv`, `uncovered`). Cleanups of earlier connections
make holes that the pool does not know of; `HoleInv` says that there are no others
(`strayed`). The theorems have no assumption but those on the types of the constants:
the number of threads, ids, connections and crashes is arbitrary.

Only model-checked: forgotten waiters where locks are converted, or clients are evicted
and there is one enqueue thread, the recovery protocol, the flock list (its scan is
recursive, and the deadlock walk uses a RECURSIVE operator, which excludes TLAPS), and
all liveness, which this version of TLAPS does not handle.

## 8. Known disagreements

Places where the code does not do what its assertions or comments say, met while
modelling. The first is run `ldlm_stranded`, with a finding in `PROJECT.json`. The
others are reproduced by the configuration named, with the property of the row as its
only one and with the constants the row changes; the passing
runs exclude them by their constants, or their properties except them, as said above.

| Configuration | Violated | What happens |
|---|---|---|
| `MCLdlmStranded.cfg` | `NoStrandedWaiter` | `ldlm_lockd.c:1449`: the enqueue of a client evicted in mid-flight is cancelled without a scan of the queue |
| `MCLdlm.cfg`, `EnqThread = {e1}`, `MayInterrupt = {l2}` | `NoStrandedWaiter` | `ldlm_request.c:521`: "Make sure that this lock will not be found by raced bl_ast and -EINVAL reply is sent to server anyways."; a completion AST that also calls back is answered with success all the same (`ldlm_lockd.c:2173` refuses only blocking ASTs), the client destroys the lock without a CANCEL and the server keeps it granted |
| `MCLdlmConvertGone.cfg` | `ConvertedLockGranted` | `ldlm_lockd.c:1491`: a convert checks the lock without the resource lock; it may be cancelled before the bits are dropped, and `LASSERT(lock->l_req_mode == lock->l_granted_mode)` (`ldlm_lock.c:1080`) fails |
| `MCLdlmConvertBlocking.cfg` | `BlockingLockCleared` | `ldlm_lock.c:2077`: `l_blocking_lock` is cleared after the AST is sent; a convert in between lets another enqueue call back and meet `LASSERT(lock->l_blocking_lock == NULL)` (`ldlm_lock.c:671`) |
| `MCLdlmConvertGone.cfg`, other invariant | `CancelledLockUnused` | `ldlm_request.c:1137`: a failed convert cancels a lock that was matched again; "Lock must not have any readers or writers by this time." (`ldlm_request.c:1479`) |
| `MCLdlmConvertGone.cfg`, other invariant | `CancelBitsKnown` | `ldlm_request.c:1133`: a failed convert zeroes `cancel_bits` that a second callback is about to use (`LASSERT` at `ldlm_request.c:1503`) |
| `MCFlockMissed.cfg` | `DeadlockDetected` | `ldlm_flock.c:103`: the link is set at enqueue and not when another owner takes over; a deadlock of three owners is missed, though "we need to iterate through all blocked POSIX locks for this export and see if there is a deadlock condition arising" (`:157`) |
| `MCFlockMissed.cfg`, other invariant | `DeadlockReal` | `ldlm_flock.c:224`: for the same reason a call that would not deadlock is refused |
| `MCFlockDowngrade.cfg` | `NoStranded` | `ldlm_flock.c:576`: a write lock made a read lock does not rescan the queue; "The lock is granted if no conflicts are found in either queue." (`:271`) |
| `MCFlock.cfg` | `SleepersQueued` | `ldlm_flock.c:509`: the allocation for a split fails in a scan of the queue; the request is destroyed and its caller, who gets no completion AST, sleeps on |
| `MCFlockWalk.cfg` | `WalkEnds` | `ldlm_flock.c:180`: "Stop on first found lock. Same process can't sleep twice"; two threads of a process can, the links form a cycle and the walk under the resource lock does not end |
| `MCFlock.cfg`, `ReqFlag = {"wait"}`, `AllocFails = FALSE` | `NoLeak` | `ldlm_flock.c:515`: the lock allocated for a split is forgotten if the restarted request must wait; "if new2 is created but never used, destroy it" (`:550`) |
| `MCFlock.cfg`, the same and `Interruptible = {t2}` | `CursorsValid` | `ldlm_flock.c:504`: "we should release the lr_lock, allocate the new lock, and restart processing this lock" (`:500`), but with pointers from before, to locks that may be gone |
| `MCFidWriteFails.cfg` | `LowaterSafe` | `fid_handler.c:221`: a write fails after the space moved on; the low-water set is used though it is not "safe to use" (`:202`) |
| `MCFidLwp.cfg` | `SequencesUnique` | `mdt_handler.c:4165`: the lwp callback sets the range without the mutex of the allocation, which "should be atomic." (`fid_handler.c:59`) |
| `MCFidEmpty.cfg` | `LocalRangeNotEmpty` | `fid_handler.c:247`: after a restart with at most one set left on disk the high-water set is empty and is handed out with rc = 0; `LASSERT(!lu_seq_range_is_exhausted(&seq->lcs_space))` (`fid_request.c:239`) fails |
| `MCPrecreate.cfg` | `IdsAlwaysUnique` | `osp_object.c:1534`: two creates copy `opd_last_used_fid` and write it in the other order; after an MDT crash the object of a committed file is taken for an orphan and its id handed out again; "OST either keep them, if they exist or recreate" (`:1501`) |
| `MCPrecreateStuck.cfg` | `PoolReopens` | `osp_precreate.c:1216`: a cleanup that fails when the connection is found lost before the disconnect event is seen leaves the pool closed until the next connection (`:1161`) |
| `MCPrecreate.cfg`, `Creator = {t1}`, no `SYMMETRY` | `InUseAlwaysKept` | `ofd_dev.c:1595`: the check that drops an "old orphan cleanup request" comes before `os_create_lock`; a thread that stalls after it destroys objects that were used since the reconnection |
| `MCRecovery.cfg`, `MaxCrash = 2`, `MaxEvict = 1` | `LastCommittedKept` | `tgt_reply_data_init` leaves `lcd_last_transno` 0, so after a second crash the reply of the highest transno is not retained, though "This ensures on-disk reply data is kept and last committed transno can be restored from disk" (`tgt_lastrcvd.c:356`) |
| `MCRecovery.cfg`, `MaxCrash = 2`, `MaxEvict = 1` | `ImplementsExactlyOnce` | the target crashes again during the replay and the reply to the next connect is lost; the one after it is a reconnect with another handle, and the client goes on from its replay cursor instead of from the start, though "we are safe to participate since we can reestablish all of our state with server again" (`import.c:1162`) |
| `MCRecovery.cfg`, `Windows = {"stale"}` | `ImplementsExactlyOnce` | a request of the connection before arrives after the reconnect, past `ptlrpc_check_req`, and its `-ESTALE` answers the replay of the same xid, and the client goes on with the next; "In case of error restart replay process." (`client.c:2930`) |
| `MCRecovery.cfg` | `GapAhead` | `ldlm_lib.c:2809`: a replay read `obd_next_recovery_transno` and is queued after it moved on; `LASSERTF(req_transno >= next_transno)` (`:1917`) |
| `MCRecovery.cfg`, `Windows = {"lookup"}` | `ImplementsExactlyOnce` | a request releases the reply data that the thread of a resent one is about to look for |
| `MCRecovery.cfg` | `ReplayNeeded` | a resent replay arrives between the client's last reply and its end of replay; `LASSERT(exp_req_replay_needed)` (`ldlm_lib.c:2827`) |
| `MCRecovery.cfg`, one client, `MaxOps = 3`, `MaxConn = 1`, `MaxCrash = 0` | `ImplementsExactlyOnce` | `tgt_handle_tag`: a late copy of a request is executed again after the next user of its tag has released its reply data |

In addition, a resent replay that the final ping overtakes fails its version check
and its client, though healthy, is evicted (`EvictVbrFailed`); no property forbids it.

## 9. Not modelled

The models cover about two percent of the lines of `src/`, which hold a whole
file system. The rest falls in three groups; `PROJECT.json` lists the parts one
by one with the reason.

* Protocols with state worth a model that are not here: space grants
  (`tgt_grant.c`, `osc_cache.c`), llog catalogs, OSP sync and distributed
  transactions (DNE), quota, the HSM coordinator, the OSC extent cache, the
  FLDB client cache, configuration logs, LNet credits and discovery. Each is a
  system of its own, of the size of those above.
* Code that transforms data inside one transaction or one call: MDD, LOD, LOV, LMV,
  MDT handlers, LFSCK, the VFS glue, libcfs. It has few interleavings of its own
  and relies on the locks and transactions modelled here.
* Storage back ends, network drivers, security, utilities, tests, generated and
  compatibility code. They are the environment of the models: a journal commits
  in order and loses a suffix in a crash; a network delivers late, out of order
  or not at all.

---------------------------- MODULE OspPrecreate ----------------------------
(***************************************************************************)
(* The MDT side of object precreation: the pool of one OSP device          *)
(* (osp_precreate.c, osp_object.c, osp_dev.c) and the MDT threads that     *)
(* take objects from it inside a journalled transaction.                   *)
(*                                                                         *)
(* An object id is reserved (osp_declare_create), taken from the pool      *)
(* (osp_precreate_get_fid), and the id used last is written to the         *)
(* last_used file in the transaction that stores the id in the file's      *)
(* layout (osp_create). After a crash of the MDT the last_used file is     *)
(* read back, the clients replay the creates that did not commit, and the  *)
(* precreate thread then makes the OST destroy the objects beyond.         *)
(***************************************************************************)
EXTENDS Naturals, FiniteSets

CONSTANTS
  Creator,        \* MDT threads that create files
  CreateCounts,   \* values opd_pre_create_count takes
  MaxId,          \* bound: the ids of the sequence, LUSTRE_DATA_SEQ_MAX_WIDTH
  MaxConn,        \* bound: connections
  MdtCrashes      \* bound: how often the MDT crashes

ASSUME OspAssumption ==
  /\ IsFiniteSet(Creator) /\ CreateCounts \subseteq Nat
  /\ MaxId \in Nat /\ MaxId >= 2 /\ MaxConn \in Nat /\ MdtCrashes \in Nat

VARIABLES
  used,       \* opd_last_used_fid
  pool,       \* [pre, created, reserved]: opd_pre_used_fid, opd_pre_last_created_fid, opd_pre_reserved
  recovering, \* opd_pre_recovering
  status,     \* opd_pre_status
  imp,        \* [conn, connected, gotDisc, newConn]: the import's connection, opd_imp_connected,
              \* opd_got_disconnected, opd_new_connection
  pc,         \* where the precreate thread is
  creator,    \* [Creator -> [pc, id, val]]
  mdt,        \* [file, files]: the last_used file, the ids in the layouts of files
  mdtDisk,    \* the same, as committed
  replay,     \* the creates that clients still have to replay
  recovered,  \* opd_pre_recovery_completed
  boots       \* how often the MDT has started

ospVars == <<used, pool, recovering, status, imp, pc, creator, mdt, mdtDisk, replay, recovered, boots>>
poolVars == <<used, pool, recovering, status>>
mdtVars == <<creator, mdt, mdtDisk, replay, recovered, boots>>

Idle == [pc |-> "idle", id |-> 0, val |-> 0]
EmptyPool == [pre |-> 1, created |-> 1, reserved |-> 0]

\* osp_init_precreate: "we can't use the pool before orphan cleanup".
OspInit ==
  /\ used = 2 /\ pool = EmptyPool /\ recovering = FALSE /\ status = "wait"
  /\ imp = [conn |-> 0, connected |-> FALSE, gotDisc |-> TRUE, newConn |-> FALSE]
  /\ pc = "connect"
  /\ creator = [t \in Creator |-> Idle]
  /\ mdt = [file |-> 2, files |-> {2}]
  /\ mdtDisk = mdt
  /\ replay = {} /\ recovered = TRUE /\ boots = 1

\* opd_pre_status: 0, an error on which osp_precreate_reserve keeps waiting and
\* looking (-ENOSPC, -ENODEV, -EAGAIN, -ENOTCONN), or another one.
Waitable == {"ok", "wait"}

Larger(a, b) == IF a > b THEN a ELSE b

(***************************************************************************)
(* The MDT's threads.                                                      *)
(***************************************************************************)
Precreated == pool.created - pool.pre

CanReserve == status \in Waitable /\ ~recovering /\ Precreated > pool.reserved

\* osp_declare_create: a create that is not a replay reserves an object.
Reserve(t) ==
  /\ recovered
  /\ creator[t].pc = "idle"
  /\ CanReserve
  /\ pool' = [pool EXCEPT !.reserved = @ + 1]
  /\ creator' = [creator EXCEPT ![t].pc = "reserved"]
  /\ UNCHANGED <<used, recovering, status, imp, pc, mdt, mdtDisk, replay, recovered, boots>>

\* osp_object_release: the create failed before it took the object.
Release(t) ==
  /\ creator[t].pc = "reserved"
  /\ pool' = [pool EXCEPT !.reserved = @ - 1]
  /\ creator' = [creator EXCEPT ![t] = Idle]
  /\ UNCHANGED <<used, recovering, status, imp, pc, mdt, mdtDisk, replay, recovered, boots>>

\* osp_precreate_get_fid, with osp_update_last_fid, under opd_pre_lock.
GetFid(t) ==
  /\ creator[t].pc = "reserved"
  /\ LET id == pool.pre + 1 IN
     /\ pool' = [pre |-> id, created |-> pool.created, reserved |-> pool.reserved - 1]
     /\ used' = Larger(used, id)
     /\ creator' = [creator EXCEPT ![t] = [pc |-> "taken", id |-> id, val |-> 0]]
  /\ UNCHANGED <<recovering, status, imp, pc, mdt, mdtDisk, replay, recovered, boots>>

\* osp_create copies opd_last_used_fid without a lock ...
CopyLastUsed(t) ==
  /\ creator[t].pc = "taken"
  /\ creator' = [creator EXCEPT ![t] = [pc |-> "copied", id |-> @.id, val |-> used]]
  /\ UNCHANGED <<poolVars, imp, pc, mdt, mdtDisk, replay, recovered, boots>>

\* ... and writes the copy to the last_used file.
WriteLastUsed(t) ==
  /\ creator[t].pc = "copied"
  /\ mdt' = [file |-> creator[t].val, files |-> mdt.files \union {creator[t].id}]
  /\ creator' = [creator EXCEPT ![t] = Idle]
  /\ UNCHANGED <<poolVars, imp, pc, mdtDisk, replay, recovered, boots>>

\* The journal commits when no transaction is open.
MdtCommit ==
  /\ mdtDisk # mdt
  /\ \A t \in Creator : creator[t].pc \in {"idle", "reserved"}
  /\ mdtDisk' = mdt
  /\ UNCHANGED <<poolVars, imp, pc, creator, mdt, replay, recovered, boots>>

(***************************************************************************)
(* Crash and recovery of the MDT.                                          *)
(***************************************************************************)
\* A crash and the restart (osp_last_used_init, osp_init_precreate). The
\* clients have some of the creates that did not commit, and will replay them.
MdtCrash ==
  /\ boots <= MdtCrashes
  /\ boots' = boots + 1
  /\ mdt' = mdtDisk
  /\ used' = mdtDisk.file
  /\ pool' = EmptyPool /\ recovering' = FALSE /\ status' = "wait"
  /\ imp' = [conn |-> imp.conn, connected |-> FALSE, gotDisc |-> TRUE, newConn |-> FALSE]
  /\ pc' = "connect"
  /\ creator' = [t \in Creator |-> Idle]
  /\ \E S \in SUBSET ((mdt.files \union replay) \ mdtDisk.files) : replay' = S
  /\ recovered' = FALSE
  /\ UNCHANGED mdtDisk

\* A replayed create has its id; opd_last_used_fid follows under opd_pre_lock.
Replay(id) ==
  /\ ~recovered
  /\ replay' = replay \ {id}
  /\ used' = Larger(used, id)
  /\ mdt' = [file |-> used', files |-> mdt.files \union {id}]
  /\ UNCHANGED <<pool, recovering, status, imp, pc, creator, mdtDisk, recovered, boots>>

\* osp_recovery_complete; a client that did not come back is evicted with its creates.
RecoveryComplete ==
  /\ ~recovered
  /\ recovered' = TRUE
  /\ replay' = {}
  /\ UNCHANGED <<poolVars, imp, pc, creator, mdt, mdtDisk, boots>>

(***************************************************************************)
(* The import and the precreate thread.                                    *)
(***************************************************************************)
\* osp_import_event: IMP_EVENT_DISCON.
Disconnect ==
  /\ imp.connected
  /\ imp' = [conn |-> imp.conn, connected |-> FALSE, gotDisc |-> TRUE, newConn |-> imp.newConn]
  /\ status' = "wait"
  /\ UNCHANGED <<used, pool, recovering, pc, mdtVars>>

\* osp_import_event: IMP_EVENT_ACTIVE, for connection conn.
Activate(conn) ==
  /\ ~imp.connected
  /\ imp' = [conn |-> conn, connected |-> TRUE, gotDisc |-> imp.gotDisc,
             newConn |-> imp.newConn \/ imp.gotDisc]
  /\ UNCHANGED <<poolVars, pc, mdtVars>>

\* osp_statfs_interpret: the reply of a statfs, sent at each connection and
\* then periodically.
Statfs ==
  /\ \E s \in {"ok", "wait"} : s # status /\ status' = s
  /\ UNCHANGED <<used, pool, recovering, imp, pc, mdtVars>>

\* The top of osp_precreate_thread: a cleanup that failed is done again on the
\* same connection, otherwise the thread goes to sleep ...
Retry == recovering /\ imp.connected /\ ~imp.gotDisc

CheckConnection ==
  /\ pc = "connect"
  /\ pc' = IF Retry THEN "orphans" ELSE "sleep"
  /\ UNCHANGED <<poolVars, imp, mdtVars>>

\* ... and only opd_new_connection wakes it.
NewConnection ==
  /\ pc = "sleep" /\ imp.newConn
  /\ imp' = [conn |-> imp.conn, connected |-> imp.connected, gotDisc |-> FALSE, newConn |-> FALSE]
  /\ recovering' = TRUE
  /\ pc' = "orphans"
  /\ UNCHANGED <<used, pool, status, mdtVars>>

\* osp_precreate_cleanup_orphans waits until nobody holds a reservation and the
\* MDT has recovered.
OrphansReadyReserved == recovered       \* mutant: it does not wait for the reservations
OrphansReadyEarly == pool.reserved = 0   \* mutant: it does not wait for the recovery
OrphansReady == pool.reserved = 0 /\ recovered

SendOrphans ==
  /\ pc = "orphans" /\ ~imp.gotDisc /\ imp.connected
  /\ OrphansReady
  /\ pc' = "delorphan"
  /\ UNCHANGED <<poolVars, imp, mdtVars>>

OrphansDisconnected ==
  /\ pc = "orphans" /\ imp.gotDisc
  /\ pc' = "connect"
  /\ UNCHANGED <<poolVars, imp, mdtVars>>

\* The connection was lost before the thread saw it: the RPC fails at once
\* (rq_no_delay).
OrphansNotSent ==
  /\ pc = "orphans" /\ ~imp.gotDisc /\ ~imp.connected
  /\ OrphansReady
  /\ \E s \in {"fail", "wait"} : status' = s
  /\ pc' = "connect"
  /\ UNCHANGED <<used, pool, recovering, imp, mdtVars>>

\* The reply of the cleanup: the pool starts after the id used last, or after
\* the last object of the OST if that is further.
PoolFrom(id) == [pre |-> id, created |-> id, reserved |-> pool.reserved]
PoolAfterOrphansOst(oid) == PoolFrom(oid)   \* mutant: the MDT is not asked
PoolAfterOrphansOld(oid) ==                 \* mutant: the orphans are in the pool
  [pre |-> used, created |-> Larger(used, oid), reserved |-> pool.reserved]
PoolAfterOrphans(oid) == PoolFrom(Larger(used, oid))

OrphansDone(oid) ==
  /\ pc = "delorphan"
  /\ pool' = PoolAfterOrphans(oid)
  /\ recovering' = FALSE
  /\ pc' = "ready"
  /\ UNCHANGED <<used, status, imp, mdtVars>>

\* "create_count/2" objects are left, for some value of opd_pre_create_count.
NearEmpty(count) == Precreated - pool.reserved < count \div 2

\* osp_precreate_send, up to the RPC; osp_precreate_fids ends at the last id of
\* the sequence.
SendPrecreate(grow) ==
  /\ pc = "ready" /\ ~imp.gotDisc
  /\ status = "ok"
  /\ \E count \in CreateCounts : NearEmpty(count) /\ grow = count
  /\ pool.created < MaxId
  /\ pc' = "precreate"
  /\ UNCHANGED <<poolVars, imp, mdtVars>>

UpToAll(grow) == pool.created + grow  \* mutant: beyond the end of the sequence
UpTo(grow) == IF pool.created + grow < MaxId THEN pool.created + grow ELSE MaxId

\* The reply: an id that is not beyond the used ones is -ESTALE.
PrecreateDone(oid) ==
  /\ pc = "precreate"
  /\ \/ /\ oid > pool.pre
        /\ pool' = [pool EXCEPT !.created = oid]
        /\ \E s \in {"ok", "wait"} : status' = s
     \/ /\ oid <= pool.pre
        /\ status' = "fail"
        /\ UNCHANGED pool
  /\ pc' = "ready"
  /\ UNCHANGED <<used, recovering, imp, mdtVars>>

\* The RPC fails, and is not resent (rq_no_resend).
RpcFailed ==
  /\ pc \in {"delorphan", "precreate"}
  /\ \E s \in {"fail", "wait"} : status' = s
  /\ pc' = IF pc = "delorphan" THEN "connect" ELSE "ready"
  /\ UNCHANGED <<used, pool, recovering, imp, mdtVars>>

\* The connection was lost under the RPC.
RpcLost == imp.gotDisc /\ RpcFailed

\* The inner loop of the thread ends.
LeaveReady ==
  /\ pc = "ready" /\ imp.gotDisc
  /\ pc' = "connect"
  /\ UNCHANGED <<poolVars, imp, mdtVars>>

CreatorStep(t) ==
  Reserve(t) \/ Release(t) \/ GetFid(t) \/ CopyLastUsed(t) \/ WriteLastUsed(t)

=============================================================================

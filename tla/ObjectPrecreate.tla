-------------------------- MODULE ObjectPrecreate --------------------------
(***************************************************************************)
(* An MDT and an OST that create the objects of files together: the pool   *)
(* of OspPrecreate, filled by the create handler of OfdCreate through a    *)
(* network that loses and delays requests, with crashes of both sides.     *)
(***************************************************************************)
EXTENDS OspPrecreate, OfdCreate

\* History, which no action reads: the ids of committed files beyond the last_used
\* that a restart of the MDT read, and the objects destroyed by cleanups of an
\* earlier connection.
VARIABLES uncovered, strayed

vars == <<ospVars, ostVars, uncovered, strayed>>

Init == OspInit /\ OstInit /\ uncovered = {} /\ strayed = {}

Send(type, oid) ==
  reqs' = reqs \union {[type |-> type, oid |-> oid, exp |-> boots, conn |-> imp.conn, st |-> "net"]}

CleanupOrphans ==
  /\ SendOrphans
  /\ Send("delorphan", used)
  /\ UNCHANGED <<ost, ostDisk, destroys, exp, reps>>

PrecreateObjects ==
  /\ \E grow \in CreateCounts : SendPrecreate(grow) /\ Send("precreate", UpTo(grow))
  /\ UNCHANGED <<ost, ostDisk, destroys, exp, reps>>

Receive(r) ==
  /\ imp.connected
  /\ reps' = reps \ {r}
  /\ \/ r.oid = NoId /\ RpcFailed
     \/ r.oid # NoId /\ r.type = "delorphan" /\ OrphansDone(r.oid)
     \/ r.oid # NoId /\ r.type = "precreate" /\ PrecreateDone(r.oid)
  /\ UNCHANGED <<ost, ostDisk, destroys, exp, reqs>>

\* With the connection, or the MDT, the reply that is on its way is lost.
LoseConnection ==
  /\ Disconnect \/ MdtCrash
  /\ reps' = {}
  /\ UNCHANGED <<ost, ostDisk, destroys, exp, reqs>>

\* The import connects; conn grows with every connection of every incarnation.
Reconnect ==
  /\ imp.conn < MaxConn
  /\ Activate(imp.conn + 1)
  /\ Connect(boots, imp.conn + 1)

StatfsReply ==
  /\ imp.connected /\ exp.id = boots /\ exp.conn = imp.conn
  /\ Statfs
  /\ UNCHANGED ostVars

OspStep ==
  \/ \E t \in Creator : CreatorStep(t)
  \/ MdtCommit \/ (\E id \in replay : Replay(id)) \/ RecoveryComplete
  \/ CheckConnection \/ NewConnection \/ OrphansDisconnected \/ OrphansNotSent
  \/ RpcLost \/ LeaveReady

\* The request came over the connection the OST has now.
Current(r) == r.exp = exp.id /\ r.conn = exp.conn

Destroyed == IF exp'.boot = exp.boot THEN ost.objs \ ost'.objs ELSE {}

Remember ==
  /\ uncovered' = uncovered \union
       IF boots' # boots THEN {x \in mdtDisk.files : x > mdtDisk.file} ELSE {}
  /\ strayed' = strayed \union
       IF \A r \in reqs \ reqs' : Current(r) THEN {} ELSE Destroyed

Step ==
  \/ OspStep /\ UNCHANGED ostVars
  \/ OstNext /\ UNCHANGED ospVars
  \/ CleanupOrphans \/ PrecreateObjects \/ LoseConnection \/ Reconnect \/ StatfsReply
  \/ \E r \in reps : Receive(r)

Next == Step /\ Remember

Spec == Init /\ [][Next]_vars

\* The threads run, a transaction ends, the recovery window of the MDT ends,
\* requests and replies arrive or the connection is found lost and set up
\* again, and an OST does not refuse orphan cleanups for ever.
ThreadStep ==
  \/ CleanupOrphans
  \/ (CheckConnection \/ NewConnection \/ OrphansDisconnected \/ OrphansNotSent) /\ UNCHANGED ostVars
  \/ (RpcLost \/ LeaveReady) /\ UNCHANGED ostVars

Fairness ==
  /\ WF_vars(ThreadStep /\ Remember)
  /\ \A t \in Creator : WF_vars(creator[t].pc # "idle" /\ CreatorStep(t) /\ UNCHANGED ostVars /\ Remember)
  /\ WF_vars(RecoveryComplete /\ UNCHANGED ostVars /\ Remember)
  /\ WF_vars(exp.conn # imp.conn /\ LoseConnection /\ Remember)
  /\ WF_vars(Reconnect /\ Remember)
  /\ WF_vars((\E r \in reqs : (Accept(r) \/ RaiseDestroys(r) \/ DelOrphan(r) \/ Precreate(r))
                             /\ UNCHANGED ospVars) /\ Remember)
  /\ SF_vars((\E r \in reqs : CheckOrphan(r) /\ UNCHANGED ospVars) /\ Remember)
  /\ WF_vars((\E r \in reps : Receive(r)) /\ Remember)

FairSpec == Spec /\ Fairness

(***************************************************************************)
(* Properties.                                                             *)
(***************************************************************************)
Id == 0 .. MaxId + 1

TypeOK ==
  /\ used \in Id /\ pool \in [pre : Id, created : Id, reserved : 0 .. Cardinality(Creator)]
  /\ recovering \in BOOLEAN /\ status \in Waitable \union {"fail"}
  /\ imp \in [conn : 0 .. MaxConn, connected : BOOLEAN, gotDisc : BOOLEAN, newConn : BOOLEAN]
  /\ pc \in {"connect", "sleep", "orphans", "delorphan", "ready", "precreate"}
  /\ creator \in [Creator -> [pc : {"idle", "reserved", "taken", "copied"}, id : Id, val : Id]]
  /\ {mdt, mdtDisk} \subseteq [file : Id, files : SUBSET Id]
  /\ replay \subseteq Id /\ recovered \in BOOLEAN /\ boots \in 1 .. MdtCrashes + 1
  /\ {ost, ostDisk} \subseteq [last : Id, objs : SUBSET Id]
  /\ destroys \in BOOLEAN
  /\ exp \in [id : 0 .. MdtCrashes + 1, conn : 0 .. MaxConn, boot : 0 .. OstCrashes]
  /\ reqs \subseteq [type : {"delorphan", "precreate"}, oid : Id, exp : 1 .. MdtCrashes + 1,
                     conn : 0 .. MaxConn, st : {"net", "thread", "checked", "locking"}]
  /\ reps \subseteq [type : {"delorphan", "precreate"}, oid : Id]

HistoryOK == uncovered \subseteq Id /\ strayed \subseteq Id

\* The ids that belong to a file, will belong to one once it is replayed, or are
\* in an open transaction.
InUse == mdt.files \union replay \union {creator[t].id : t \in {u \in Creator : creator[u].id # 0}}

\* A cleanup of the MDT's current connection destroys no object that a file refers
\* to, that a client still has to replay, or that a transaction holds
\* (ofd_orphans_destroy against the last id read in osp_precreate_cleanup_orphans),
\* unless a restart read a last_used older than the file.
InUseKept ==
  [][(\A r \in reqs \ reqs' : Current(r)) => Destroyed \intersect InUse \subseteq uncovered]_vars

\* No two files get the same object, whatever crashed in between and however late
\* a request is handled: osp_precreate_get_fid hands out no id that is in use,
\* unless a restart read a last_used older than that id.
IdsUnique ==
  [][\A t \in Creator : creator[t].pc = "reserved" /\ creator'[t].pc = "taken"
                          => creator'[t].id \notin InUse \ uncovered]_vars

\* The thread is in its inner loop on a connection the OST still knows.
Synced == pc \in {"ready", "precreate"} /\ ~imp.gotDisc /\ exp.id = boots /\ exp.conn = imp.conn

\* While the two sides are in touch, every object of the pool, and every object
\* in use, exists on the OST, the ones lost in a crash of the OST included: the
\* pool opens only after the cleanup has recreated them. The exceptions are what
\* a cleanup of an earlier connection destroyed and, of the objects in use, those
\* beyond the last_used that a restart read.
PoolBacked ==
  Synced /\ Precreated > 0
    => Ids(pool.pre, pool.created) \union (InUse \ uncovered) \subseteq ost.objs \union strayed

\* Every reservation is backed by an object of the pool, so that the assertion
\* of osp_precreate_get_fid that the pool is not empty holds.
ReservationsBacked == pool.reserved <= Precreated

\* The pool is not closed for ever: an orphan cleanup that has begun ends while
\* the OST is connected, although it waits for the holders of reservations, for
\* the recovery of the MDT and for an OST that may fail it
\* (osp_precreate_cleanup_orphans, osp_precreate_thread).
PoolReopens == []<>(imp.connected => ~recovering)

(***************************************************************************)
(* What makes the properties inductive.                                    *)
(***************************************************************************)
\* opd_pre_reserved counts the threads that hold a reservation.
Reserving == {t \in Creator : creator[t].pc = "reserved"}

CountInv == pool.reserved = Cardinality(Reserving) /\ ReservationsBacked

\* No id is beyond the sequence.
BoundInv ==
  /\ used <= MaxId /\ ost.last <= MaxId /\ ostDisk.last <= MaxId
  /\ Precreated > 0 => pool.created <= MaxId
  /\ \A x \in mdt.files \union replay : x <= MaxId
  /\ \A r \in reqs : r.oid <= MaxId
  /\ \A p \in reps : p.type = "precreate" => p.oid <= MaxId

\* opd_last_used_fid covers the files, but for those a restart did not, and the
\* open transactions, though the last_used file may lag behind.
FileInv ==
  /\ mdtDisk.files \subseteq mdt.files
  /\ \A x \in mdt.files \ uncovered : x <= used
  /\ mdt.file <= MaxId /\ mdtDisk.file <= MaxId
  /\ recovered => replay = {}
  /\ \A t \in Creator :
       /\ creator[t].id <= used
       /\ creator[t].pc \in {"idle", "reserved"} => creator[t].id = 0
       /\ creator[t].pc # "idle" => recovered
       /\ creator[t].pc \in {"taken", "copied"} => creator[t].id # 0
       /\ creator[t].val <= MaxId

\* The pool opens after a cleanup, and starts after the id used last.
ThreadInv ==
  /\ pc \in {"orphans", "delorphan"} => recovering
  /\ pc \in {"ready", "precreate"} => ~recovering
  /\ pc = "delorphan" => pool.reserved = 0 /\ recovered
  /\ pc \in {"delorphan", "ready", "precreate"} /\ ~imp.gotDisc => imp.connected
  /\ Precreated > 0 \/ pc \in {"ready", "precreate"} => used <= pool.pre /\ recovered

\* The import has not lost its connection without knowing it will get another.
Live == imp.connected \/ imp.newConn \/ ~imp.gotDisc

\* The two sides agree on who is connected, unless one of them has crashed.
ConnInv ==
  /\ exp.conn <= imp.conn /\ (imp.newConn => imp.gotDisc)
  /\ Live => exp.id = boots /\ exp.conn \in {0, imp.conn} /\ imp.conn > 0
  /\ \A r \in reqs :
       /\ r.conn > 0 /\ r.conn <= imp.conn
       /\ Live /\ r.conn = imp.conn => r.exp = boots
       /\ r.st \in {"checked", "locking"} => r.type = "delorphan"

\* The precreate thread has one RPC in flight, or none.
Quiet == reps = {} /\ \A r \in reqs : r.conn # imp.conn

Outstanding ==
  /\ \A q, r \in reqs : q.conn = imp.conn /\ r.conn = imp.conn => q = r
  /\ \A p, q \in reps : p = q
  /\ reps # {} => \A r \in reqs : r.conn # imp.conn
  /\ \A r \in reqs : r.conn = imp.conn => r.type = pc
  /\ \A p \in reps : p.type = pc

Waiting == pc \in {"delorphan", "precreate"}

RpcInv ==
  /\ imp.newConn \/ (imp.connected /\ imp.gotDisc) \/ (~imp.gotDisc /\ ~Waiting) => Quiet
  /\ ~imp.gotDisc /\ Waiting => Outstanding

\* While they are in touch, the OST has created what the pool has, or the pool is
\* empty, and a precreate does not make the pool smaller.
PoolInv ==
  /\ pc \in {"ready", "precreate"} /\ ~imp.gotDisc /\ exp.conn = imp.conn
       => pool.pre = pool.created \/ pool.created <= ost.last
  /\ pc = "precreate" /\ ~imp.gotDisc
       => \A p \in reps : p.oid # NoId =>
            /\ p.oid > pool.pre => p.oid >= pool.created
            /\ exp.conn = imp.conn => p.oid <= ost.last

\* While an orphan cleanup of the current connection may still destroy objects, the
\* pool is closed, and nothing beyond the id it was sent with is in use.
Pending(r) == r.type = "delorphan" /\ Current(r)

Opening == imp.connected /\ pc = "delorphan" /\ \E p \in reps : p.oid # NoId

Shut == (recovering /\ pool.reserved = 0) \/ (Precreated = 0 /\ pc \notin {"ready", "precreate"})

CleanupInv ==
  \A r \in reqs : Pending(r) => (\A x \in InUse \ uncovered : x <= r.oid) /\ Shut /\ ~Opening

\* An id the OST has passed and has no object for is not in use, and is not in an
\* open pool or one about to open.
Hole(o, h) == h <= o.last /\ h \notin o.objs
Lost(h) == Hole(ost, h) \/ Hole(ostDisk, h)

HoleInv ==
  /\ ostDisk.last <= ost.last
  /\ \A h \in Id \ strayed : Lost(h) =>
       /\ h \notin InUse \ uncovered
       /\ h <= pool.pre \/ Shut
       /\ imp.connected /\ pc = "delorphan" => \A p \in reps : p.oid # NoId => h <= p.oid

IndInv ==
  /\ TypeOK /\ HistoryOK /\ CountInv /\ BoundInv /\ FileInv /\ ThreadInv
  /\ ConnInv /\ RpcInv /\ PoolInv /\ CleanupInv /\ HoleInv

=============================================================================

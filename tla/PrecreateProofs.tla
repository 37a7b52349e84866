--------------------------- MODULE PrecreateProofs --------------------------
(***************************************************************************)
(* Object precreation for any ids, threads, connections and crashes: the   *)
(* parts of the inductive invariant of ObjectPrecreate that each side keeps*)
(* by itself (types, the count of reservations, the last_used file, the    *)
(* bounds of the sequence, the precreate thread and the connection), the   *)
(* parts that relate the two sides, and the results.                       *)
(***************************************************************************)
EXTENDS ObjectPrecreate, FiniteSetTheorems, TLAPS

USE OspAssumption, OfdAssumption

-----------------------------------------------------------------------------
(* Types.                                                                  *)

\* opd_pre_reserved can be counted: the threads that hold a reservation are finitely many.
LEMMA Counts ==
  ASSUME TypeOK
  PROVE  /\ IsFiniteSet(Reserving) /\ Cardinality(Reserving) \in Nat
         /\ Cardinality(Creator) \in Nat /\ Cardinality(Reserving) <= Cardinality(Creator)
         /\ Cardinality(Reserving) = 0 <=> Reserving = {}
  BY Zenon, FS_Subset, FS_CardinalityType, FS_EmptySet DEF Reserving

\* osp_declare_create keeps the types, and counts its thread.
LEMMA TypeReserve ==
  ASSUME IndInv, NEW t \in Creator, Reserve(t), UNCHANGED ostVars
  PROVE  TypeOK' /\ CountInv'
<1>1. Reserving' = Reserving \cup {t} /\ t \notin Reserving
  BY DEF IndInv, TypeOK, Reserve, Reserving
<1>2. IsFiniteSet(Reserving) /\ Cardinality(Reserving) \in Nat
  BY Zenon, Counts DEF IndInv
<1>3. Cardinality(Reserving') = Cardinality(Reserving) + 1
  BY Zenon, <1>1, <1>2, FS_AddElement
<1>4. Cardinality(Reserving') <= Cardinality(Creator) /\ Cardinality(Creator) \in Nat
  BY Zenon, FS_Subset, FS_CardinalityType DEF Reserving
<1>5. TypeOK'
  BY <1>2, <1>3, <1>4 DEF IndInv, TypeOK, CountInv, Reserve, ostVars, Waitable
<1>6. CountInv'
  BY <1>3, <1>2 DEF IndInv, TypeOK, CountInv, ReservationsBacked, Precreated, CanReserve, Reserve, Id
<1> QED
  BY Zenon, <1>5, <1>6

\* osp_object_release and osp_precreate_get_fid give one reservation back, and the pool
\* still covers the others.
LEMMA TypeRelease ==
  ASSUME IndInv, NEW t \in Creator, Release(t) \/ GetFid(t), UNCHANGED ostVars
  PROVE  TypeOK' /\ CountInv'
<1>1. Reserving' = Reserving \ {t} /\ t \in Reserving
  BY DEF IndInv, TypeOK, Release, GetFid, Reserving, Idle
<1>2. IsFiniteSet(Reserving) /\ Cardinality(Reserving) \in Nat
  BY Zenon, Counts DEF IndInv
<1>3. Cardinality(Reserving') = Cardinality(Reserving) - 1 /\ Cardinality(Reserving) > 0
  BY <1>1, <1>2, FS_RemoveElement, FS_EmptySet
<1>4. Cardinality(Reserving) <= Cardinality(Creator) /\ Cardinality(Creator) \in Nat
  BY Zenon, FS_Subset, FS_CardinalityType DEF Reserving
<1>5. /\ pool.pre \in Nat /\ pool.created \in Id /\ pool.reserved = Cardinality(Reserving)
      /\ pool.pre + 1 <= pool.created /\ pool.reserved <= pool.created - pool.pre
  BY <1>2, <1>3 DEF IndInv, TypeOK, CountInv, ReservationsBacked, Precreated, Id
<1>6. pool.pre + 1 \in Id /\ 0 \in Id
  BY <1>5 DEF Id
<1>7. TypeOK'
  <2>1. CASE Release(t)
    BY <2>1, <1>2, <1>3, <1>4 DEF IndInv, TypeOK, CountInv, Release, ostVars, Waitable, Idle, Id
  <2>2. CASE GetFid(t)
    <3>1. used' \in Id
      BY Zenon, <2>2, <1>6 DEF IndInv, TypeOK, GetFid, Larger
    <3>2. pool' \in [pre : Id, created : Id, reserved : 0 .. Cardinality(Creator)]
      BY <2>2, <1>2, <1>3, <1>4, <1>5, <1>6 DEF IndInv, TypeOK, GetFid
    <3>3. creator' \in [Creator -> [pc : {"idle", "reserved", "taken", "copied"}, id : Id, val : Id]]
      BY Zenon, <2>2, <1>6 DEF IndInv, TypeOK, GetFid
    <3> QED
      BY <2>2, <3>1, <3>2, <3>3 DEF IndInv, TypeOK, GetFid, ostVars
  <2> QED
    BY Zenon, <2>1, <2>2
<1>8. CountInv'
  <2>1. pool'.reserved = pool.reserved - 1 /\ pool'.created = pool.created
        /\ (pool'.pre = pool.pre \/ pool'.pre = pool.pre + 1)
    <3>1. CASE Release(t)
      BY Zenon, <3>1 DEF IndInv, TypeOK, Release
    <3>2. CASE GetFid(t)
      BY Zenon, <3>2 DEF GetFid
    <3> QED
      BY Zenon, <3>1, <3>2
  <2>2. pool'.reserved <= pool'.created - pool'.pre
    <3>1. CASE Release(t)
      BY <3>1, <2>1, <1>2, <1>5 DEF Id, IndInv, TypeOK, Release
    <3>2. CASE GetFid(t)
      BY <3>2, <2>1, <1>2, <1>5 DEF Id, GetFid
    <3> QED
      BY Zenon, <3>1, <3>2
  <2> QED
    BY Zenon, <2>1, <2>2, <1>3, <1>5 DEF CountInv, ReservationsBacked, Precreated
<1> QED
  BY Zenon, <1>7, <1>8

\* The steps of Next that are not those of a creating thread.
LEMMA TypeOsp ==
  ASSUME TypeOK, UNCHANGED ostVars,
         \/ MdtCommit \/ RecoveryComplete \/ CheckConnection \/ NewConnection
         \/ OrphansDisconnected \/ OrphansNotSent \/ RpcLost \/ LeaveReady
         \/ (\E t \in Creator : CopyLastUsed(t) \/ WriteLastUsed(t))
         \/ (\E x \in replay : Replay(x))
  PROVE  TypeOK'
<1> USE DEF TypeOK, ostVars, poolVars, mdtVars, Waitable
<1>1. CASE MdtCommit
  BY <1>1 DEF MdtCommit
<1>2. CASE RecoveryComplete
  BY <1>2 DEF RecoveryComplete
<1>3. CASE CheckConnection
  BY Zenon, <1>3 DEF CheckConnection
<1>4. CASE NewConnection
  BY Zenon, <1>4 DEF NewConnection
<1>5. CASE OrphansDisconnected \/ LeaveReady
  BY Zenon, <1>5 DEF OrphansDisconnected, LeaveReady
<1>6. CASE OrphansNotSent
  BY Zenon, <1>6 DEF OrphansNotSent
<1>7. CASE RpcLost
  BY Zenon, <1>7 DEF RpcLost, RpcFailed
<1>8. CASE \E t \in Creator : CopyLastUsed(t)
  BY <1>8 DEF CopyLastUsed
<1>9. CASE \E t \in Creator : WriteLastUsed(t)
  BY <1>9 DEF WriteLastUsed, Idle, Id
<1>10. CASE \E x \in replay : Replay(x)
  BY <1>10 DEF Replay, Larger
<1> QED
  BY Zenon, <1>1, <1>2, <1>3, <1>4, <1>5, <1>6, <1>7, <1>8, <1>9, <1>10

\* The steps of the OST keep the types.
LEMMA TypeOst ==
  ASSUME TypeOK, BoundInv, UNCHANGED ospVars, OstNext
  PROVE  TypeOK'
<1> USE DEF TypeOK, ospVars
<1>1. ASSUME NEW r \in reqs, Accept(r) PROVE TypeOK'
  BY <1>1 DEF Accept, Move
<1>2. ASSUME NEW r \in reqs, Refuse(r) PROVE TypeOK'
  BY <1>2 DEF Refuse, ReplyTo, NoId, Id
<1>3. ASSUME NEW r \in reqs, CheckOrphan(r) PROVE TypeOK'
  BY <1>3 DEF CheckOrphan, Move
<1>4. ASSUME NEW r \in reqs, RaiseDestroys(r) PROVE TypeOK'
  BY <1>4 DEF RaiseDestroys, Move
<1>5. ASSUME NEW r \in reqs, DelOrphan(r) PROVE TypeOK'
  <2>1. r.oid \in Id /\ ost.last \in Id /\ ost.objs \subseteq Id /\ ost.last + 1 \in Id
    BY <1>5 DEF BoundInv, Id
  <2>2. ost' \in [last : Id, objs : SUBSET Id]
    <3>1. CASE UNCHANGED ost
      BY Zenon, <3>1
    <3>2. CASE OrphansDestroy(r.oid)
      BY Zenon, <3>2 DEF OrphansDestroy
    <3>3. ASSUME NEW upto \in ost.last .. r.oid, Create(upto) PROVE ost' \in [last : Id, objs : SUBSET Id]
      <4>1. upto \in Id /\ Ids(ost.last, upto) \subseteq Id
        BY <2>1 DEF Ids, Id
      <4> QED
        BY Zenon, <3>3, <4>1, <2>1 DEF Create
    <3> QED
      BY Zenon, <1>5, <3>1, <3>2, <3>3 DEF DelOrphan
  <2>3. \E o \in Id : ReplyTo(r, o)
    <3>1. \A upto \in ost.last .. r.oid : upto \in Id
      BY <2>1 DEF Id
    <3> QED
      BY Zenon, <1>5, <2>1, <3>1 DEF DelOrphan
  <2>4. reqs' \subseteq reqs /\ reps' \subseteq [type : {"delorphan", "precreate"}, oid : Id]
    BY <2>3 DEF ReplyTo
  <2>5. destroys' \in BOOLEAN /\ UNCHANGED <<ostDisk, exp>>
    BY Zenon, <1>5 DEF DelOrphan
  <2> QED
    BY <2>2, <2>4, <2>5
<1>6. ASSUME NEW r \in reqs, Precreate(r) PROVE TypeOK'
  BY <1>6 DEF Precreate, ReplyTo, Create, Ids, Id, NoId
<1>7. CASE OstCommit
  BY <1>7 DEF OstCommit
<1>8. CASE OstCrash
  <2>1. exp' \in [id : 0 .. MdtCrashes + 1, conn : 0 .. MaxConn, boot : 0 .. OstCrashes]
    BY <1>8 DEF OstCrash
  <2> QED
    BY Zenon, <2>1, <1>8 DEF OstCrash
<1> QED
  BY Zenon, <1>1, <1>2, <1>3, <1>4, <1>5, <1>6, <1>7, <1>8 DEF OstNext

\* Sending, receiving, connecting and losing the connection keep the types.
LEMMA TypeBoth ==
  ASSUME IndInv,
         \/ CleanupOrphans \/ PrecreateObjects \/ LoseConnection \/ Reconnect \/ StatfsReply
         \/ \E r \in reps : Receive(r)
  PROVE  TypeOK'
<1> USE DEF TypeOK
<1>0. TypeOK
  BY Zenon DEF IndInv
<1>1. CASE CleanupOrphans
  BY <1>0, <1>1 DEF CleanupOrphans, SendOrphans, Send, poolVars, mdtVars
<1>2. CASE PrecreateObjects
  <2>1. PICK grow \in CreateCounts : SendPrecreate(grow) /\ Send("precreate", UpTo(grow))
    BY Zenon, <1>2 DEF PrecreateObjects
  <2>2. UpTo(grow) \in Id
    BY <1>0 DEF UpTo, Id
  <2>3. reqs' = reqs \cup {[type |-> "precreate", oid |-> UpTo(grow), exp |-> boots,
                            conn |-> imp.conn, st |-> "net"]}
    BY Zenon, <2>1 DEF Send
  <2>4. pc' = "precreate" /\ UNCHANGED <<poolVars, imp, mdtVars>>
    BY Zenon, <2>1 DEF SendPrecreate
  <2> QED
    BY <1>0, <1>2, <2>2, <2>3, <2>4 DEF PrecreateObjects, poolVars, mdtVars
<1>3. CASE LoseConnection
  <2>1. CASE Disconnect
    BY Zenon, <1>0, <1>3, <2>1 DEF LoseConnection, Disconnect, mdtVars, Waitable
  <2>2. CASE MdtCrash
    <3>1. /\ imp' \in [conn : 0 .. MaxConn, connected : BOOLEAN, gotDisc : BOOLEAN, newConn : BOOLEAN]
          /\ boots' \in 1 .. MdtCrashes + 1
      BY <1>0, <2>2 DEF MdtCrash
    <3>2. /\ pool' \in [pre : Id, created : Id, reserved : 0 .. Cardinality(Creator)]
      BY <1>0, <2>2, Counts DEF MdtCrash, EmptyPool, Id
    <3>3. creator' \in [Creator -> [pc : {"idle", "reserved", "taken", "copied"}, id : Id, val : Id]]
      BY <1>0, <2>2 DEF MdtCrash, Idle, Id
    <3>4. replay' \subseteq Id
      BY Zenon, <1>0, <2>2 DEF MdtCrash
    <3> QED
      BY Zenon, <1>0, <1>3, <2>2, <3>1, <3>2, <3>3, <3>4 DEF LoseConnection, MdtCrash, Waitable
  <2> QED
    BY Zenon, <1>3, <2>1, <2>2 DEF LoseConnection
<1>4. CASE Reconnect
  <2>1. imp' \in [conn : 0 .. MaxConn, connected : BOOLEAN, gotDisc : BOOLEAN, newConn : BOOLEAN]
    BY <1>0, <1>4 DEF Reconnect, Activate
  <2>2. exp' \in [id : 0 .. MdtCrashes + 1, conn : 0 .. MaxConn, boot : 0 .. OstCrashes]
    BY <1>0, <1>4 DEF Reconnect, Connect
  <2> QED
    BY Zenon, <1>0, <1>4, <2>1, <2>2 DEF Reconnect, Activate, Connect, poolVars, mdtVars
<1>5. CASE StatfsReply
  BY Zenon, <1>0, <1>5 DEF StatfsReply, Statfs, mdtVars, ostVars, Waitable
<1>6. ASSUME NEW r \in reps, Receive(r) PROVE TypeOK'
  <2>0. r.oid \in Id
    BY Zenon, <1>0, <1>6
  <2>1. CASE RpcFailed
    BY Zenon, <1>0, <1>6, <2>1 DEF Receive, RpcFailed, mdtVars, Waitable
  <2>2. CASE OrphansDone(r.oid)
    BY Zenon, <1>0, <2>0, <1>6, <2>2 DEF Receive, OrphansDone, mdtVars, PoolAfterOrphans, PoolFrom, Larger
  <2>3. CASE PrecreateDone(r.oid)
    BY <1>0, <2>0, <1>6, <2>3 DEF Receive, PrecreateDone, mdtVars, Waitable
  <2> QED
    BY Zenon, <1>6, <2>1, <2>2, <2>3 DEF Receive
<1> QED
  BY Zenon, <1>1, <1>2, <1>3, <1>4, <1>5, <1>6

\* Every step keeps the types.
LEMMA TypeStep ==
  ASSUME IndInv, Step
  PROVE  TypeOK'
<1>0. TypeOK /\ BoundInv
  BY Zenon DEF IndInv
<1>1. CASE OspStep /\ UNCHANGED ostVars
  <2>1. ASSUME NEW t \in Creator, CreatorStep(t) PROVE TypeOK'
    BY Zenon, <1>0, <1>1, <2>1, TypeReserve, TypeRelease, TypeOsp DEF CreatorStep
  <2> QED
    BY Zenon, <1>0, <1>1, <2>1, TypeOsp DEF OspStep
<1> QED
  BY Zenon, <1>0, <1>1, TypeOst, TypeBoth DEF Step

\* A reply is received by the thread that waits for it, on the connection it was sent on.
LEMMA Received ==
  ASSUME IndInv, NEW r \in reps, Receive(r)
  PROVE  /\ imp.connected /\ ~imp.gotDisc /\ Waiting /\ r.type = pc
         /\ reps' = {} /\ \A q \in reqs : q.conn # imp.conn
<1>1. imp.connected
  BY Zenon DEF Receive
<1>2. ~imp.gotDisc /\ Waiting
  BY Zenon, <1>1 DEF IndInv, RpcInv, Quiet
<1>3. Outstanding
  BY Zenon, <1>2 DEF IndInv, RpcInv
<1>4. r.type = pc /\ \A q \in reqs : q.conn # imp.conn
  BY Zenon, <1>3 DEF Outstanding
<1>5. reps' = {}
  BY Zenon, <1>3 DEF Outstanding, Receive
<1> QED
  BY Zenon, <1>1, <1>2, <1>4, <1>5

\* Every step keeps the count of reservations, and the pool covers them: a precreate reply
\* never makes the pool smaller, and a cleanup replaces it only when nothing is reserved.
LEMMA CountStep ==
  ASSUME IndInv, Step
  PROVE  CountInv'
<1>0. TypeOK /\ CountInv /\ PoolInv /\ ThreadInv
  BY Zenon DEF IndInv
<1>1. CASE UNCHANGED <<pool, creator>>
  BY Zenon, <1>0, <1>1 DEF CountInv, Reserving, ReservationsBacked, Precreated
<1>2. ASSUME UNCHANGED pool, Reserving' = Reserving PROVE CountInv'
  BY Zenon, <1>0, <1>2 DEF CountInv, ReservationsBacked, Precreated
<1>3. ASSUME NEW t \in Creator, CreatorStep(t), UNCHANGED ostVars PROVE CountInv'
  <2>1. CASE CopyLastUsed(t)
    <3>1. Reserving' = Reserving /\ UNCHANGED pool
      BY Zenon, <1>0, <2>1 DEF TypeOK, CopyLastUsed, Reserving, poolVars
    <3> QED
      BY Zenon, <3>1, <1>2
  <2>2. CASE WriteLastUsed(t)
    <3>1. Reserving' = Reserving /\ UNCHANGED pool
      BY Zenon, <1>0, <2>2 DEF TypeOK, WriteLastUsed, Reserving, Idle, poolVars
    <3> QED
      BY Zenon, <3>1, <1>2
  <2> QED
    BY Zenon, <1>3, <2>1, <2>2, TypeReserve, TypeRelease DEF CreatorStep
<1>4. CASE MdtCrash
  <2>1. Reserving' = {}
    BY Zenon, <1>4 DEF MdtCrash, Reserving, Idle
  <2> QED
    BY <1>4, <2>1, FS_EmptySet DEF MdtCrash, EmptyPool, CountInv, ReservationsBacked, Precreated
<1>5. ASSUME NEW r \in reps, Receive(r) PROVE CountInv'
  <2>0. ~imp.gotDisc /\ r.oid \in Id
    BY Zenon, <1>0, <1>5, Received DEF TypeOK
  <2>1. CASE RpcFailed
    BY Zenon, <1>1, <2>1 DEF RpcFailed, mdtVars
  <2>2. CASE OrphansDone(r.oid)
    BY <1>0, <2>0, <2>2 DEF OrphansDone, mdtVars, PoolAfterOrphans, PoolFrom, Larger, TypeOK, ThreadInv,
         CountInv, Reserving, ReservationsBacked, Precreated, Id
  <2>3. CASE r.oid # NoId /\ PrecreateDone(r.oid)
    <3>1. CASE r.oid > pool.pre /\ pool' = [pool EXCEPT !.created = r.oid]
      <4>1. r.oid >= pool.created /\ UNCHANGED creator
        BY Zenon, <1>0, <1>5, <2>0, <2>3, <3>1 DEF PoolInv, PrecreateDone, mdtVars
      <4>2. pool'.pre = pool.pre /\ pool'.reserved = pool.reserved /\ pool'.created = r.oid
        BY Zenon, <1>0, <3>1 DEF TypeOK
      <4> QED
        BY <1>0, <2>0, <4>1, <4>2 DEF CountInv, Reserving, ReservationsBacked, Precreated, TypeOK, Id
    <3> QED
      BY Zenon, <1>1, <2>3, <3>1 DEF PrecreateDone, mdtVars
  <2> QED
    BY Zenon, <1>5, <2>1, <2>2, <2>3 DEF Receive
<1>6. ASSUME OspStep, ~ \E t \in Creator : CreatorStep(t) PROVE UNCHANGED <<pool, creator>>
  BY Zenon, <1>6 DEF OspStep, MdtCommit, Replay, RecoveryComplete, CheckConnection, NewConnection,
       OrphansDisconnected, OrphansNotSent, RpcLost, RpcFailed, LeaveReady, poolVars, mdtVars
<1>7. ASSUME CleanupOrphans \/ PrecreateObjects \/ Reconnect \/ StatfsReply PROVE UNCHANGED <<pool, creator>>
  BY Zenon, <1>7 DEF CleanupOrphans, SendOrphans, PrecreateObjects, SendPrecreate, Reconnect, Activate,
       StatfsReply, Statfs, poolVars, mdtVars
<1>8. ASSUME UNCHANGED ospVars PROVE UNCHANGED <<pool, creator>>
  BY Zenon, <1>8 DEF ospVars
<1>9. ASSUME LoseConnection PROVE MdtCrash \/ UNCHANGED <<pool, creator>>
  BY ZenonT(40), <1>9 DEF LoseConnection, Disconnect, mdtVars
<1> QED
  BY Zenon, <1>1, <1>3, <1>4, <1>5, <1>6, <1>7, <1>8, <1>9 DEF Step

\* Only these steps change the ids in use and the last_used file.
LEMMA MdtFrame ==
  ASSUME Step
  PROVE  \/ UNCHANGED <<used, mdtVars>>
         \/ \E t \in Creator : CreatorStep(t) /\ UNCHANGED ostVars
         \/ (MdtCommit \/ RecoveryComplete \/ \E x \in replay : Replay(x)) /\ UNCHANGED ostVars
         \/ MdtCrash /\ LoseConnection
<1>1. ASSUME OspStep PROVE \/ UNCHANGED <<used, mdtVars>>
                           \/ \E t \in Creator : CreatorStep(t)
                           \/ MdtCommit \/ RecoveryComplete \/ \E x \in replay : Replay(x)
  BY Zenon, <1>1 DEF OspStep, CheckConnection, NewConnection, OrphansDisconnected,
       OrphansNotSent, RpcLost, RpcFailed, LeaveReady, poolVars, mdtVars
<1>2. ASSUME CleanupOrphans \/ PrecreateObjects \/ Reconnect \/ StatfsReply PROVE UNCHANGED <<used, mdtVars>>
  BY Zenon, <1>2 DEF CleanupOrphans, SendOrphans, PrecreateObjects, SendPrecreate, Reconnect, Activate,
       StatfsReply, Statfs, poolVars, mdtVars
<1>3. ASSUME NEW r \in reps, Receive(r) PROVE UNCHANGED <<used, mdtVars>>
  BY Zenon, <1>3 DEF Receive, RpcFailed, OrphansDone, PrecreateDone
<1>4. ASSUME LoseConnection PROVE MdtCrash \/ UNCHANGED <<used, mdtVars>>
  BY Zenon, <1>4 DEF LoseConnection, Disconnect
<1>5. ASSUME UNCHANGED ospVars PROVE UNCHANGED <<used, mdtVars>>
  BY Zenon, <1>5 DEF ospVars, mdtVars
<1> QED
  BY Zenon, <1>1, <1>2, <1>3, <1>4, <1>5 DEF Step

\* A creating thread that holds a reservation finds an object in the pool.
LEMMA Holder ==
  ASSUME IndInv, NEW t \in Creator, creator[t].pc = "reserved"
  PROVE  /\ pool.reserved > 0 /\ Precreated > 0 /\ used <= pool.pre /\ recovered
         /\ pool.pre + 1 <= pool.created /\ pool.created <= MaxId /\ ~Shut
<1>1. TypeOK /\ CountInv /\ BoundInv /\ ThreadInv /\ t \in Reserving
  BY Zenon DEF IndInv, Reserving
<1>2. pool.reserved > 0
  BY <1>1, Counts DEF CountInv
<1>3. Precreated > 0
  BY <1>1, <1>2 DEF CountInv, ReservationsBacked, Precreated, TypeOK, Id
<1> QED
  BY <1>1, <1>2, <1>3 DEF BoundInv, ThreadInv, Precreated, TypeOK, Id, Shut

\* What the history remembers is never forgotten.
LEMMA Remembered ==
  ASSUME Next
  PROVE  uncovered \subseteq uncovered' /\ strayed \subseteq strayed'
  BY Zenon DEF Next, Remember

\* opd_last_used_fid covers every file, but for those beyond the last_used that a restart
\* read: osp_create may write an older copy of it than the file of another thread needs.
LEMMA FileStep ==
  ASSUME IndInv, Next
  PROVE  FileInv'
<1>0. TypeOK /\ FileInv /\ BoundInv /\ Step /\ uncovered \subseteq uncovered'
  BY Zenon, Remembered DEF IndInv, Next
<1>1. CASE UNCHANGED <<used, mdtVars>>
  BY Zenon, <1>0, <1>1 DEF FileInv, mdtVars
<1>2. ASSUME NEW t \in Creator, Reserve(t) PROVE FileInv'
  BY <1>0, <1>2 DEF FileInv, TypeOK, Reserve
<1>3. ASSUME NEW t \in Creator, Release(t) PROVE FileInv'
  BY <1>0, <1>3 DEF FileInv, TypeOK, Release, Idle, Id
<1>4. ASSUME NEW t \in Creator, GetFid(t) PROVE FileInv'
  <2>1. used <= pool.pre /\ recovered
    BY Zenon, <1>4, Holder DEF GetFid
  <2>2. used' = pool.pre + 1 /\ used' > used
    BY <1>0, <1>4, <2>1 DEF GetFid, Larger, TypeOK, Id
  <2>3. \A u \in Creator : u # t => creator'[u] = creator[u]
    BY Zenon, <1>0, <1>4 DEF GetFid, TypeOK
  <2>4. creator'[t].pc = "taken" /\ creator'[t].id = pool.pre + 1 /\ creator'[t].val = 0
    BY Zenon, <1>0, <1>4 DEF GetFid, TypeOK
  <2>5. UNCHANGED <<mdt, mdtDisk, replay, recovered>>
    BY Zenon, <1>4 DEF GetFid
  <2> QED
    BY <1>0, <2>1, <2>2, <2>3, <2>4, <2>5, SMTT(30) DEF FileInv, TypeOK, Id
<1>5. ASSUME NEW t \in Creator, CopyLastUsed(t) PROVE FileInv'
  BY Zenon, <1>0, <1>5 DEF FileInv, BoundInv, TypeOK, CopyLastUsed, poolVars
<1>6. ASSUME NEW t \in Creator, WriteLastUsed(t) PROVE FileInv'
  <2>1. \A u \in Creator : u # t => creator'[u] = creator[u]
    BY Zenon, <1>0, <1>6 DEF WriteLastUsed, TypeOK
  <2>2. creator'[t].pc = "idle" /\ creator'[t].id = 0 /\ creator'[t].val = 0
    BY Zenon, <1>0, <1>6 DEF WriteLastUsed, Idle, TypeOK
  <2>3. mdt'.file = creator[t].val /\ mdt'.files = mdt.files \union {creator[t].id}
    BY Zenon, <1>6 DEF WriteLastUsed
  <2>4. UNCHANGED <<used, mdtDisk, replay, recovered>>
    BY Zenon, <1>6 DEF WriteLastUsed, poolVars
  <2> QED
    BY <1>0, <2>1, <2>2, <2>3, <2>4, SMTT(30) DEF FileInv, TypeOK, Id
<1>7. CASE MdtCommit
  BY <1>0, <1>7 DEF FileInv, TypeOK, MdtCommit, Id, poolVars
<1>8. CASE RecoveryComplete
  BY Zenon, <1>0, <1>8 DEF FileInv, RecoveryComplete, poolVars
<1>9. ASSUME NEW x \in replay, Replay(x) PROVE FileInv'
  <2>1. used' \in Id /\ used <= used' /\ x <= used' /\ used' <= MaxId
    BY <1>0, <1>9 DEF Replay, Larger, TypeOK, BoundInv, Id
  <2>2. mdt'.file = used' /\ mdt'.files = mdt.files \union {x}
    BY Zenon, <1>9 DEF Replay
  <2>3. UNCHANGED <<creator, mdtDisk, recovered>> /\ ~recovered
    BY Zenon, <1>9 DEF Replay
  <2> QED
    BY <1>0, <2>1, <2>2, <2>3, SMTT(30) DEF FileInv, TypeOK, Id
<1>10. CASE MdtCrash
  <2>1. boots' # boots
    BY <1>0, <1>10 DEF MdtCrash, TypeOK
  <2>2. {x \in mdtDisk.files : x > mdtDisk.file} \subseteq uncovered'
    BY Zenon, <2>1 DEF Next, Remember
  <2>3. mdt' = mdtDisk /\ mdtDisk' = mdtDisk /\ used' = mdtDisk.file /\ recovered' = FALSE
    BY Zenon, <1>10 DEF MdtCrash
  <2>4. \A t \in Creator : creator'[t].pc = "idle" /\ creator'[t].id = 0 /\ creator'[t].val = 0
    BY Zenon, <1>10 DEF MdtCrash, Idle
  <2> QED
    BY <1>0, <2>2, <2>3, <2>4, SMTT(30) DEF FileInv, TypeOK, Id
<1> QED
  BY Zenon, <1>0, <1>1, <1>2, <1>3, <1>4, <1>5, <1>6, <1>7, <1>8, <1>9, <1>10, MdtFrame DEF CreatorStep

\* What the create handler does to LAST_ID, to a request and to the replies.
LEMMA CreateEffect ==
  ASSUME IndInv, NEW r \in reqs, DelOrphan(r) \/ Precreate(r)
  PROVE  /\ reqs' = reqs \ {r} /\ UNCHANGED <<ostDisk, exp>>
         /\ ost'.last \in Id /\ ost.last <= ost'.last /\ ost'.last <= MaxId
         /\ \/ reps' = reps
            \/ \E o \in Id : /\ r.exp = exp.id /\ r.conn = exp.conn
                             /\ reps' = reps \cup {[type |-> r.type, oid |-> o]}
                             /\ r.type = "precreate" => o = NoId \/ o = ost'.last
                             /\ r.type = "delorphan" => o >= ost'.last
<1>0. /\ TypeOK /\ BoundInv /\ r.oid \in Id /\ ost.last \in Id /\ ost.last <= MaxId /\ r.oid <= MaxId
      /\ (r.st = "locking" => r.type = "delorphan")
  BY Zenon DEF IndInv, TypeOK, BoundInv, ConnInv
<1>1. CASE DelOrphan(r)
  <2>1. CASE /\ \E o \in {ost.last, ost.last + 1} : ReplyTo(r, o)
             /\ ost'.last = ost.last
    BY <1>0, <1>1, <2>1, SMTT(30) DEF DelOrphan, ReplyTo, Id, NoId
  <2>2. ASSUME NEW upto \in ost.last .. r.oid, Create(upto), ReplyTo(r, upto)
        PROVE  /\ reqs' = reqs \ {r} /\ ost'.last = upto /\ upto \in Id /\ ost.last <= upto /\ upto <= MaxId
               /\ \/ reps' = reps
                  \/ /\ r.exp = exp.id /\ r.conn = exp.conn
                     /\ reps' = reps \cup {[type |-> r.type, oid |-> upto]}
    BY <1>0, <2>2 DEF ReplyTo, Id, Create
  <2>3. OrphansDestroy(r.oid) => ost'.last = ost.last
    BY Zenon, <1>0 DEF OrphansDestroy, TypeOK
  <2> QED
    BY SMTT(60), <1>0, <1>1, <2>1, <2>2, <2>3 DEF DelOrphan
<1>2. CASE Precreate(r)
  <2>1. CASE reqs' = reqs \ {r} /\ UNCHANGED <<ost, reps>>
    BY <1>0, <1>2, <2>1 DEF Precreate, Id
  <2>2. ASSUME NEW upto \in {ost.last} \union (ost.last .. r.oid), Create(upto),
               ReplyTo(r, IF r.oid < ost.last THEN NoId ELSE upto)
        PROVE  /\ reqs' = reqs \ {r} /\ ost'.last = upto /\ upto \in Id /\ ost.last <= upto /\ upto <= MaxId
               /\ \/ reps' = reps
                  \/ /\ r.exp = exp.id /\ r.conn = exp.conn
                     /\ \E o \in {NoId, upto} : reps' = reps \cup {[type |-> r.type, oid |-> o]}
    BY <1>0, <2>2 DEF ReplyTo, Id, Create
  <2>3. NoId \in Id
    BY DEF NoId, Id
  <2> QED
    BY Zenon, <1>0, <1>2, <2>1, <2>2, <2>3 DEF Precreate
<1> QED
  BY Zenon, <1>1, <1>2

\* No id beyond the sequence is used, sent or created: osp_precreate_fids ends at its last id.
LEMMA BoundStep ==
  ASSUME IndInv, Step
  PROVE  BoundInv'
<1>0. TypeOK /\ BoundInv /\ FileInv /\ TypeOK'
  BY Zenon, TypeStep DEF IndInv
<1>1. used' <= MaxId /\ \A x \in mdt'.files \union replay' : x <= MaxId
  <2>1. ASSUME NEW t \in Creator, CreatorStep(t)
        PROVE  used' <= MaxId /\ \A x \in mdt'.files \union replay' : x <= MaxId
    <3>1. CASE GetFid(t)
      <4>1. pool.pre + 1 <= MaxId
        BY <1>0, <3>1, Holder, SMTT(30) DEF GetFid, TypeOK, Id
      <4> QED
        BY Zenon, <1>0, <3>1, <4>1 DEF GetFid, Larger, BoundInv
    <3>2. CASE WriteLastUsed(t)
      <4>1. creator[t].id <= MaxId
        BY <1>0, SMTT(30) DEF FileInv, BoundInv, TypeOK, Id
      <4> QED
        BY Zenon, <1>0, <3>2, <4>1 DEF WriteLastUsed, BoundInv, poolVars
    <3> QED
      BY Zenon, <1>0, <2>1, <3>1, <3>2 DEF CreatorStep, Reserve, Release, CopyLastUsed, poolVars, BoundInv
  <2>2. ASSUME MdtCommit \/ RecoveryComplete \/ \E x \in replay : Replay(x)
        PROVE  used' <= MaxId /\ \A x \in mdt'.files \union replay' : x <= MaxId
    <3>1. ASSUME NEW x \in replay, Replay(x) PROVE used' <= MaxId /\ mdt'.files \union replay' \subseteq mdt.files \union replay
      <4>1. used' \in {used, x}
        BY Zenon, <3>1 DEF Replay, Larger
      <4>2. mdt'.files = mdt.files \union {x} /\ replay' \subseteq replay
        BY Zenon, <3>1 DEF Replay
      <4> QED
        BY Zenon, <1>0, <3>1, <4>1, <4>2 DEF BoundInv
    <3>2. CASE MdtCommit \/ RecoveryComplete
      BY Zenon, <1>0, <3>2 DEF MdtCommit, RecoveryComplete, BoundInv, poolVars
    <3> QED
      BY Zenon, <1>0, <2>2, <3>1, <3>2 DEF BoundInv
  <2>3. CASE MdtCrash
    BY Zenon, <1>0, <2>3 DEF MdtCrash, FileInv, BoundInv
  <2>4. CASE UNCHANGED <<used, mdtVars>>
    BY Zenon, <1>0, <2>4 DEF mdtVars, BoundInv
  <2> QED
    BY Zenon, <1>0, <2>1, <2>2, <2>3, <2>4, MdtFrame
<1>2. (pool.created - pool.pre > 0 => pool.created <= MaxId)'
  <2>1. CASE UNCHANGED pool
    BY Zenon, <1>0, <2>1 DEF BoundInv, Precreated
  <2>2. ASSUME NEW t \in Creator, CreatorStep(t) PROVE (pool.created - pool.pre > 0 => pool.created <= MaxId)'
    <3>1. CASE GetFid(t)
      BY Zenon, <1>0, <3>1, Holder DEF GetFid
    <3>2. CASE Reserve(t) \/ Release(t)
      BY SMTT(60), <1>0, <3>2 DEF Reserve, Release, TypeOK, BoundInv, Precreated
    <3> QED
      BY Zenon, <2>1, <2>2, <3>1, <3>2 DEF CreatorStep, CopyLastUsed, WriteLastUsed, poolVars
  <2>3. ASSUME NEW r \in reps, Receive(r) PROVE (pool.created - pool.pre > 0 => pool.created <= MaxId)'
    <3>1. CASE r.type = "precreate" /\ PrecreateDone(r.oid)
      BY Zenon, <1>0, <3>1 DEF PrecreateDone, BoundInv, TypeOK, Precreated
    <3>2. CASE OrphansDone(r.oid)
      BY SMTT(60), <1>0, <3>2 DEF OrphansDone, PoolAfterOrphans, PoolFrom, Larger, TypeOK, Id
    <3> QED
      BY Zenon, <2>1, <2>3, <3>1, <3>2 DEF Receive, RpcFailed
  <2>4. CASE MdtCrash
    BY <2>4, SMTT(30) DEF MdtCrash, EmptyPool
  <2>5. ASSUME OspStep, ~ \E t \in Creator : CreatorStep(t) PROVE UNCHANGED pool
    BY Zenon, <2>5 DEF OspStep, MdtCommit, Replay, RecoveryComplete, CheckConnection, NewConnection,
         OrphansDisconnected, OrphansNotSent, RpcLost, RpcFailed, LeaveReady, poolVars
  <2>6. ASSUME CleanupOrphans \/ PrecreateObjects \/ Reconnect \/ StatfsReply PROVE UNCHANGED pool
    BY Zenon, <2>6 DEF CleanupOrphans, SendOrphans, PrecreateObjects, SendPrecreate, Reconnect, Activate,
         StatfsReply, Statfs, poolVars
  <2> QED
    BY Zenon, <2>1, <2>2, <2>3, <2>4, <2>5, <2>6 DEF Step, ospVars, LoseConnection, Disconnect
<1> DEFINE OstBound == /\ ost'.last <= MaxId /\ ostDisk'.last <= MaxId
                       /\ \A r \in reqs' : r.oid <= MaxId
                       /\ \A p \in reps' : p.type = "precreate" => p.oid <= MaxId
<1>3. OstBound
  <2>1. ASSUME UNCHANGED <<ost, ostDisk>>, reqs' \subseteq reqs, reps' \subseteq reps
        PROVE  OstBound
    BY Zenon, <1>0, <2>1 DEF BoundInv
  <2>2. ASSUME NEW r \in reqs, Accept(r) \/ Refuse(r) \/ CheckOrphan(r) \/ RaiseDestroys(r)
        PROVE  OstBound
    <3>1. r.oid <= MaxId /\ \A st : [r EXCEPT !.st = st].oid = r.oid
      BY <1>0 DEF BoundInv, TypeOK
    <3>2. reqs' \subseteq reqs \/ \E st : reqs' = (reqs \ {r}) \cup {[r EXCEPT !.st = st]}
      BY Zenon, <2>2 DEF Accept, Refuse, CheckOrphan, RaiseDestroys, Move, ReplyTo
    <3>3. UNCHANGED <<ost, ostDisk>> /\ (reps' = reps \/ reps' = reps \cup {[type |-> r.type, oid |-> 0]})
      BY Zenon, <2>2 DEF Accept, Refuse, CheckOrphan, RaiseDestroys, Move, ReplyTo, NoId
    <3>4. \A q \in reqs' : q.oid <= MaxId
      BY Zenon, <1>0, <3>1, <3>2 DEF BoundInv
    <3>5. \A p \in reps' : p.type = "precreate" => p.oid <= MaxId
      BY <1>0, <3>3 DEF BoundInv
    <3> QED
      BY Zenon, <1>0, <3>3, <3>4, <3>5 DEF BoundInv
  <2>3. ASSUME NEW r \in reqs, DelOrphan(r) \/ Precreate(r) PROVE OstBound
    <3>1. /\ reqs' = reqs \ {r} /\ UNCHANGED <<ostDisk, exp>> /\ ost'.last \in Id /\ ost'.last <= MaxId
          /\ \/ reps' = reps
             \/ \E o \in Id : /\ reps' = reps \cup {[type |-> r.type, oid |-> o]}
                              /\ r.type = "precreate" => o = NoId \/ o = ost'.last
      BY Zenon, <2>3, CreateEffect
    <3> QED
      BY <1>0, <3>1 DEF BoundInv, NoId, Id
  <2>4. CASE OstCommit \/ OstCrash
    BY Zenon, <1>0, <2>4 DEF OstCommit, OstCrash, BoundInv
  <2>5. CASE CleanupOrphans
    BY <1>0, <2>5 DEF CleanupOrphans, Send, BoundInv
  <2>6. CASE PrecreateObjects
    <3>1. PICK grow \in CreateCounts : Send("precreate", UpTo(grow))
      BY Zenon, <2>6 DEF PrecreateObjects
    <3>2. UpTo(grow) <= MaxId
      BY <1>0, SMTT(30) DEF UpTo, TypeOK, Id
    <3> QED
      BY <1>0, <2>6, <3>1, <3>2 DEF PrecreateObjects, Send, BoundInv
  <2>7. CASE LoseConnection \/ Reconnect \/ StatfsReply \/ \E r \in reps : Receive(r)
    BY Zenon, <2>1, <2>7 DEF LoseConnection, Reconnect, Connect, StatfsReply, Receive, ostVars
  <2>8. CASE UNCHANGED ostVars
    BY Zenon, <2>1, <2>8 DEF ostVars
  <2> QED
    BY Zenon, <2>2, <2>3, <2>4, <2>5, <2>6, <2>7, <2>8 DEF Step, OstNext
<1> QED
  BY Zenon, <1>1, <1>2, <1>3 DEF BoundInv, Precreated

\* osp_precreate_thread opens the pool only after a cleanup, and the pool then starts at or
\* after opd_last_used_fid.
LEMMA ThreadStepInv ==
  ASSUME IndInv, Step
  PROVE  ThreadInv'
<1>0. TypeOK /\ ThreadInv /\ CountInv /\ FileInv
  BY Zenon DEF IndInv
<1> USE DEF ThreadInv, Precreated
<1>1. ASSUME NEW t \in Creator, Reserve(t) PROVE ThreadInv'
  BY Zenon, <1>0, <1>1 DEF Reserve, CanReserve, TypeOK
<1>2. ASSUME NEW t \in Creator, Release(t) PROVE ThreadInv'
  <2>1. pool.reserved > 0
    BY Zenon, <1>2, Holder DEF Release
  <2> QED
    BY <1>0, <1>2, <2>1 DEF Release, TypeOK
<1>3. ASSUME NEW t \in Creator, GetFid(t) PROVE ThreadInv'
  <2>1. pool.reserved > 0 /\ used <= pool.pre /\ recovered
    BY Zenon, <1>3, Holder DEF GetFid
  <2> QED
    BY <1>0, <1>3, <2>1, SMTT(30) DEF GetFid, TypeOK, Larger, Id
<1>4. ASSUME NEW t \in Creator, CopyLastUsed(t) \/ WriteLastUsed(t) PROVE ThreadInv'
  BY <1>0, <1>4 DEF CopyLastUsed, WriteLastUsed, poolVars
<1>5. CASE MdtCommit \/ RecoveryComplete \/ \E x \in replay : Replay(x)
  BY <1>0, <1>5 DEF MdtCommit, RecoveryComplete, Replay, poolVars
<1>6. CASE CheckConnection \/ NewConnection \/ OrphansDisconnected \/ OrphansNotSent \/ RpcLost \/ LeaveReady
  BY <1>0, <1>6 DEF CheckConnection, Retry, NewConnection, OrphansDisconnected, OrphansNotSent, RpcLost,
       RpcFailed, LeaveReady, poolVars, mdtVars
<1>7. CASE CleanupOrphans \/ PrecreateObjects \/ Reconnect \/ StatfsReply
  BY <1>0, <1>7 DEF CleanupOrphans, SendOrphans, OrphansReady, PrecreateObjects, SendPrecreate, Reconnect,
       Activate, StatfsReply, Statfs, poolVars, mdtVars
<1>8. CASE LoseConnection
  BY <1>0, <1>8, SMTT(30) DEF LoseConnection, Disconnect, MdtCrash, EmptyPool, mdtVars
<1>9. ASSUME NEW r \in reps, Receive(r) PROVE ThreadInv'
  <2>0. imp.connected /\ r.oid \in Id
    BY Zenon, <1>0, <1>9 DEF Receive, TypeOK
  <2>1. CASE RpcFailed
    BY Zenon, <1>0, <2>1 DEF RpcFailed, mdtVars
  <2>2. CASE OrphansDone(r.oid)
    BY <1>0, <2>0, <2>2 DEF OrphansDone, PoolAfterOrphans, PoolFrom, Larger, mdtVars, TypeOK, Id
  <2>3. CASE PrecreateDone(r.oid)
    BY Zenon, <1>0, <2>0, <2>3 DEF PrecreateDone, mdtVars, TypeOK
  <2> QED
    BY Zenon, <1>9, <2>1, <2>2, <2>3 DEF Receive
<1>10. CASE UNCHANGED ospVars
  BY Zenon, <1>0, <1>10 DEF ospVars
<1> QED
  BY Zenon, <1>1, <1>2, <1>3, <1>4, <1>5, <1>6, <1>7, <1>8, <1>9, <1>10 DEF Step, OspStep, CreatorStep

\* What a thread of the OST does to a request before it has os_create_lock.
LEMMA MoveEffect ==
  ASSUME TypeOK, NEW r \in reqs, Accept(r) \/ CheckOrphan(r) \/ RaiseDestroys(r)
  PROVE  /\ UNCHANGED <<ost, ostDisk, exp, reps>>
         /\ \/ reqs' = reqs \ {r}
            \/ \E q : /\ reqs' = (reqs \ {r}) \cup {q}
                      /\ q.type = r.type /\ q.oid = r.oid /\ q.exp = r.exp /\ q.conn = r.conn
                      /\ \/ q.st = "thread" /\ r.exp = exp.id /\ r.conn = exp.conn
                         \/ r.st = "thread" /\ r.type = "delorphan" /\ q.st = "checked" /\ ~OldConnection(r)
                         \/ r.st = "checked" /\ q.st = "locking"
<1>1. r \in [type : {"delorphan", "precreate"}, oid : Id, exp : 1 .. MdtCrashes + 1,
             conn : 0 .. MaxConn, st : {"net", "thread", "checked", "locking"}]
  BY Zenon DEF TypeOK
<1> DEFINE Q(st) == [r EXCEPT !.st = st]
<1>2. \A st : Q(st).type = r.type /\ Q(st).oid = r.oid /\ Q(st).exp = r.exp /\ Q(st).conn = r.conn /\ Q(st).st = st
  BY Zenon, <1>1
<1>3. CASE Accept(r)
  <2>1. /\ UNCHANGED <<ost, ostDisk, exp, reps>> /\ reqs' = (reqs \ {r}) \cup {Q("thread")}
        /\ r.exp = exp.id /\ r.conn = exp.conn
    BY Zenon, <1>3 DEF Accept, Move
  <2> HIDE DEF Q
  <2> QED
    BY Zenon, <1>2, <2>1
<1>4. CASE CheckOrphan(r)
  <2>1. /\ UNCHANGED <<ost, ostDisk, exp, reps>> /\ r.st = "thread" /\ r.type = "delorphan"
        /\ reqs' = reqs \ {r} \/ (~OldConnection(r) /\ reqs' = (reqs \ {r}) \cup {Q("checked")})
    BY Zenon, <1>4 DEF CheckOrphan, Move
  <2> HIDE DEF Q
  <2> QED
    BY Zenon, <1>2, <2>1
<1>5. CASE RaiseDestroys(r)
  BY ZenonT(40), <1>2, <1>5 DEF RaiseDestroys, Move
<1> QED
  BY Zenon, <1>3, <1>4, <1>5

\* The two sides agree on who is connected, unless one of them crashed.
LEMMA ConnStep ==
  ASSUME IndInv, Step
  PROVE  ConnInv'
<1>0. TypeOK /\ ConnInv /\ ThreadInv
  BY Zenon DEF IndInv
<1> USE DEF ConnInv, Live
<1>1. ASSUME UNCHANGED <<imp, boots, exp>>, reqs' \subseteq reqs PROVE ConnInv'
  BY Zenon, <1>0, <1>1
<1>2. ASSUME NEW r \in reqs, Accept(r) \/ CheckOrphan(r) \/ RaiseDestroys(r), UNCHANGED ospVars PROVE ConnInv'
  <2>1. UNCHANGED <<imp, boots, exp>>
    BY Zenon, <1>0, <1>2, MoveEffect DEF ospVars
  <2>2. ASSUME NEW q, reqs' = (reqs \ {r}) \cup {q},
               q.type = r.type, q.oid = r.oid, q.exp = r.exp, q.conn = r.conn,
               \/ q.st = "thread" /\ r.exp = exp.id /\ r.conn = exp.conn
               \/ r.st = "thread" /\ r.type = "delorphan" /\ q.st = "checked" /\ ~OldConnection(r)
               \/ r.st = "checked" /\ q.st = "locking"
        PROVE  ConnInv'
    BY <1>0, <2>1, <2>2 DEF OldConnection, TypeOK
  <2> HIDE DEF ConnInv
  <2> QED
    BY <1>0, <1>1, <1>2, <2>1, <2>2, MoveEffect
<1>3. ASSUME NEW r \in reqs, Refuse(r) \/ DelOrphan(r) \/ Precreate(r), UNCHANGED ospVars PROVE ConnInv'
  <2>1. UNCHANGED exp /\ reqs' \subseteq reqs
    BY Zenon, <1>3, CreateEffect DEF Refuse, ReplyTo
  <2> QED
    BY Zenon, <1>1, <1>3, <2>1 DEF ospVars
<1>4. CASE OstCommit /\ UNCHANGED ospVars
  BY Zenon, <1>1, <1>4 DEF OstCommit, ospVars
<1>5. CASE OstCrash /\ UNCHANGED ospVars
  BY <1>0, <1>5, SMTT(30) DEF OstCrash, ospVars, TypeOK
<1>6. CASE NewConnection /\ UNCHANGED ostVars
  BY Zenon, <1>0, <1>6 DEF NewConnection, mdtVars, ostVars
<1>7. CASE OspStep /\ ~NewConnection /\ UNCHANGED ostVars
  <2>1. UNCHANGED <<imp, boots>>
    BY Zenon, <1>7 DEF OspStep, CreatorStep, Reserve, Release, GetFid, CopyLastUsed, WriteLastUsed,
         MdtCommit, Replay, RecoveryComplete, CheckConnection, OrphansDisconnected, OrphansNotSent,
         RpcLost, RpcFailed, LeaveReady, mdtVars
  <2> QED
    BY Zenon, <1>1, <1>7, <2>1 DEF ostVars
<1>8. CASE CleanupOrphans
  BY SMTT(60), <1>0, <1>8 DEF CleanupOrphans, SendOrphans, Send, mdtVars, TypeOK
<1>9. CASE PrecreateObjects
  <2>1. PICK grow \in CreateCounts : SendPrecreate(grow) /\ Send("precreate", UpTo(grow))
    BY Zenon, <1>9 DEF PrecreateObjects
  <2> QED
    BY <1>0, <1>9, <2>1, SMTT(30) DEF PrecreateObjects, SendPrecreate, Send, mdtVars, TypeOK
<1>10. CASE LoseConnection
  <2> DEFINE i(n) == [conn |-> imp.conn, connected |-> FALSE, gotDisc |-> TRUE, newConn |-> n]
  <2>1. /\ exp' = exp /\ reqs' = reqs
        /\ (imp' = i(imp.newConn) /\ boots' = boots) \/ imp' = i(FALSE)
    BY Zenon, <1>10 DEF LoseConnection, Disconnect, MdtCrash, mdtVars
  <2>2. \A n : i(n).conn = imp.conn /\ i(n).connected = FALSE /\ i(n).gotDisc = TRUE /\ i(n).newConn = n
    BY Zenon
  <2> HIDE DEF i
  <2>3. /\ imp'.conn = imp.conn /\ imp'.connected = FALSE /\ imp'.gotDisc = TRUE
        /\ (imp'.newConn = imp.newConn /\ boots' = boots) \/ imp'.newConn = FALSE
    BY <2>1, <2>2
  <2> QED
    BY <1>0, <2>1, <2>3
<1>11. CASE Reconnect
  BY <1>0, <1>11, SMTT(30) DEF Reconnect, Activate, Connect, mdtVars, TypeOK
<1>12. CASE StatfsReply \/ \E r \in reps : Receive(r)
  <2>1. UNCHANGED <<imp, boots, exp, reqs>>
    BY Zenon, <1>12 DEF StatfsReply, Statfs, Receive, RpcFailed, OrphansDone, PrecreateDone, mdtVars, ostVars
  <2> QED
    BY Zenon, <1>1, <2>1
<1> QED
  BY Zenon, <1>2, <1>3, <1>4, <1>5, <1>6, <1>7, <1>8, <1>9, <1>10, <1>11, <1>12 DEF Step, OstNext

-----------------------------------------------------------------------------
(* The two sides together.                                                 *)

\* A request whose reply is sent to the live import is the one it waits for.
LEMMA Answering ==
  ASSUME IndInv, Live, NEW r \in reqs, r.exp = exp.id, r.conn = exp.conn
  PROVE  /\ r.conn = imp.conn
         /\ imp.connected \/ ~imp.gotDisc =>
              /\ ~imp.gotDisc /\ Waiting /\ r.type = pc /\ reps = {}
              /\ \A q \in reqs : q.conn = imp.conn => q = r
<1>1. r.conn = imp.conn
  BY DEF IndInv, ConnInv, TypeOK
<1>2. ASSUME imp.connected \/ ~imp.gotDisc
      PROVE  /\ ~imp.gotDisc /\ Waiting /\ r.type = pc /\ reps = {}
             /\ \A q \in reqs : q.conn = imp.conn => q = r
  <2>1. ~imp.gotDisc /\ Waiting
    BY Zenon, <1>1, <1>2 DEF IndInv, RpcInv, Quiet
  <2>2. Outstanding
    BY Zenon, <2>1 DEF IndInv, RpcInv
  <2> QED
    BY Zenon, <1>1, <2>1, <2>2 DEF Outstanding
<1> QED
  BY Zenon, <1>1, <1>2

\* osp_precreate_thread has at most one RPC in flight on its connection.
LEMMA RpcStep ==
  ASSUME IndInv, Step
  PROVE  RpcInv'
<1>0. TypeOK /\ RpcInv /\ ConnInv /\ ThreadInv
  BY Zenon DEF IndInv
<1> USE DEF RpcInv, Waiting
<1>1. ASSUME UNCHANGED <<imp, pc>>, reqs' \subseteq reqs, reps' \subseteq reps PROVE RpcInv'
  BY Zenon, <1>0, <1>1 DEF Quiet, Outstanding
<1>2. ASSUME NEW r \in reqs, Accept(r) \/ CheckOrphan(r) \/ RaiseDestroys(r), UNCHANGED ospVars PROVE RpcInv'
  <2>1. UNCHANGED <<imp, pc, reps>>
    BY Zenon, <1>0, <1>2, MoveEffect DEF ospVars
  <2>2. ASSUME NEW q, reqs' = (reqs \ {r}) \cup {q}, q.type = r.type, q.conn = r.conn PROVE RpcInv'
    BY <1>0, <2>1, <2>2 DEF Quiet, Outstanding
  <2> QED
    BY Zenon, <1>0, <1>1, <1>2, <2>1, <2>2, MoveEffect
<1>3. ASSUME NEW r \in reqs, Refuse(r) \/ DelOrphan(r) \/ Precreate(r), UNCHANGED ospVars PROVE RpcInv'
  <2>1. /\ reqs' = reqs \ {r}
        /\ \/ reps' = reps
           \/ \E o : r.exp = exp.id /\ r.conn = exp.conn /\ reps' = reps \cup {[type |-> r.type, oid |-> o]}
    <3>1. CASE Refuse(r)
      BY Zenon, <3>1 DEF Refuse, ReplyTo
    <3> QED
      BY Zenon, <1>3, <3>1, CreateEffect
  <2>2. UNCHANGED <<imp, pc>>
    BY Zenon, <1>3 DEF ospVars
  <2>3. CASE reps' = reps
    BY Zenon, <1>1, <2>1, <2>2, <2>3
  <2>4. ASSUME NEW o, r.exp = exp.id, r.conn = exp.conn, reps' = reps \cup {[type |-> r.type, oid |-> o]}
        PROVE  RpcInv'
    <3>1. ASSUME Live, imp.connected \/ ~imp.gotDisc PROVE RpcInv'
      <4>1. /\ ~imp.gotDisc /\ Waiting /\ r.type = pc /\ reps = {} /\ r.conn = imp.conn
            /\ \A q \in reqs : q.conn = imp.conn => q = r
        BY Zenon, <2>4, <3>1, Answering
      <4>2. \A q \in reqs' : q.conn # imp.conn
        BY Zenon, <4>1, <2>1
      <4> QED
        BY <1>0, <2>2, <2>4, <4>1, <4>2 DEF Outstanding, ConnInv
    <3>2. CASE imp.newConn
      <4>1. r.conn = imp.conn
        BY Zenon, <2>4, <3>2, Answering DEF Live
      <4> QED
        BY Zenon, <1>0, <3>2, <4>1 DEF Quiet
    <3> QED
      BY Zenon, <2>2, <3>1, <3>2 DEF Live
  <2> QED
    BY Zenon, <2>1, <2>3, <2>4
<1>4. CASE (OstCommit \/ OstCrash) /\ UNCHANGED ospVars
  BY Zenon, <1>1, <1>4 DEF OstCommit, OstCrash, ospVars
<1>5. CASE OspStep /\ UNCHANGED ostVars
  <2>1. CASE CheckConnection \/ NewConnection \/ OrphansDisconnected \/ OrphansNotSent \/ RpcLost \/ LeaveReady
    BY <1>0, <1>5, <2>1 DEF CheckConnection, NewConnection, OrphansDisconnected, OrphansNotSent, RpcLost,
         RpcFailed, LeaveReady, Quiet, Outstanding, ostVars
  <2>2. ASSUME ~(CheckConnection \/ NewConnection \/ OrphansDisconnected \/ OrphansNotSent \/ RpcLost \/ LeaveReady)
        PROVE  UNCHANGED <<imp, pc>>
    BY Zenon, <1>5, <2>2 DEF OspStep, CreatorStep, Reserve, Release, GetFid, CopyLastUsed, WriteLastUsed,
         MdtCommit, Replay, RecoveryComplete
  <2> QED
    BY Zenon, <1>1, <1>5, <2>1, <2>2 DEF ostVars
<1>6. ASSUME NEW type \in {"delorphan", "precreate"}, NEW oid, Send(type, oid), pc' = type,
             UNCHANGED <<imp, reps>>, pc \in {"orphans", "ready"}, ~imp.gotDisc
      PROVE  RpcInv'
  <2>1. Quiet
    BY Zenon, <1>0, <1>6
  <2> QED
    BY <1>0, <1>6, <2>1 DEF Quiet, Outstanding, Send, ConnInv
<1>7. CASE CleanupOrphans
  BY Zenon, <1>6, <1>7 DEF CleanupOrphans, SendOrphans
<1>8. CASE PrecreateObjects
  BY Zenon, <1>6, <1>8 DEF PrecreateObjects, SendPrecreate
<1>9. CASE LoseConnection
  <2>1. reps' = {} /\ reqs' = reqs
    BY Zenon, <1>9 DEF LoseConnection
  <2>2. /\ imp'.conn = imp.conn /\ imp'.connected = FALSE /\ imp'.gotDisc = TRUE
        /\ imp'.newConn = FALSE \/ imp'.newConn = imp.newConn
    <3>1. CASE Disconnect
      BY Zenon, <3>1 DEF Disconnect
    <3>2. CASE MdtCrash
      BY Zenon, <3>2 DEF MdtCrash
    <3> QED
      BY Zenon, <1>9, <3>1, <3>2 DEF LoseConnection
  <2> QED
    BY Zenon, <1>0, <2>1, <2>2 DEF Quiet, Outstanding
<1>10. CASE Reconnect
  <2>1. Quiet'
    BY <1>0, <1>10, SMTT(30) DEF Reconnect, Activate, Connect, Quiet, ConnInv, TypeOK
  <2> QED
    BY Zenon, <2>1 DEF Quiet, Outstanding
<1>11. CASE StatfsReply
  BY Zenon, <1>1, <1>11 DEF StatfsReply, Statfs, ostVars
<1>12. ASSUME NEW r \in reps, Receive(r) PROVE RpcInv'
  <2>1. reps' = {} /\ \A q \in reqs : q.conn # imp.conn
    BY Zenon, <1>12, Received
  <2>2. UNCHANGED <<imp, reqs>>
    BY Zenon, <1>12 DEF Receive, RpcFailed, OrphansDone, PrecreateDone
  <2> QED
    BY Zenon, <2>1, <2>2 DEF Quiet, Outstanding
<1> QED
  BY Zenon, <1>2, <1>3, <1>4, <1>5, <1>7, <1>8, <1>9, <1>10, <1>11, <1>12 DEF Step, OstNext

\* While the two sides are in touch, what the pool has was created by the OST.
LEMMA PoolStep ==
  ASSUME IndInv, Step
  PROVE  PoolInv'
<1>0. TypeOK /\ PoolInv /\ ConnInv /\ ThreadInv /\ RpcInv
  BY Zenon DEF IndInv
<1> USE DEF PoolInv
<1>1. ASSUME NEW t \in Creator, CreatorStep(t), UNCHANGED ostVars PROVE PoolInv'
  <2>1. CASE GetFid(t)
    <3>1. pool.pre + 1 <= pool.created
      BY Zenon, <2>1, Holder DEF GetFid
    <3> QED
      BY <1>0, <1>1, <2>1, <3>1, SMTT(30) DEF GetFid, TypeOK, Id, ostVars
  <2>2. CASE Reserve(t) \/ Release(t)
    BY <1>0, <1>1, <2>2 DEF Reserve, Release, TypeOK, ostVars
  <2>3. CASE CopyLastUsed(t) \/ WriteLastUsed(t)
    BY Zenon, <1>0, <1>1, <2>3 DEF CopyLastUsed, WriteLastUsed, poolVars, ostVars
  <2> QED
    BY Zenon, <1>1, <2>1, <2>2, <2>3 DEF CreatorStep
<1>2. CASE OspStep /\ UNCHANGED ostVars /\ ~ \E t \in Creator : CreatorStep(t)
  <2>1. UNCHANGED pool
    BY Zenon, <1>2 DEF OspStep, MdtCommit, Replay, RecoveryComplete, CheckConnection, NewConnection,
         OrphansDisconnected, OrphansNotSent, RpcLost, RpcFailed, LeaveReady, poolVars
  <2>2. \/ UNCHANGED <<imp, pc>>
        \/ pc' \notin {"ready", "precreate"}
        \/ imp'.gotDisc
    BY Zenon, <1>2 DEF OspStep, MdtCommit, Replay, RecoveryComplete, CheckConnection, NewConnection,
         OrphansDisconnected, OrphansNotSent, RpcLost, RpcFailed, LeaveReady
  <2> QED
    BY Zenon, <1>0, <1>2, <2>1, <2>2 DEF ostVars
<1>3. CASE CleanupOrphans
  BY Zenon, <1>3 DEF CleanupOrphans, SendOrphans
<1>4. CASE PrecreateObjects
  <2>1. pc = "ready" /\ ~imp.gotDisc /\ pc' = "precreate" /\ UNCHANGED <<pool, imp, exp, ost, reps>>
    BY Zenon, <1>4 DEF PrecreateObjects, SendPrecreate, poolVars
  <2>2. reps = {}
    BY Zenon, <1>0, <2>1 DEF RpcInv, Quiet, Waiting
  <2> QED
    BY Zenon, <1>0, <2>1, <2>2
<1>5. CASE LoseConnection
  BY <1>5 DEF LoseConnection, Disconnect, MdtCrash
<1>6. CASE Reconnect
  BY Zenon, <1>0, <1>6 DEF Reconnect, Activate, ThreadInv
<1>7. CASE StatfsReply
  BY Zenon, <1>0, <1>7 DEF StatfsReply, Statfs, ostVars
<1>8. ASSUME NEW r \in reps, Receive(r) PROVE PoolInv'
  <2>0. ~imp.gotDisc /\ r.type = pc /\ reps' = {} /\ r.oid \in Id /\ UNCHANGED <<imp, ost, exp>>
    <3>1. UNCHANGED <<imp, ost, exp>>
      BY Zenon, <1>8 DEF Receive, RpcFailed, OrphansDone, PrecreateDone
    <3> QED
      BY Zenon, <1>0, <1>8, <3>1, Received DEF TypeOK
  <2>1. CASE RpcFailed
    BY Zenon, <1>0, <2>0, <2>1 DEF RpcFailed
  <2>2. CASE OrphansDone(r.oid)
    BY Zenon, <2>0, <2>2 DEF OrphansDone, PoolAfterOrphans, PoolFrom
  <2>3. CASE r.oid # NoId /\ PrecreateDone(r.oid)
    BY Zenon, <1>0, <2>0, <2>3 DEF PrecreateDone, TypeOK
  <2> QED
    BY Zenon, <1>8, <2>1, <2>2, <2>3 DEF Receive
<1>9. ASSUME NEW r \in reqs, Accept(r) \/ CheckOrphan(r) \/ RaiseDestroys(r), UNCHANGED ospVars PROVE PoolInv'
  BY <1>0, <1>9, MoveEffect DEF ospVars
<1>10. ASSUME NEW r \in reqs, Refuse(r), UNCHANGED ospVars PROVE PoolInv'
  BY <1>0, <1>10 DEF Refuse, ReplyTo, NoId, ospVars
<1>11. ASSUME NEW r \in reqs, DelOrphan(r) \/ Precreate(r), UNCHANGED ospVars PROVE PoolInv'
  <2>1. UNCHANGED <<pc, imp, pool, exp>> /\ ost'.last \in Id /\ ost.last <= ost'.last
    BY Zenon, <1>11, CreateEffect DEF ospVars
  <2>2. (pc \in {"ready", "precreate"} /\ ~imp.gotDisc /\ exp.conn = imp.conn
           => pool.pre = pool.created \/ pool.created <= ost.last)'
    BY <1>0, <2>1 DEF TypeOK, Id
  <2>3. ASSUME pc = "precreate", ~imp.gotDisc, NEW p \in reps', p.oid # NoId
        PROVE  /\ p.oid > pool.pre => p.oid >= pool.created
               /\ exp.conn = imp.conn => p.oid <= ost'.last
    <3>1. CASE p \in reps
      BY <1>0, <2>1, <2>3, <3>1 DEF TypeOK, Id
    <3>2. CASE p \notin reps
      <4>1. PICK o \in Id : /\ r.exp = exp.id /\ r.conn = exp.conn
                            /\ reps' = reps \cup {[type |-> r.type, oid |-> o]}
                            /\ r.type = "precreate" => o = NoId \/ o = ost'.last
        BY Zenon, <1>11, <2>3, <3>2, CreateEffect
      <4>2. p.oid = o
        BY <2>3, <3>2, <4>1
      <4>3. r.conn = imp.conn /\ r.type = pc
        BY Zenon, <2>3, <4>1, Answering DEF Live
      <4>4. p.oid = ost'.last
        BY Zenon, <2>3, <4>1, <4>2, <4>3
      <4> QED
        BY <1>0, <2>1, <2>3, <4>1, <4>3, <4>4 DEF TypeOK, Id
    <3> QED
      BY Zenon, <3>1, <3>2
  <2> QED
    BY Zenon, <2>1, <2>2, <2>3
<1>12. CASE (OstCommit \/ OstCrash) /\ UNCHANGED ospVars
  BY <1>0, <1>12 DEF OstCommit, OstCrash, ospVars, ConnInv, Live, TypeOK
<1> QED
  BY Zenon, <1>1, <1>2, <1>3, <1>4, <1>5, <1>6, <1>7, <1>8, <1>9, <1>10, <1>11, <1>12 DEF Step, OstNext

\* Only osp_precreate_get_fid puts an id into use.
LEMMA InUseStep ==
  ASSUME IndInv, Step
  PROVE  \/ InUse' \subseteq InUse
         \/ /\ \E t \in Creator : GetFid(t)
            /\ InUse' \subseteq InUse \cup {pool.pre + 1}
<1>0. TypeOK /\ FileInv
  BY Zenon DEF IndInv
<1> USE DEF InUse
<1>1. CASE UNCHANGED <<used, mdtVars>>
  BY Zenon, <1>1 DEF mdtVars
<1>2. ASSUME NEW t \in Creator, Reserve(t) PROVE InUse' \subseteq InUse
  <2>1. \A u \in Creator : creator'[u].id = creator[u].id
    BY Zenon, <1>0, <1>2 DEF Reserve, TypeOK
  <2>2. UNCHANGED <<mdt, replay>>
    BY Zenon, <1>2 DEF Reserve
  <2> QED
    BY Zenon, <2>1, <2>2
<1>3. ASSUME NEW t \in Creator, Release(t) PROVE InUse' \subseteq InUse
  <2>1. \A u \in Creator : creator'[u].id = IF u = t THEN 0 ELSE creator[u].id
    BY Zenon, <1>0, <1>3 DEF Release, TypeOK, Idle
  <2>2. UNCHANGED <<mdt, replay>>
    BY Zenon, <1>3 DEF Release
  <2> QED
    BY Zenon, <2>1, <2>2
<1>4. ASSUME NEW t \in Creator, GetFid(t) PROVE InUse' \subseteq InUse \cup {pool.pre + 1}
  <2>1. \A u \in Creator : creator'[u].id = IF u = t THEN pool.pre + 1 ELSE creator[u].id
    BY Zenon, <1>0, <1>4 DEF GetFid, TypeOK
  <2>2. UNCHANGED <<mdt, replay>>
    BY Zenon, <1>4 DEF GetFid
  <2> QED
    BY Zenon, <2>1, <2>2
<1>5. ASSUME NEW t \in Creator, CopyLastUsed(t) PROVE InUse' \subseteq InUse
  <2>1. \A u \in Creator : creator'[u].id = creator[u].id
    BY Zenon, <1>0, <1>5 DEF CopyLastUsed, TypeOK
  <2>2. UNCHANGED <<mdt, replay>>
    BY Zenon, <1>5 DEF CopyLastUsed
  <2> QED
    BY Zenon, <2>1, <2>2
<1>6. ASSUME NEW t \in Creator, WriteLastUsed(t) PROVE InUse' \subseteq InUse
  <2>1. creator[t].id \in Id /\ \A u \in Creator : u # t => creator'[u] = creator[u]
    BY Zenon, <1>0, <1>6 DEF WriteLastUsed, TypeOK
  <2>2. creator'[t].id = 0 /\ mdt'.files = mdt.files \cup {creator[t].id} /\ replay' = replay
    BY Zenon, <1>0, <1>6 DEF WriteLastUsed, TypeOK, Idle
  <2>3. creator[t].id # 0
    BY Zenon, <1>0, <1>6 DEF WriteLastUsed, FileInv
  <2> QED
    BY Zenon, <2>1, <2>2, <2>3
<1>7. CASE MdtCommit \/ RecoveryComplete
  BY Zenon, <1>7 DEF MdtCommit, RecoveryComplete
<1>8. ASSUME NEW x \in replay, Replay(x) PROVE InUse' \subseteq InUse
  BY Zenon, <1>0, <1>8 DEF Replay
<1>9. CASE MdtCrash
  BY Zenon, <1>0, <1>9 DEF MdtCrash, Idle, FileInv
<1> QED
  BY Zenon, <1>1, <1>2, <1>3, <1>4, <1>5, <1>6, <1>7, <1>8, <1>9, MdtFrame DEF CreatorStep

\* When the MDT has recovered, every id in use is covered by opd_last_used_fid, or was not
\* when the MDT restarted.
LEMMA InUseBound ==
  ASSUME IndInv, recovered
  PROVE  \A x \in InUse : x \in Id /\ (x <= used \/ x \in uncovered)
<1>1. TypeOK /\ FileInv /\ replay = {}
  BY Zenon DEF IndInv, FileInv
<1> QED
  BY <1>1, SMTT(30) DEF InUse, FileInv, TypeOK, Id

\* The orphan cleanup whose reply opens the pool is the only one of its connection.
LEMMA OnlyCleanup ==
  ASSUME IndInv, NEW r \in reqs, Current(r), imp.connected, NEW q \in reqs, Current(q)
  PROVE  q = r
  BY Zenon, Answering DEF Live, Current

\* Only the reply of an orphan cleanup opens a pool that is shut.
LEMMA ShutStep ==
  ASSUME IndInv, Step, Shut
  PROVE  /\ ~ \E t \in Creator : GetFid(t)
         /\ \/ Shut'
            \/ \E r \in reps : Receive(r) /\ r.oid # NoId /\ OrphansDone(r.oid) /\ Opening
<1>0. TypeOK /\ CountInv /\ ThreadInv /\ BoundInv
  BY Zenon DEF IndInv
<1>1. ASSUME NEW t \in Creator PROVE creator[t].pc # "reserved" /\ ~Reserve(t)
  BY <1>0, Holder DEF Reserve, CanReserve, Shut, Precreated, TypeOK, Id
<1> SUFFICES ASSUME ~ \E r \in reps : Receive(r) /\ r.oid # NoId /\ OrphansDone(r.oid) /\ Opening
             PROVE  Shut'
  BY Zenon, <1>1 DEF GetFid
<1> USE DEF Shut, Precreated
<1>2. ASSUME NEW t \in Creator, CreatorStep(t) PROVE Shut'
  BY Zenon, <1>1, <1>2 DEF CreatorStep, Release, GetFid, CopyLastUsed, WriteLastUsed, poolVars
<1>3. CASE MdtCommit \/ RecoveryComplete \/ \E x \in replay : Replay(x)
  BY Zenon, <1>3 DEF MdtCommit, RecoveryComplete, Replay, poolVars
<1>4. CASE NewConnection
  <2>1. pool.reserved = 0 \/ Precreated = 0
    BY Zenon, <1>0, <1>4
  <2> QED
    BY Zenon, <1>0, <1>4, <2>1 DEF NewConnection
<1>5. CASE CheckConnection \/ OrphansDisconnected \/ OrphansNotSent \/ RpcLost \/ LeaveReady
  BY Zenon, <1>0, <1>5 DEF CheckConnection, OrphansDisconnected, OrphansNotSent, RpcLost, RpcFailed,
       LeaveReady, poolVars, ThreadInv
<1>6. CASE CleanupOrphans \/ PrecreateObjects \/ Reconnect \/ StatfsReply
  BY Zenon, <1>0, <1>6 DEF CleanupOrphans, SendOrphans, PrecreateObjects, SendPrecreate, Reconnect, Activate,
       StatfsReply, Statfs, poolVars, ThreadInv
<1>7. CASE LoseConnection
  BY <1>7, SMTT(30) DEF LoseConnection, Disconnect, MdtCrash, EmptyPool
<1>8. ASSUME NEW r \in reps, Receive(r) PROVE Shut'
  <2>1. ~(r.oid # NoId /\ OrphansDone(r.oid))
    BY Zenon, <1>8 DEF Receive, OrphansDone, Opening
  <2>2. ~PrecreateDone(r.oid)
    BY Zenon, <1>0 DEF PrecreateDone, ThreadInv
  <2> QED
    BY <1>0, <1>8, <2>1, <2>2, SMTT(30) DEF Receive, RpcFailed, ThreadInv
<1>9. CASE UNCHANGED ospVars
  BY Zenon, <1>9 DEF ospVars
<1> QED
  BY Zenon, <1>2, <1>3, <1>4, <1>5, <1>6, <1>7, <1>8, <1>9 DEF Step, OspStep

\* An orphan cleanup that may still destroy objects finds the pool shut, and everything in use
\* at or below the id it was sent with.
LEMMA CleanupStep ==
  ASSUME IndInv, Next
  PROVE  CleanupInv'
<1>0. /\ TypeOK /\ CleanupInv /\ ConnInv /\ ThreadInv /\ RpcInv
      /\ Step /\ uncovered \subseteq uncovered'
  BY Zenon, Remembered DEF IndInv, Next
<1>1. ASSUME NEW r \in reqs, Pending(r) PROVE (\A x \in InUse' \ uncovered' : x <= r.oid) /\ Shut'
  <2>1. (\A x \in InUse \ uncovered : x <= r.oid) /\ Shut /\ ~Opening
    BY Zenon, <1>0, <1>1 DEF CleanupInv
  <2> QED
    BY Zenon, <1>0, <2>1, ShutStep, InUseStep
<1>2. ASSUME \A q \in reqs' : Pending(q)' => \E r \in reqs : Pending(r) /\ r.oid = q.oid,
             ~Opening' \/ ~ \E q \in reqs' : Pending(q)'
      PROVE  CleanupInv'
  BY Zenon, <1>1, <1>2 DEF CleanupInv
<1>3. ASSUME reqs' \subseteq reqs, UNCHANGED exp, Opening' => Opening PROVE CleanupInv'
  <2>1. \A q \in reqs' : Pending(q)' => q \in reqs /\ Pending(q)
    BY Zenon, <1>3 DEF Pending, Current
  <2> QED
    BY Zenon, <1>0, <1>2, <1>3, <2>1 DEF CleanupInv
<1>4. CASE OspStep /\ UNCHANGED ostVars
  <2>1. Opening' => Opening
    BY Zenon, <1>4 DEF OspStep, CreatorStep, Reserve, Release, GetFid, CopyLastUsed, WriteLastUsed,
         MdtCommit, Replay, RecoveryComplete, CheckConnection, NewConnection, OrphansDisconnected,
         OrphansNotSent, RpcLost, RpcFailed, LeaveReady, ostVars, Opening
  <2> QED
    BY Zenon, <1>3, <1>4, <2>1 DEF ostVars
<1>5. CASE LoseConnection
  BY Zenon, <1>3, <1>5 DEF LoseConnection, Disconnect, MdtCrash, Opening
<1>6. CASE StatfsReply \/ \E r \in reps : Receive(r)
  <2>1. reqs' = reqs /\ UNCHANGED exp
    BY Zenon, <1>6 DEF StatfsReply, Statfs, Receive, ostVars
  <2>2. Opening' => Opening
    BY Zenon, <1>6 DEF StatfsReply, Statfs, Receive, ostVars, Opening, RpcFailed, OrphansDone, PrecreateDone
  <2> QED
    BY Zenon, <1>3, <2>1, <2>2
<1>7. CASE PrecreateObjects
  <2>1. pc' # "delorphan" /\ \A q \in reqs' : q \in reqs \/ q.type = "precreate"
    BY <1>7 DEF PrecreateObjects, SendPrecreate, Send
  <2>2. \A q \in reqs' : Pending(q)' => q \in reqs /\ Pending(q)
    BY Zenon, <1>7, <2>1 DEF Pending, Current, PrecreateObjects
  <2> QED
    BY Zenon, <1>2, <2>1, <2>2 DEF Opening
<1>8. CASE CleanupOrphans
  <2>1. pc = "orphans" /\ ~imp.gotDisc /\ recovered /\ pool.reserved = 0 /\ recovering
    BY Zenon, <1>0, <1>8 DEF CleanupOrphans, SendOrphans, OrphansReady, ThreadInv
  <2>2. reps' = {}
    BY Zenon, <1>0, <1>8, <2>1 DEF RpcInv, Quiet, Waiting, CleanupOrphans
  <2>3. InUse' = InUse /\ Shut' /\ ~Opening' /\ UNCHANGED exp
    <3>1. UNCHANGED <<pool, recovering, mdt, replay, creator, exp>>
      BY Zenon, <1>8 DEF CleanupOrphans, SendOrphans, poolVars, mdtVars
    <3> QED
      BY Zenon, <2>1, <2>2, <3>1 DEF InUse, Shut, Opening, Precreated
  <2>4. \A q \in reqs' : q \in reqs \/ q.oid = used
    BY <1>8 DEF CleanupOrphans, Send
  <2>5. \A x \in InUse \ uncovered : x <= used
    BY Zenon, <2>1, InUseBound
  <2>6. ASSUME NEW q \in reqs', Pending(q)' PROVE \A x \in InUse \ uncovered : x <= q.oid
    BY Zenon, <1>0, <2>3, <2>4, <2>5, <2>6 DEF CleanupInv, Pending, Current
  <2> QED
    BY Zenon, <1>0, <2>3, <2>6 DEF CleanupInv
<1>9. CASE Reconnect
  <2>1. reqs' \subseteq reqs /\ reps' = {} /\ exp'.conn = imp.conn + 1
    BY Zenon, <1>9 DEF Reconnect, Connect
  <2>2. \A q \in reqs' : Pending(q)' => q \in reqs /\ Pending(q)
    BY <1>0, <2>1 DEF Pending, Current, ConnInv, TypeOK
  <2> QED
    BY Zenon, <1>2, <2>1, <2>2 DEF Opening
<1>10. ASSUME NEW r \in reqs, Accept(r) \/ CheckOrphan(r) \/ RaiseDestroys(r), UNCHANGED ospVars PROVE CleanupInv'
  <2>1. UNCHANGED <<exp, reps, imp, pc>>
    BY Zenon, <1>0, <1>10, MoveEffect DEF ospVars
  <2>2. \A q \in reqs' : Pending(q)' => \E p \in reqs : Pending(p) /\ p.oid = q.oid
    <3> SUFFICES ASSUME NEW q \in reqs', Pending(q)' PROVE \E p \in reqs : Pending(p) /\ p.oid = q.oid
      OBVIOUS
    <3>1. Pending(q)
      BY Zenon, <2>1 DEF Pending, Current
    <3>2. CASE q \notin reqs
      <4>1. q.type = r.type /\ q.oid = r.oid /\ q.exp = r.exp /\ q.conn = r.conn
        BY <1>0, <1>10, <3>2, MoveEffect, SMTT(30)
      <4> QED
        BY Zenon, <3>1, <4>1 DEF Pending, Current
    <3> QED
      BY Zenon, <3>1, <3>2
  <2>3. Opening' => Opening
    BY Zenon, <2>1 DEF Opening
  <2> QED
    BY Zenon, <1>0, <1>2, <2>2, <2>3 DEF CleanupInv
<1>11. ASSUME NEW r \in reqs, Refuse(r), UNCHANGED ospVars PROVE CleanupInv'
  <2>1. reqs' \subseteq reqs /\ UNCHANGED <<exp, imp, pc>>
    BY Zenon, <1>11 DEF Refuse, ReplyTo, ospVars
  <2>2. \A p \in reps' : p \in reps \/ p.oid = NoId
    BY <1>11, SMTT(30) DEF Refuse, ReplyTo
  <2> QED
    BY Zenon, <1>3, <2>1, <2>2 DEF Opening
<1>12. ASSUME NEW r \in reqs, DelOrphan(r) \/ Precreate(r), UNCHANGED ospVars PROVE CleanupInv'
  <2>1. UNCHANGED <<exp, imp, pc>> /\ reqs' = reqs \ {r}
    BY Zenon, <1>12, CreateEffect DEF ospVars
  <2>2. \A q \in reqs' : Pending(q)' => q \in reqs /\ Pending(q) /\ q # r
    BY Zenon, <2>1 DEF Pending, Current
  <2>3. CASE reps' = reps
    BY Zenon, <1>3, <2>1, <2>3 DEF Opening
  <2>4. CASE reps' # reps
    <3>1. Current(r)
      BY Zenon, <1>12, <2>4, CreateEffect DEF Current
    <3>2. ASSUME Opening', NEW q \in reqs, Pending(q), q # r PROVE FALSE
      BY Zenon, <2>1, <3>1, <3>2, OnlyCleanup DEF Opening, Pending
    <3> QED
      BY Zenon, <1>2, <2>2, <3>2
  <2> QED
    BY Zenon, <2>3, <2>4
<1>13. CASE (OstCommit \/ OstCrash) /\ UNCHANGED ospVars
  <2>1. CASE OstCrash
    BY Zenon, <2>1 DEF OstCrash, CleanupInv
  <2>2. CASE OstCommit
    BY Zenon, <1>3, <1>13, <2>2 DEF OstCommit, ospVars, Opening
  <2> QED
    BY Zenon, <1>13, <2>1, <2>2
<1> QED
  BY Zenon, <1>0, <1>4, <1>5, <1>6, <1>7, <1>8, <1>9, <1>10, <1>11, <1>12, <1>13 DEF Step, OstNext

\* An id becomes a hole when an orphan cleanup destroys its object.
LEMMA LostStep ==
  ASSUME IndInv, Step, NEW h \in Id, Lost(h)'
  PROVE  Lost(h) \/ \E r \in reqs : DelOrphan(r) /\ h > r.oid /\ h \in ost.objs \ ost'.objs
<1>0. TypeOK /\ BoundInv
  BY Zenon DEF IndInv
<1> USE DEF Lost, Hole
<1>1. CASE UNCHANGED <<ost, ostDisk>>
  BY Zenon, <1>1
<1>2. CASE OstCommit \/ OstCrash
  BY Zenon, <1>2 DEF OstCommit, OstCrash
<1>3. ASSUME NEW upto \in Id, ost.last <= upto, Create(upto), UNCHANGED ostDisk PROVE Lost(h)
  BY <1>0, <1>3 DEF Create, Ids, Id, TypeOK
<1>4. ASSUME NEW r \in reqs, DelOrphan(r)
      PROVE  Lost(h) \/ (DelOrphan(r) /\ h > r.oid /\ h \in ost.objs \ ost'.objs)
  <2>0. r.oid \in Id /\ ost.last \in Id /\ UNCHANGED ostDisk
    BY Zenon, <1>0, <1>4 DEF TypeOK, DelOrphan
  <2>1. CASE OrphansDestroy(r.oid)
    <3>1. ost'.last = ost.last /\ ost'.objs = ost.objs \ Ids(r.oid, ost.last)
      BY Zenon, <1>0, <2>1 DEF OrphansDestroy, TypeOK
    <3> QED
      BY <1>4, <2>0, <3>1 DEF Ids, Id
  <2>2. ASSUME NEW upto \in ost.last .. r.oid, Create(upto) PROVE Lost(h)
    BY <1>3, <2>0, <2>2 DEF Id
  <2> QED
    BY Zenon, <1>1, <1>4, <2>0, <2>1, <2>2 DEF DelOrphan
<1>5. ASSUME NEW r \in reqs, Precreate(r) PROVE Lost(h)
  <2>0. r.oid \in Id /\ ost.last \in Id /\ UNCHANGED ostDisk
    BY Zenon, <1>0, <1>5 DEF TypeOK, Precreate
  <2>1. ASSUME NEW upto \in {ost.last} \union (ost.last .. r.oid), Create(upto) PROVE Lost(h)
    BY <1>3, <2>0, <2>1 DEF Id
  <2> QED
    BY Zenon, <1>5, <2>0, <2>1 DEF Precreate
<1>6. ASSUME NEW r \in reqs, Accept(r) \/ Refuse(r) \/ CheckOrphan(r) \/ RaiseDestroys(r)
      PROVE  UNCHANGED <<ost, ostDisk>>
  BY Zenon, <1>6 DEF Accept, Refuse, CheckOrphan, RaiseDestroys
<1>7. ASSUME \/ UNCHANGED ostVars \/ CleanupOrphans \/ PrecreateObjects \/ LoseConnection \/ Reconnect
             \/ StatfsReply \/ \E r \in reps : Receive(r)
      PROVE  UNCHANGED <<ost, ostDisk>>
  BY Zenon, <1>7 DEF ostVars, CleanupOrphans, PrecreateObjects, LoseConnection, Reconnect, Connect,
       StatfsReply, Receive
<1> QED
  BY Zenon, <1>1, <1>2, <1>4, <1>5, <1>6, <1>7 DEF Step, OstNext

\* The pool's first id moves by one, unless the MDT restarts or a cleanup ends.
LEMMA PreStep ==
  ASSUME IndInv, Step
  PROVE  \/ pool'.pre \in {pool.pre, pool.pre + 1}
         \/ Shut'
         \/ \E r \in reps : Receive(r) /\ r.oid # NoId /\ OrphansDone(r.oid) /\ r.type = "delorphan"
<1>0. TypeOK
  BY Zenon DEF IndInv
<1>1. ASSUME NEW t \in Creator, CreatorStep(t) PROVE pool'.pre \in {pool.pre, pool.pre + 1}
  BY <1>0, <1>1 DEF CreatorStep, Reserve, Release, GetFid, CopyLastUsed, WriteLastUsed, poolVars, TypeOK
<1>2. ASSUME OspStep, ~ \E t \in Creator : CreatorStep(t) PROVE UNCHANGED pool
  BY Zenon, <1>2 DEF OspStep, MdtCommit, Replay, RecoveryComplete, CheckConnection, NewConnection,
       OrphansDisconnected, OrphansNotSent, RpcLost, RpcFailed, LeaveReady, poolVars, mdtVars
<1>3. ASSUME CleanupOrphans \/ PrecreateObjects \/ Reconnect \/ StatfsReply PROVE UNCHANGED pool
  BY Zenon, <1>3 DEF CleanupOrphans, SendOrphans, PrecreateObjects, SendPrecreate, Reconnect, Activate,
       StatfsReply, Statfs, poolVars, mdtVars
<1>4. CASE LoseConnection
  BY <1>4 DEF LoseConnection, Disconnect, MdtCrash, EmptyPool, Shut, Precreated
<1>5. ASSUME NEW r \in reps, Receive(r), ~(r.oid # NoId /\ OrphansDone(r.oid) /\ r.type = "delorphan")
      PROVE  pool'.pre = pool.pre
  BY Zenon, <1>0, <1>5 DEF Receive, RpcFailed, PrecreateDone, TypeOK
<1>6. ASSUME UNCHANGED ospVars PROVE UNCHANGED pool
  BY Zenon, <1>6 DEF ospVars
<1> QED
  BY Zenon, <1>1, <1>2, <1>3, <1>4, <1>5, <1>6 DEF Step

\* An object destroyed by a cleanup of an earlier connection is remembered.
LEMMA StrayedStep ==
  ASSUME Next, NEW r \in reqs, DelOrphan(r), ~Current(r), NEW h \in ost.objs \ ost'.objs
  PROVE  h \in strayed'
<1>1. exp' = exp /\ r \in reqs \ reqs'
  BY DEF DelOrphan, ReplyTo
<1>2. h \in Destroyed
  BY Zenon, <1>1 DEF Destroyed
<1> QED
  BY Zenon, <1>1, <1>2 DEF Next, Remember

\* An id that the OST has passed without an object is not in use, and not in an open pool.
LEMMA HoleStep ==
  ASSUME IndInv, Next
  PROVE  HoleInv'
<1>0. /\ TypeOK /\ HoleInv /\ ConnInv /\ ThreadInv /\ RpcInv /\ CleanupInv /\ TypeOK' /\ Step
      /\ uncovered \subseteq uncovered' /\ strayed \subseteq strayed'
  BY Zenon, TypeStep, Remembered DEF IndInv, Next
<1>1. ostDisk'.last <= ost'.last
  <2>1. CASE UNCHANGED <<ost, ostDisk>>
    BY Zenon, <1>0, <2>1 DEF HoleInv
  <2>2. CASE OstCommit \/ OstCrash
    BY <1>0, <2>2 DEF OstCommit, OstCrash, TypeOK, Id
  <2>3. ASSUME NEW r \in reqs, DelOrphan(r) \/ Precreate(r) PROVE ostDisk'.last <= ost'.last
    <3>1. UNCHANGED ostDisk /\ ost'.last \in Id /\ ost.last <= ost'.last
      BY Zenon, <2>3, CreateEffect
    <3> QED
      BY <1>0, <3>1 DEF HoleInv, TypeOK, Id
  <2>4. ASSUME NEW r \in reqs, Accept(r) \/ Refuse(r) \/ CheckOrphan(r) \/ RaiseDestroys(r)
        PROVE  UNCHANGED <<ost, ostDisk>>
    BY Zenon, <2>4 DEF Accept, Refuse, CheckOrphan, RaiseDestroys
  <2>5. ASSUME \/ UNCHANGED ostVars \/ CleanupOrphans \/ PrecreateObjects \/ LoseConnection \/ Reconnect
               \/ StatfsReply \/ \E r \in reps : Receive(r)
        PROVE  UNCHANGED <<ost, ostDisk>>
    BY Zenon, <2>5 DEF ostVars, CleanupOrphans, PrecreateObjects, LoseConnection, Reconnect, Connect,
         StatfsReply, Receive
  <2> QED
    BY Zenon, <1>0, <2>1, <2>2, <2>3, <2>4, <2>5 DEF Step, OstNext
<1>2. ASSUME NEW h \in Id \ strayed, Lost(h)
      PROVE  h \notin InUse' \ uncovered' /\ (h <= pool'.pre \/ Shut')
  <2>0. /\ h \notin InUse \ uncovered /\ (h <= pool.pre \/ Shut)
        /\ imp.connected /\ pc = "delorphan" => \A p \in reps : p.oid # NoId => h <= p.oid
    BY Zenon, <1>0, <1>2 DEF HoleInv
  <2>1. h \notin InUse' \ uncovered'
    <3>1. ASSUME NEW t \in Creator, GetFid(t) PROVE h # pool.pre + 1
      BY <1>0, <2>0, <3>1, Holder, SMTT(30) DEF GetFid, TypeOK, Id
    <3> QED
      BY Zenon, <1>0, <2>0, <3>1, InUseStep
  <2>2. ASSUME NEW r \in reps, Receive(r), r.oid # NoId, OrphansDone(r.oid) PROVE h <= pool'.pre
    <3>1. h <= r.oid
      BY Zenon, <2>0, <2>2 DEF Receive, OrphansDone
    <3>2. pool'.pre = Larger(used, r.oid)
      BY Zenon, <2>2 DEF OrphansDone, PoolAfterOrphans, PoolFrom
    <3> QED
      BY <1>0, <3>1, <3>2, SMTT(30) DEF Larger, TypeOK, Id
  <2>3. CASE Shut
    BY Zenon, <1>0, <2>1, <2>2, <2>3, ShutStep
  <2>4. CASE h <= pool.pre
    <3>1. pool'.pre \in {pool.pre, pool.pre + 1} => h <= pool'.pre
      BY <1>0, <2>4, SMTT(30) DEF TypeOK, Id
    <3> QED
      BY Zenon, <1>0, <2>1, <2>2, <3>1, PreStep
  <2> QED
    BY Zenon, <2>0, <2>3, <2>4
<1>3. ASSUME NEW r \in reqs, DelOrphan(r), Current(r)
      PROVE  (\A x \in InUse' \ uncovered' : x <= r.oid) /\ Shut' /\ ~Opening
  <2>1. (\A x \in InUse \ uncovered : x <= r.oid) /\ Shut /\ ~Opening
    BY Zenon, <1>0, <1>3 DEF CleanupInv, Pending, DelOrphan, ConnInv
  <2> QED
    BY Zenon, <1>0, <2>1, ShutStep, InUseStep
<1>4. ASSUME NEW h \in Id \ strayed', Lost(h)'
      PROVE  h \notin InUse' \ uncovered' /\ (h <= pool'.pre \/ Shut')
  <2>1. ASSUME NEW r \in reqs, DelOrphan(r), h > r.oid, h \in ost.objs \ ost'.objs
        PROVE  h \notin InUse' \ uncovered' /\ Shut'
    <3>1. Current(r)
      BY Zenon, <1>4, <2>1, StrayedStep
    <3> QED
      BY <1>0, <1>3, <2>1, <3>1 DEF TypeOK, Id
  <2> QED
    BY Zenon, <1>0, <1>2, <1>4, <2>1, LostStep
<1>5. ASSUME NEW h \in Id \ strayed', Lost(h)', imp'.connected, pc' = "delorphan", NEW p \in reps', p.oid # NoId
      PROVE  h <= p.oid
  <2>1. imp.connected /\ pc = "delorphan"
    <3>1. CASE OspStep /\ UNCHANGED ostVars
      <4>1. pc = "delorphan" /\ UNCHANGED <<imp, pc>>
        BY Zenon, <1>5, <3>1 DEF OspStep, CreatorStep, Reserve, Release, GetFid, CopyLastUsed,
             WriteLastUsed, MdtCommit, Replay, RecoveryComplete, CheckConnection, NewConnection,
             OrphansDisconnected, OrphansNotSent, RpcLost, RpcFailed, LeaveReady
      <4> QED
        BY Zenon, <1>5, <4>1
    <3>2. CASE CleanupOrphans
      <4>1. reps' = {}
        BY Zenon, <1>0, <3>2 DEF CleanupOrphans, SendOrphans, RpcInv, Quiet, Waiting
      <4> QED
        BY Zenon, <1>5, <4>1
    <3>3. CASE PrecreateObjects
      BY Zenon, <1>5, <3>3 DEF PrecreateObjects, SendPrecreate
    <3>4. CASE LoseConnection \/ Reconnect
      BY Zenon, <1>5, <3>4 DEF LoseConnection, Reconnect, Connect
    <3>5. CASE StatfsReply
      BY Zenon, <1>5, <3>5 DEF StatfsReply, Statfs
    <3>6. ASSUME NEW r \in reps, Receive(r) PROVE FALSE
      BY Zenon, <1>0, <1>5, <3>6, Received
    <3>7. CASE UNCHANGED ospVars
      BY Zenon, <1>5, <3>7 DEF ospVars
    <3> QED
      BY Zenon, <1>0, <3>1, <3>2, <3>3, <3>4, <3>5, <3>6, <3>7 DEF Step
  <2>2. ASSUME p \notin reps PROVE ost'.last <= p.oid
    <3>1. ASSUME NEW r \in reqs, DelOrphan(r) \/ Precreate(r) PROVE ost'.last <= p.oid
      <4>1. PICK o \in Id : /\ r.exp = exp.id /\ r.conn = exp.conn
                            /\ reps' = reps \cup {[type |-> r.type, oid |-> o]}
                            /\ r.type = "delorphan" => o >= ost'.last
        BY Zenon, <1>5, <2>2, <3>1, CreateEffect
      <4>2. p.oid = o
        BY <1>5, <2>2, <4>1
      <4>3. r.type = "delorphan"
        BY Zenon, <2>1, <4>1, Answering DEF Live
      <4> QED
        BY Zenon, <1>0, <4>1, <4>2, <4>3 DEF TypeOK, Id
    <3>2. ASSUME NEW r \in reqs, Accept(r) \/ CheckOrphan(r) \/ RaiseDestroys(r) PROVE FALSE
      BY <1>0, <1>5, <2>2, <3>2, MoveEffect, SMTT(30)
    <3>3. ASSUME NEW r \in reqs, Refuse(r) PROVE FALSE
      BY <1>5, <2>2, <3>3, SMTT(30) DEF Refuse, ReplyTo
    <3>4. ASSUME \/ OstCommit \/ OstCrash \/ UNCHANGED ostVars \/ CleanupOrphans \/ PrecreateObjects
                 \/ LoseConnection \/ Reconnect \/ StatfsReply \/ \E r \in reps : Receive(r)
          PROVE  FALSE
      <4>1. reps' \subseteq reps
        BY Zenon, <3>4 DEF OstCommit, OstCrash, ostVars, CleanupOrphans, PrecreateObjects, LoseConnection,
             Reconnect, Connect, StatfsReply, Receive
      <4> QED
        BY Zenon, <1>5, <2>2, <4>1
    <3> QED
      BY Zenon, <1>0, <3>1, <3>2, <3>3, <3>4 DEF Step, OstNext
  <2>3. h <= ost'.last
    BY <1>0, <1>1, <1>5, SMTT(30) DEF Lost, Hole, TypeOK, Id
  <2>4. CASE p \notin reps
    <3>1. p.oid \in Nat /\ ost'.last \in Nat /\ h \in Nat
      BY <1>0, <1>5, SMTT(30) DEF TypeOK, Id
    <3> QED
      BY <2>2, <2>3, <2>4, <3>1
  <2>5. CASE p \in reps
    <3>1. CASE Lost(h)
      BY Zenon, <1>0, <1>5, <2>1, <2>5, <3>1 DEF HoleInv
    <3>2. ASSUME NEW r \in reqs, DelOrphan(r), h \in ost.objs \ ost'.objs PROVE FALSE
      <4>1. Current(r)
        BY Zenon, <1>5, <3>2, StrayedStep
      <4> QED
        BY Zenon, <1>3, <1>5, <2>1, <2>5, <3>2, <4>1 DEF Opening
    <3> QED
      BY Zenon, <1>0, <1>5, <3>1, <3>2, LostStep
  <2> QED
    BY Zenon, <2>4, <2>5
<1> QED
  BY Zenon, <1>1, <1>4, <1>5 DEF HoleInv

-----------------------------------------------------------------------------
(* Results.                                                                *)

\* The invariant holds when osp_init_precreate and the OST have started.
LEMMA InitInv ==
  ASSUME Init
  PROVE  IndInv
<1>1. /\ used = 2 /\ recovering = FALSE /\ status = "wait" /\ pc = "connect"
      /\ replay = {} /\ recovered = TRUE /\ boots = 1 /\ destroys = FALSE /\ reqs = {} /\ reps = {}
      /\ mdtDisk = mdt /\ ostDisk = ost /\ uncovered = {} /\ strayed = {}
  BY Zenon DEF Init, OspInit, OstInit
<1>2. pool.pre = 1 /\ pool.created = 1 /\ pool.reserved = 0
  BY Zenon DEF Init, OspInit, EmptyPool
<1>3. imp.conn = 0 /\ imp.connected = FALSE /\ imp.gotDisc = TRUE /\ imp.newConn = FALSE
  BY Zenon DEF Init, OspInit
<1>4. /\ mdt.file = 2 /\ mdt.files = {2} /\ ost.last = 2 /\ ost.objs = {2}
      /\ exp.id = 0 /\ exp.conn = 0 /\ exp.boot = 0
  BY Zenon DEF Init, OspInit, OstInit
<1>5. \A t \in Creator : creator[t].pc = "idle" /\ creator[t].id = 0 /\ creator[t].val = 0
  BY Zenon DEF Init, OspInit, Idle
<1>6. Precreated = 0
  BY <1>2 DEF Precreated
<1>7. TypeOK
  <2>1. /\ 0 \in Id /\ 1 \in Id /\ 2 \in Id /\ {2} \in SUBSET Id /\ 0 \in 0 .. Cardinality(Creator)
        /\ 0 \in 0 .. MaxConn /\ 0 \in 0 .. MdtCrashes + 1 /\ 1 \in 1 .. MdtCrashes + 1 /\ 0 \in 0 .. OstCrashes
    BY FS_CardinalityType, SMTT(30) DEF Id
  <2>2. pool \in [pre : Id, created : Id, reserved : 0 .. Cardinality(Creator)]
    BY Zenon, <2>1 DEF Init, OspInit, EmptyPool
  <2>3. imp \in [conn : 0 .. MaxConn, connected : BOOLEAN, gotDisc : BOOLEAN, newConn : BOOLEAN]
    BY Zenon, <2>1 DEF Init, OspInit
  <2>4. creator \in [Creator -> [pc : {"idle", "reserved", "taken", "copied"}, id : Id, val : Id]]
    BY Zenon, <2>1 DEF Init, OspInit, Idle
  <2>5. mdt \in [file : Id, files : SUBSET Id] /\ ost \in [last : Id, objs : SUBSET Id]
    BY Zenon, <2>1 DEF Init, OspInit, OstInit
  <2>6. exp \in [id : 0 .. MdtCrashes + 1, conn : 0 .. MaxConn, boot : 0 .. OstCrashes]
    BY Zenon, <2>1 DEF Init, OstInit
  <2> QED
    BY Zenon, <1>1, <2>1, <2>2, <2>3, <2>4, <2>5, <2>6 DEF TypeOK, Waitable
<1>8. CountInv
  <2>1. Reserving = {}
    BY Zenon, <1>5 DEF Reserving
  <2> QED
    BY <1>2, <1>6, <2>1, FS_EmptySet DEF CountInv, ReservationsBacked
<1>9. BoundInv /\ ThreadInv
  BY <1>1, <1>2, <1>4, <1>6 DEF BoundInv, ThreadInv
<1>10. FileInv
  BY <1>1, <1>4, <1>5 DEF FileInv
<1>11. ConnInv /\ RpcInv /\ PoolInv /\ CleanupInv
  <2>1. ~Live /\ exp.conn <= imp.conn
    BY <1>3, <1>4 DEF Live
  <2>2. ConnInv
    BY Zenon, <1>1, <1>3, <2>1 DEF ConnInv
  <2> QED
    BY Zenon, <1>1, <1>3, <2>2 DEF RpcInv, PoolInv, CleanupInv, Quiet, Waiting
<1>12. HoleInv
  <2>1. InUse = {2}
    BY Zenon, <1>1, <1>4, <1>5 DEF InUse
  <2>2. Shut
    BY Zenon, <1>1, <1>6 DEF Shut
  <2>3. \A h \in Id : Lost(h) => h # 2
    BY <1>1, <1>4 DEF Lost, Hole
  <2>4. ostDisk.last <= ost.last
    BY <1>1, <1>4
  <2> QED
    BY Zenon, <1>1, <2>1, <2>2, <2>3, <2>4 DEF HoleInv
<1>13. HistoryOK
  BY Zenon, <1>1 DEF HistoryOK
<1> QED
  BY Zenon, <1>7, <1>8, <1>9, <1>10, <1>11, <1>12, <1>13 DEF IndInv

\* A stuttering step keeps the invariant.
LEMMA Stutter ==
  ASSUME IndInv, UNCHANGED vars
  PROVE  IndInv'
<1> USE DEF vars, ospVars, ostVars
<1>1. TypeOK' /\ HistoryOK' /\ BoundInv' /\ FileInv'
  <2>1. TypeOK'
    BY Zenon DEF IndInv, TypeOK
  <2>2. BoundInv'
    BY Zenon DEF IndInv, BoundInv, Precreated
  <2>3. FileInv'
    BY Zenon DEF IndInv, FileInv
  <2>4. HistoryOK'
    BY Zenon DEF IndInv, HistoryOK
  <2> QED
    BY Zenon, <2>1, <2>2, <2>3, <2>4
<1>2. CountInv' /\ ThreadInv' /\ ConnInv'
  BY Zenon DEF IndInv, CountInv, Reserving, ReservationsBacked, Precreated, ThreadInv, ConnInv, Live
<1>3. RpcInv' /\ PoolInv'
  BY Zenon DEF IndInv, RpcInv, Quiet, Outstanding, Waiting, PoolInv
<1>4. CleanupInv'
  BY ZenonT(40) DEF IndInv, CleanupInv, Pending, Current, InUse, Shut, Opening, Precreated
<1>5. HoleInv'
  BY Zenon DEF IndInv, HoleInv, Lost, Hole, InUse, Shut, Precreated
<1> QED
  BY Zenon, <1>1, <1>2, <1>3, <1>4, <1>5 DEF IndInv

\* The history holds ids.
LEMMA HistoryStep ==
  ASSUME IndInv, Next
  PROVE  HistoryOK'
<1>1. TypeOK /\ HistoryOK /\ Remember
  BY Zenon DEF IndInv, Next
<1>2. mdtDisk.files \subseteq Id /\ ost.objs \subseteq Id
  BY <1>1 DEF TypeOK
<1>3. Destroyed \subseteq Id
  BY Zenon, <1>2 DEF Destroyed
<1> QED
  BY Zenon, <1>1, <1>2, <1>3 DEF HistoryOK, Remember

\* Every step keeps the invariant.
LEMMA Inductive ==
  ASSUME IndInv, [Next]_vars
  PROVE  IndInv'
<1>1. CASE Next
  <2>1. Step
    BY Zenon, <1>1 DEF Next
  <2> QED
    BY Zenon, <1>1, <2>1, TypeStep, HistoryStep, CountStep, BoundStep, FileStep, ThreadStepInv, ConnStep,
         RpcStep, PoolStep, CleanupStep, HoleStep DEF IndInv
<1> QED
  BY Zenon, <1>1, Stutter

\* The inductive invariant of object precreation holds in every reachable state, for any ids,
\* threads, connections and crashes: however the writes of last_used of several threads
\* (osp_create) interleave, and however long a thread of the OST outlives its connection
\* (ofd_create_hdl).
THEOREM Invariance ==
  Spec => []IndInv
  BY InitInv, Inductive, PTL DEF Spec

\* The assertion of osp_precreate_get_fid never fails: every reservation is backed by an object
\* of the pool.
THEOREM Reservations ==
  Spec => []ReservationsBacked
<1>1. IndInv => ReservationsBacked
  BY Zenon DEF IndInv, CountInv
<1> QED
  BY <1>1, Invariance, PTL

\* In a state of the invariant the objects of an open pool, and those in use, exist.
LEMMA Backed ==
  ASSUME IndInv
  PROVE  PoolBacked
<1> SUFFICES ASSUME Synced, Precreated > 0, NEW x, x \notin strayed,
                    x \in Ids(pool.pre, pool.created) \union (InUse \ uncovered)
             PROVE  x \in ost.objs
  BY Zenon DEF PoolBacked
<1>0. TypeOK /\ HoleInv /\ PoolInv /\ ThreadInv
  BY Zenon DEF IndInv
<1>1. pool.created <= ost.last /\ pool.pre < pool.created /\ used <= pool.pre /\ recovered /\ ~Shut
  BY <1>0 DEF Synced, PoolInv, ThreadInv, Precreated, TypeOK, Id, Shut
<1>2. CASE x \in InUse \ uncovered
  <2>1. x \in Id /\ x <= used
    BY Zenon, <1>1, <1>2, InUseBound
  <2>2. x <= ost.last
    BY <1>0, <1>1, <2>1 DEF TypeOK, Id
  <2> QED
    BY Zenon, <1>0, <1>2, <2>1, <2>2 DEF HoleInv, Lost, Hole
<1>3. CASE x \in Ids(pool.pre, pool.created)
  <2>1. x \in Id /\ x <= ost.last /\ ~(x <= pool.pre)
    BY <1>0, <1>1, <1>3 DEF Ids, TypeOK, Id
  <2> QED
    BY Zenon, <1>0, <1>1, <2>1 DEF HoleInv, Lost, Hole
<1> QED
  BY Zenon, <1>2, <1>3

\* While the two sides are in touch, every object of the pool and every object in use exists on
\* the OST, crashes of the OST included (osp_precreate_cleanup_orphans, ofd_orphans_destroy),
\* but for what a cleanup of an earlier connection destroyed and the ids in use beyond the
\* last_used that a restart of the MDT read.
THEOREM Backing ==
  Spec => []PoolBacked
  BY Backed, Invariance, PTL

\* osp_precreate_get_fid never hands out an id that a file, a replay or a transaction has,
\* unless a restart of the MDT read a last_used older than that id.
THEOREM Uniqueness ==
  Spec => IdsUnique
<1>1. ASSUME IndInv, [Next]_vars
      PROVE  [\A t \in Creator : creator[t].pc = "reserved" /\ creator'[t].pc = "taken"
                                   => creator'[t].id \notin InUse \ uncovered]_vars
  <2> SUFFICES ASSUME Next, NEW t \in Creator, creator[t].pc = "reserved", creator'[t].pc = "taken"
               PROVE  creator'[t].id \notin InUse \ uncovered
    BY Zenon, <1>1
  <2>0. TypeOK /\ recovered /\ used <= pool.pre /\ Step
    BY Zenon, <1>1, Holder DEF IndInv, Next
  <2>1. creator' # creator
    BY Zenon
  <2>2. ASSUME NEW u \in Creator, CreatorStep(u) PROVE GetFid(t)
    <3>1. CASE Reserve(u)
      BY Zenon, <2>0, <3>1 DEF Reserve, TypeOK
    <3>2. CASE Release(u) \/ CopyLastUsed(u) \/ WriteLastUsed(u)
      <4>1. u # t => creator'[t] = creator[t]
        BY ZenonT(30), <2>0, <3>2 DEF Release, CopyLastUsed, WriteLastUsed, TypeOK
      <4>2. creator'[u].pc # "taken"
        <5>1. CASE Release(u) \/ WriteLastUsed(u)
          <6>1. creator'[u] = Idle
            BY Zenon, <2>0, <5>1 DEF Release, WriteLastUsed, TypeOK
          <6>2. Idle.pc = "idle"
            BY Zenon DEF Idle
          <6> QED
            BY Zenon, <6>1, <6>2
        <5>2. CASE CopyLastUsed(u)
          BY Zenon, <2>0, <5>2 DEF CopyLastUsed, TypeOK
        <5> QED
          BY Zenon, <3>2, <5>1, <5>2
      <4> QED
        BY Zenon, <4>1, <4>2
    <3>3. CASE GetFid(u)
      <4>1. u # t => creator'[t] = creator[t]
        BY Zenon, <2>0, <3>3 DEF GetFid, TypeOK
      <4> QED
        BY Zenon, <3>3, <4>1
    <3> QED
      BY Zenon, <2>2, <3>1, <3>2, <3>3 DEF CreatorStep
  <2>3. GetFid(t)
    <3>1. ~MdtCrash
      <4>1. MdtCrash => creator'[t] = Idle
        BY Zenon DEF MdtCrash
      <4>2. Idle.pc = "idle"
        BY Zenon DEF Idle
      <4> QED
        BY Zenon, <4>1, <4>2
    <3>2. ~(MdtCommit \/ RecoveryComplete \/ \E x \in replay : Replay(x)) /\ ~(UNCHANGED <<used, mdtVars>>)
      BY Zenon, <2>1 DEF MdtCommit, RecoveryComplete, Replay, mdtVars
    <3> QED
      BY Zenon, <1>1, <2>0, <2>2, <3>1, <3>2, MdtFrame
  <2>4. creator'[t].id = pool.pre + 1
    BY Zenon, <2>0, <2>3 DEF GetFid, TypeOK
  <2> QED
    BY <1>1, <2>0, <2>4, InUseBound DEF TypeOK, Id
<1> QED
  BY <1>1, Invariance, PTL DEF Spec, IdsUnique

\* ofd_orphans_destroy, run for the connection the OST has, destroys no object that a file refers
\* to, that a client will replay, or that a transaction holds, unless a restart of the MDT read a
\* last_used older than the file.
THEOREM OrphansOnly ==
  Spec => InUseKept
<1>1. ASSUME IndInv, [Next]_vars
      PROVE  [(\A r \in reqs \ reqs' : Current(r)) => Destroyed \intersect InUse \subseteq uncovered]_vars
  <2> SUFFICES ASSUME Next, \A r \in reqs \ reqs' : Current(r), exp'.boot = exp.boot,
                      NEW x \in ost.objs, x \notin ost'.objs, x \in InUse \ uncovered
               PROVE  FALSE
    BY Zenon, <1>1 DEF Destroyed
  <2>0. TypeOK /\ CleanupInv /\ ConnInv /\ x \in Id /\ Step
    BY Zenon, <1>1 DEF IndInv, TypeOK, Next
  <2>1. ASSUME NEW r \in reqs, DelOrphan(r) PROVE FALSE
    <3>0. r \notin reqs'
      BY <2>1 DEF DelOrphan, ReplyTo
    <3>1. x <= r.oid
      BY Zenon, <2>0, <2>1, <3>0 DEF CleanupInv, Pending, DelOrphan, ConnInv
    <3>2. x \in Ids(r.oid, ost.last)
      BY <2>0, <2>1 DEF DelOrphan, OrphansDestroy, Create, TypeOK
    <3> QED
      BY <2>0, <3>1, <3>2 DEF Ids, TypeOK, Id
  <2>2. ASSUME NEW r \in reqs, Precreate(r) PROVE FALSE
    BY <2>2 DEF Precreate, Create
  <2>3. ASSUME NEW r \in reqs, Accept(r) \/ Refuse(r) \/ CheckOrphan(r) \/ RaiseDestroys(r)
        PROVE  UNCHANGED ost
    BY Zenon, <2>3 DEF Accept, Refuse, CheckOrphan, RaiseDestroys
  <2>4. ASSUME \/ OstCommit \/ UNCHANGED ostVars \/ CleanupOrphans \/ PrecreateObjects \/ LoseConnection \/ Reconnect
               \/ StatfsReply \/ \E r \in reps : Receive(r)
        PROVE  UNCHANGED ost
    BY Zenon, <2>4 DEF OstCommit, ostVars, CleanupOrphans, PrecreateObjects, LoseConnection, Reconnect,
         Connect, StatfsReply, Receive
  <2>5. ~OstCrash
    BY <2>0 DEF OstCrash, TypeOK
  <2> QED
    BY Zenon, <2>0, <2>1, <2>2, <2>3, <2>4, <2>5 DEF Step, OstNext
<1> QED
  BY <1>1, Invariance, PTL DEF Spec, InUseKept
=============================================================================

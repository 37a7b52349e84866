----------------------------- MODULE OfdCreate -----------------------------
(***************************************************************************)
(* The OST side of object precreation: ofd_create_hdl of ofd_dev.c with    *)
(* ofd_orphans_destroy and ofd_precreate_objects, for one FID sequence.    *)
(* An OST knows the last object id it created (LAST_ID) and its objects;   *)
(* both change together in one transaction, and the transactions that did  *)
(* not commit are lost together when the OST crashes.                      *)
(*                                                                         *)
(* A request is handled by a service thread in the steps between which     *)
(* another thread can run: it is accepted (ptlrpc_check_req), an orphan    *)
(* cleanup passes its check of the connection count, raises                *)
(* os_destroys_in_progress, and then waits for os_create_lock, which any   *)
(* of the waiters may get next.                                            *)
(***************************************************************************)
EXTENDS Naturals, FiniteSets

CONSTANTS
  MaxPrecreate,   \* OST_MAX_PRECREATE
  OstCrashes      \* bound: how often the OST crashes

ASSUME OfdAssumption == MaxPrecreate \in Nat /\ OstCrashes \in Nat

VARIABLES
  ost,       \* [last, objs]: LAST_ID and the existing objects
  ostDisk,   \* the same, as committed
  destroys,  \* os_destroys_in_progress
  exp,       \* the MDT's export: which one (id), exp_conn_cnt (conn), and the OST's reboots (boot)
  reqs,      \* the create requests on their way to the OST or in one of its threads
  reps       \* the replies on their way to the MDT

ostVars == <<ost, ostDisk, destroys, exp, reqs, reps>>

\* The ids from a + 1 to b.
Ids(a, b) == (a + 1) .. b

\* A file system that is in use: object 2 belongs to a file.
OstInit ==
  /\ ost = [last |-> 2, objs |-> {2}]
  /\ ostDisk = ost
  /\ destroys = FALSE
  /\ exp = [id |-> 0, conn |-> 0, boot |-> 0]
  /\ reqs = {}
  /\ reps = {}

Move(r, st) == reqs' = (reqs \ {r}) \union {[r EXCEPT !.st = st]}

\* The reply of a request whose connection is gone reaches nobody.
ReplyTo(r, oid) ==
  /\ reqs' = reqs \ {r}
  /\ reps' = IF r.exp = exp.id /\ r.conn = exp.conn
               THEN reps \union {[type |-> r.type, oid |-> oid]} ELSE reps

\* A late request of an older connection of the live export: its sender does
\* not wait for it any more.
OldConnection(r) == r.exp = exp.id /\ r.conn < exp.conn

\* The request reaches a thread. One of an older connection (ptlrpc_check_req),
\* of an export that is gone, or for an OST that has rebooted never does.
Accept(r) ==
  /\ r.st = "net" /\ r.exp = exp.id /\ r.conn = exp.conn
  /\ Move(r, "thread")
  /\ UNCHANGED <<ost, ostDisk, destroys, exp, reps>>

NoId == 0   \* the reply is an error

\* ofd_create_hdl fails before it does anything: the OST is read-only, LAST_ID
\* is being rebuilt, the sequence cannot be loaded.
Refuse(r) ==
  /\ r.st = "thread"
  /\ ReplyTo(r, NoId)
  /\ UNCHANGED <<ost, ostDisk, destroys, exp>>

\* The first statement of an orphan cleanup: "dropping old orphan cleanup request".
CheckOrphan(r) ==
  /\ r.st = "thread" /\ r.type = "delorphan"
  /\ IF OldConnection(r) THEN reqs' = reqs \ {r} ELSE Move(r, "checked")
  /\ UNCHANGED <<ost, ostDisk, destroys, exp, reps>>

\* "This causes inflight precreates to abort and drop lock".
RaiseDestroys(r) ==
  /\ r.st = "checked"
  /\ destroys' = TRUE
  /\ Move(r, "locking")
  /\ UNCHANGED <<ost, ostDisk, exp, reps>>

\* ofd_precreate_objects for the ids that follow LAST_ID: what fits into the
\* time, the space and the grant, possibly nothing.
Create(upto) == ost' = [last |-> upto, objs |-> ost.objs \union Ids(ost.last, upto)]

\* The orphans are the objects beyond the id the MDT used last. LAST_ID stays
\* (OBD_CONNECT_FLAG_SKIP_ORPHAN), so that no id is used twice.
OrphansDestroy(oid) == ost' = [ost EXCEPT !.objs = @ \ Ids(oid, ost.last)]

\* An orphan cleanup under os_create_lock: another one did the work; the OST is
\* too far ahead to believe the MDT; orphans are destroyed; the objects that a
\* crash of the OST lost are created again.
DelOrphan(r) ==
  /\ r.st = "locking"
  /\ \/ /\ ~destroys
        /\ ReplyTo(r, ost.last)
        /\ UNCHANGED <<ost, destroys>>
     \/ /\ destroys /\ ost.last > r.oid + MaxPrecreate
        /\ ReplyTo(r, ost.last + 1)
        /\ UNCHANGED <<ost, destroys>>
     \/ /\ destroys /\ ost.last > r.oid /\ ost.last <= r.oid + MaxPrecreate
        /\ OrphansDestroy(r.oid)
        /\ destroys' = FALSE
        /\ ReplyTo(r, ost.last)
     \/ /\ destroys /\ ost.last <= r.oid
        /\ \E upto \in ost.last .. r.oid : Create(upto) /\ ReplyTo(r, upto)
        /\ destroys' = FALSE
  /\ UNCHANGED <<ostDisk, exp>>

\* A precreate: the connection is checked under os_create_lock; an id below
\* LAST_ID is refused ("Likely MDS last_id corruption").
Precreate(r) ==
  /\ r.st = "thread" /\ r.type = "precreate"
  /\ \/ /\ OldConnection(r)
        /\ reqs' = reqs \ {r}
        /\ UNCHANGED <<ost, reps>>
     \/ /\ ~OldConnection(r)
        /\ \E upto \in {ost.last} \union (ost.last .. r.oid) :
             Create(upto) /\ ReplyTo(r, IF r.oid < ost.last THEN NoId ELSE upto)
  /\ UNCHANGED <<ostDisk, destroys, exp>>

OstCommit ==
  /\ ostDisk # ost
  /\ ostDisk' = ost
  /\ UNCHANGED <<ost, destroys, exp, reqs, reps>>

\* A crash and the restart: ofd_seq_load reads LAST_ID from disk.
OstCrash ==
  /\ exp.boot < OstCrashes
  /\ ost' = ostDisk
  /\ destroys' = FALSE
  /\ exp' = [id |-> exp.id, conn |-> 0, boot |-> exp.boot + 1]
  /\ reqs' = {}
  /\ UNCHANGED <<ostDisk, reps>>

\* target_handle_connect: a new incarnation of the MDT replaces the export (id),
\* a reconnection raises exp_conn_cnt. Neither waits for the threads that serve
\* requests of the connection before.
Connect(id, conn) ==
  /\ exp' = [id |-> id, conn |-> conn, boot |-> exp.boot]
  /\ reqs' = {r \in reqs : r.st # "net"}
  /\ reps' = {}
  /\ UNCHANGED <<ost, ostDisk, destroys>>

OstNext ==
  \/ \E r \in reqs : Accept(r) \/ Refuse(r) \/ CheckOrphan(r) \/ RaiseDestroys(r)
  \/ \E r \in reqs : DelOrphan(r) \/ Precreate(r)
  \/ OstCommit
  \/ OstCrash

=============================================================================

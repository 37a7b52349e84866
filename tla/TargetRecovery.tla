--------------------------- MODULE TargetRecovery ---------------------------
(***************************************************************************)
(* The target's side: connections (ldlm_lib.c), the checks a request goes  *)
(* through (service.c, tgt_handler.c), and the recovery of the clients     *)
(* after a restart: the replay queue ordered by transno, the recovery      *)
(* thread and the recovery timer.                                          *)
(***************************************************************************)
EXTENDS ReplyData

CONSTANTS
  MaxCrash,  \* bound: restarts of the target
  MaxEvict,  \* bound: clients evicted by the recovery timer
  Windows    \* pairs of steps that others may come between: "stale", "lookup"

VARIABLES
  exp,       \* [Clients -> the export]
  stage,     \* of the recovery thread: "none", "ready", "replay", "pings"
  next,      \* obd_next_recovery_transno
  queue,     \* obd_req_replay_queue
  rcur,      \* the replay the recovery thread works on
  finalq,    \* obd_final_req_queue
  proc,      \* requests held by service threads
  lbug       \* the assertion that failed: "none", "gap", "needed", "queue"

recoveryVars == <<exp, stage, next, queue, rcur, finalq, proc, lbug>>

(***************************************************************************)
(* An export: live until it is evicted; conn is exp_conn_cnt, 0 after a    *)
(* restart; inrec exp_in_recovery; needed exp_req_replay_needed and        *)
(* exp_lock_replay_needed; lastXid exp_last_xid; vbr exp_vbr_failed.       *)
(***************************************************************************)
NewExport(live, conn) ==
  [live |-> live, conn |-> conn, inrec |-> FALSE, needed |-> FALSE, lastXid |-> 0, vbr |-> FALSE]

RecoveryInit ==
  /\ exp = [c \in Clients |-> NewExport(TRUE, 1)]
  /\ stage = "none" /\ next = 0
  /\ queue = {} /\ rcur = {} /\ finalq = {} /\ proc = {}
  /\ lbug = "none"

\* obd_recovering.
Recovering == stage \in {"ready", "replay"}

Needed == {c \in Clients : exp[c].needed}

\* A request in a service thread, and obd_next_recovery_transno when it came.
Work(m) == [m |-> m, next |-> next]

(***************************************************************************)
(* Connections                                                             *)
(***************************************************************************)

\* ptlrpc_check_req will drop the requests of an older connection of c, unless it has
\* seen them before.
OldDropped(c, conn) == {m \in reqs : m.c # c \/ m.conn >= conn \/ "stale" \in Windows}

ConnectReply(r, reconnect, recovering) ==
  [c |-> r.c, conn |-> r.conn, hdl |-> boot, reconnect |-> reconnect, recovering |-> recovering,
   lc |-> lastCommitted[r.c]]

\* target_handle_connect, for a client that has an export. Connects older than the last
\* one will be refused (-EALREADY), and the client ignores replies to its older ones.
Connect(r) ==
  LET e == exp[r.c]
      joins == Recovering /\ ~e.inrec
  IN  /\ e.live
      /\ conns' = {s \in conns : s.c = r.c => s.conn > r.conn}
      /\ exp' = [exp EXCEPT ![r.c] =
                   [e EXCEPT !.conn = r.conn, !.lastXid = 0, !.inrec = @ \/ joins, !.needed = @ \/ joins]]
      /\ reqs' = OldDropped(r.c, r.conn)
      /\ creps' = IF r.conn = imp[r.c].conn THEN creps \cup {ConnectReply(r, e.conn > 0, Recovering)} ELSE creps
      /\ UNCHANGED <<boot, reps, stage, next, queue, rcur, finalq, proc, lbug>>
      /\ UNCHANGED dataVars

\* target_handle_connect, for a client that was evicted: refused (-EBUSY) during a
\* recovery, otherwise a new export, which tells the client that it was evicted.
ConnectNew(r) ==
  /\ ~exp[r.c].live
  /\ conns' = conns \ {r}
  /\ creps' = IF Recovering \/ r.conn # imp[r.c].conn THEN creps
              ELSE creps \cup {[ConnectReply(r, FALSE, FALSE) EXCEPT !.lc = 0]}
  /\ UNCHANGED <<boot, reqs, reps, recoveryVars, dataVars>>

\* class_fail_export of the clients of S: class_export_recovery_cleanup, tgt_client_del.
\* The requests on their way will find no export.
Evict(S) ==
  LET busy == {p.m.c : p \in proc} \cup {m.c : m \in queue \cup rcur}
  IN  /\ exp' = [c \in Clients |-> IF c \in S THEN NewExport(FALSE, exp[c].conn) ELSE exp[c]]
      /\ ClientDel(S, busy)

(***************************************************************************)
(* Requests                                                                *)
(***************************************************************************)

\* ptlrpc_check_req: a replay outside a recovery.
Invalid(m) == m.kind # "op" /\ ~Recovering

\* ptlrpc_server_check_resend_in_progress.
ResendInProgress(m) == m.resent /\ \E p \in proc : p.m.c = m.c /\ p.m.xid = m.xid

\* The thread of another request of c has not yet looked for its reply data.
LookupPending(c) == \E p \in proc : p.m.c = c /\ p.m.kind # "final"

\* process_req_last_xid; and, for a final ping, target_process_req_flags.
LastXid(m) ==
  LET last == Highest({exp[m.c].lastXid, m.last})
      bad == m.xid <= last /\ m.kind # "replay"
  IN  /\ "lookup" \in Windows \/ ~LookupPending(m.c)
      /\ exp' = [exp EXCEPT ![m.c].lastXid = last, ![m.c].needed = @ /\ m.kind # "final"]
      /\ reply' = IF bad THEN reply ELSE [reply EXCEPT ![m.c] = ReleasedBy(@, m)]
      /\ proc' = IF bad THEN proc ELSE proc \cup {Work(m)}
      /\ IF bad THEN SendReply(Error(m)) ELSE UNCHANGED reps
      /\ UNCHANGED <<journal, committed, lastCommitted, transno>>

\* ptlrpc_check_req, ptlrpc_server_request_add and the start of tgt_request_handle: the
\* request is dropped, evicts its client, or passes. A reconnect that comes after
\* ptlrpc_check_req is seen by process_req_last_xid, which answers -ESTALE.
Arrive(m) ==
  /\ reqs' = reqs \ {m}
  /\ IF m.conn < exp[m.c].conn
       THEN /\ exp' = [exp EXCEPT ![m.c].lastXid = Highest({@, m.last})]
            /\ SendReply(Error(m))
            /\ UNCHANGED <<proc, dataVars>>
       ELSE IF Invalid(m) /\ exp[m.c].live
       THEN /\ Evict({m.c})
            /\ UNCHANGED <<proc, reps>>
       ELSE IF ResendInProgress(m) \/ ~exp[m.c].live
       THEN UNCHANGED <<exp, proc, reps, dataVars>>
       ELSE LastXid(m)
  /\ UNCHANGED <<boot, conns, creps, stage, next, queue, rcur, finalq, lbug>>

\* The operation is in the target's state: the versions of its objects have changed.
Performed(c, xid) == \E i \in DOMAIN journal : journal[i].kind = "op" /\ journal[i].c = c /\ journal[i].xid = xid

\* mdt_check_resent: a resent request that was executed is answered from its reply data;
\* any other is executed, but a replay of what is there already (mdt_version_check).
Answered(m) == m.resent /\ Saved(m.c, m.xid) # {}
Repeated(m) == m.kind = "replay" /\ Performed(m.c, m.xid)

\* The transno of the reply.
Answer(m) ==
  IF Answered(m) THEN (CHOOSE r \in Saved(m.c, m.xid) : TRUE).t
  ELSE IF Repeated(m) THEN m.t ELSE TransnoOf(m)

Handle(m) ==
  IF Answered(m) THEN UNCHANGED <<exp, dataVars>>
  ELSE IF Repeated(m) THEN exp' = [exp EXCEPT ![m.c].vbr = TRUE] /\ UNCHANGED dataVars
  ELSE Execute(m) /\ UNCHANGED exp

\* In a service thread: then target_committed_to_req, target_send_reply.
HandleNow(p) ==
  /\ Handle(p.m)
  /\ SendReply(Reply(p.m, Answer(p.m), lastCommitted[p.m.c]))

\* tgt_handle_recovery: a request that was executed must say that it is resent, or it
\* is refused (-ENOTCONN).
HandleOp(p) ==
  /\ p.m.kind = "op"
  /\ proc' = proc \ {p}
  /\ IF Saved(p.m.c, p.m.xid) # {} /\ ~p.m.resent
       THEN UNCHANGED <<reps, exp, dataVars>>
       ELSE HandleNow(p)
  /\ UNCHANGED <<boot, reqs, conns, creps, stage, next, queue, rcur, finalq, lbug>>

\* target_queue_recovery_request: a replay below obd_next_recovery_transno was handled,
\* or its transno was skipped, and the service thread handles it.
HandlePassed(p) ==
  /\ p.m.kind = "replay"
  /\ Recovering => p.m.t < next
  /\ proc' = proc \ {p}
  /\ HandleNow(p)
  /\ UNCHANGED <<boot, reqs, conns, creps, stage, next, queue, rcur, finalq, lbug>>

\* Mutant of Duplicate: a replay is compared with the queue only.
DuplicateQueued(m) == \E r \in queue : r.t = m.t /\ r.c = m.c

\* target_exp_enqueue_req_replay: the replays of the export, queued or being handled.
Duplicate(m) == \E r \in queue \cup rcur : r.t = m.t /\ r.c = m.c

\* target_queue_recovery_request: a replay is queued in the order of transnos, unless it
\* is there, or its transno is. It was compared with obd_next_recovery_transno before, and
\* obd_recovery_task_lock released in between: now, or when it came.
QueueReplay(p) ==
  LET m == p.m
      dropped == ~exp[m.c].inrec \/ Duplicate(m) \/ \E r \in queue : r.t = m.t
  IN  /\ m.kind = "replay"
      /\ (Recovering /\ m.t >= next) \/ m.t >= p.next
      /\ proc' = proc \ {p}
      /\ queue' = IF dropped THEN queue ELSE queue \cup {m}
      /\ lbug' = IF exp[m.c].inrec /\ ~exp[m.c].needed THEN "needed" ELSE lbug
      /\ UNCHANGED <<netVars, dataVars, exp, stage, next, rcur, finalq>>

\* target_queue_recovery_request: the final queue holds the last final ping of each
\* client; when the recovery is over the ping is answered.
QueueFinal(p) ==
  /\ p.m.kind = "final"
  /\ proc' = proc \ {p}
  /\ IF Recovering
       THEN /\ finalq' = {m \in finalq : m.c # p.m.c} \cup {p.m}
            /\ UNCHANGED reps
       ELSE /\ SendReply(Reply(p.m, 0, lastCommitted[p.m.c]))
            /\ UNCHANGED finalq
  /\ UNCHANGED <<boot, reqs, conns, creps, dataVars, exp, stage, next, queue, rcur, lbug>>

(***************************************************************************)
(* The recovery thread                                                     *)
(***************************************************************************)

\* check_for_recovery_ready: every client that is known has connected, or was evicted.
RecoveryReady ==
  /\ stage = "ready"
  /\ \A c \in Clients : exp[c].live => exp[c].inrec
  /\ stage' = "replay"
  /\ UNCHANGED <<netVars, dataVars, exp, next, queue, rcur, finalq, proc, lbug>>

Head1 == CHOOSE m \in queue : \A r \in queue : m.t <= r.t

\* Mutants of GapClosed: the gap is passed as soon as a request is there; or never.
GapClosedEarly == TRUE
GapClosedLate == Cardinality(queue) > Cardinality(Needed)

\* check_for_next_transno: the next transno is there, or a gap will not be filled since
\* every client that replays has a request in the queue, or no client replays.
GapClosed == Cardinality(queue) = Cardinality(Needed)

\* replay_request_or_update takes the first request of the queue; handle_recovery_req
\* skips those of an evicted client.
TakeNext ==
  LET m == Head1
      gap == m.t # next /\ GapClosed
  IN  /\ stage = "replay" /\ rcur = {} /\ queue # {}
      /\ m.t = next \/ GapClosed \/ Needed = {}
      /\ next' = IF gap THEN m.t ELSE next
      /\ lbug' = IF gap /\ m.t < next THEN "gap" ELSE lbug
      /\ queue' = queue \ {m}
      /\ IF exp[m.c].live
           THEN Handle(m) /\ SendReply(Reply(m, Answer(m), lastCommitted[m.c]))
           ELSE UNCHANGED <<reps, exp, dataVars>>
      /\ rcur' = {m}
      /\ UNCHANGED <<boot, reqs, conns, creps, stage, finalq, proc>>

\* obd_next_recovery_transno++ and target_exp_dequeue_req_replay, after the reply was sent.
Advance ==
  /\ rcur # {}
  /\ next' = next + 1
  /\ rcur' = {}
  /\ UNCHANGED <<netVars, dataVars, exp, stage, queue, finalq, proc, lbug>>

ReplayOver == stage = "replay" /\ rcur = {} /\ queue = {} /\ Needed = {}

VbrFailed == {c \in Clients : exp[c].live /\ exp[c].vbr}

\* replay_request_or_update: the clients that failed the version check are evicted.
EvictVbrFailed ==
  /\ ReplayOver /\ VbrFailed # {}
  /\ Evict(VbrFailed)
  /\ UNCHANGED <<netVars, stage, next, queue, rcur, finalq, proc, lbug>>

\* target_recovery_thread: the replay is over, tgt_boot_epoch_update, and then
\* obd_recovering is cleared.
FinishReplay ==
  /\ ReplayOver /\ VbrFailed = {}
  /\ stage' = "pings"
  /\ EpochUpdate({m.c : m \in finalq})
  /\ UNCHANGED <<netVars, exp, next, queue, rcur, finalq, proc, lbug>>

\* target_next_final_ping and handle_recovery_req.
FinalPing(m) ==
  /\ stage = "pings"
  /\ finalq' = finalq \ {m}
  /\ exp' = [exp EXCEPT ![m.c].inrec = FALSE]
  /\ IF exp[m.c].live THEN SendReply(Reply(m, 0, lastCommitted[m.c])) ELSE UNCHANGED reps
  /\ UNCHANGED <<boot, reqs, conns, creps, dataVars, stage, next, queue, rcur, proc, lbug>>

\* target_finish_recovery.
FinishRecovery ==
  /\ stage = "pings" /\ finalq = {}
  /\ stage' = "none"
  /\ lbug' = IF queue # {} THEN "queue" ELSE lbug
  /\ UNCHANGED <<netVars, dataVars, exp, next, queue, rcur, finalq, proc>>

\* Mutant of Healthy: a client that has connected is.
HealthyConnected(c) == exp[c].inrec

\* exp_connect_healthy; exp_req_replay_healthy.
Healthy(c) ==
  /\ exp[c].inrec
  /\ stage = "replay" => ~exp[c].needed \/ \E m \in queue : m.c = c

\* target_recovery_expired, target_recovery_overseer: the timer, which the first connect
\* starts, evicts the clients that are not healthy.
Expire ==
  LET sick == {c \in Clients : exp[c].live /\ ~Healthy(c)}
  IN  /\ Recovering /\ rcur = {} /\ sick # {}
      /\ Cardinality({c \in Clients : c \in sick \/ ~exp[c].live}) <= MaxEvict
      /\ \E c \in Clients : exp[c].conn > 0
      /\ Evict(sick)
      /\ UNCHANGED <<netVars, stage, next, queue, rcur, finalq, proc, lbug>>

(***************************************************************************)
(* The target restarts: tgt_server_data_init, target_recovery_init.        *)
(***************************************************************************)
Crash ==
  /\ boot <= MaxCrash
  /\ boot' = boot + 1
  /\ Reload
  /\ exp' = [c \in Clients |-> NewExport(c \in Known, 0)]
  /\ stage' = IF Known = {} THEN "none" ELSE "ready"
  /\ next' = TransnoLoaded + 1
  /\ reqs' = {} /\ queue' = {} /\ rcur' = {} /\ finalq' = {} /\ proc' = {}
  /\ UNCHANGED <<reps, conns, creps, lbug>>

ServiceThread ==
  \E p \in proc :
    HandleOp(p) \/ HandlePassed(p) \/ QueueReplay(p) \/ QueueFinal(p)

RecoveryThread ==
  \/ RecoveryReady \/ TakeNext \/ EvictVbrFailed \/ FinishReplay \/ FinishRecovery
  \/ Advance
  \/ \E m \in finalq : FinalPing(m)

TargetNext ==
  \/ \E r \in conns : Connect(r) \/ ConnectNew(r)
  \/ \E m \in reqs : Arrive(m)
  \/ ServiceThread
  \/ RecoveryThread
  \/ Expire
  \/ Commit /\ UNCHANGED <<netVars, recoveryVars>>
  \/ Crash
=============================================================================

------------------------------ MODULE Recovery ------------------------------
(***************************************************************************)
(* A target, its clients and the network between them: each modifying      *)
(* request takes effect exactly once, through lost and late messages,      *)
(* reconnections, and restarts of the target followed by recovery.         *)
(***************************************************************************)
EXTENDS TargetRecovery, PtlrpcImport

vars == <<netVars, dataVars, recoveryVars, imp>>

Init ==
  /\ boot = 1 /\ reqs = {} /\ reps = {} /\ conns = {} /\ creps = {}
  /\ ReplyDataInit
  /\ RecoveryInit
  /\ ImportInit

\* A message that is lost is one that is never delivered; the client sees a timeout.
ClientStep(c) ==
  \/ Send(c)
  \/ Reconnect(c)
  \/ \E r \in reps : RecvReply(c, r) \/ RecvReplay(c, r) \/ RecvFinal(c, r)
  \/ \E r \in creps : RecvConnect(c, r)

\* A failed assertion stops the target.
Next ==
  /\ lbug = "none"
  /\ \/ TargetNext /\ UNCHANGED imp
     \/ \E c \in Clients : ClientStep(c) /\ UNCHANGED <<dataVars, recoveryVars>>

Spec == Init /\ [][Next]_vars

\* The threads of the target run, and the recovery timer expires. Nothing is assumed of
\* the clients and the network.
Fairness ==
  /\ WF_vars(lbug = "none" /\ ServiceThread /\ UNCHANGED imp)
  /\ WF_vars(lbug = "none" /\ RecoveryThread /\ UNCHANGED imp)
  /\ WF_vars(lbug = "none" /\ Expire /\ UNCHANGED imp)

FairSpec == Spec /\ Fairness

(***************************************************************************)
(* What the protocol promises.                                             *)
(***************************************************************************)

Executions == {i \in DOMAIN journal : journal[i].kind = "op"}

\* How many of the first i transactions are executions of the request of the i-th.
Times(i) == Cardinality({k \in Executions : k <= i /\ journal[k].c = journal[i].c /\ journal[k].xid = journal[i].xid})

\* The operations that take effect again if they were lost: their clients have not
\* recovered yet and replay them, or will when a reply that is on its way has come.
Replayed ==
  UNION {{<<c, q.xid, 1>> : q \in imp[c].replay} : c \in {d \in Clients : imp[d].state # "FULL" \/ imp[d].hdl # boot}}
    \cup {<<r.c, r.xid, 1>> : r \in {s \in reps : s.t > 0}}

Promise == INSTANCE ExactlyOnce WITH
  Ops <- 1 .. MaxOps + MaxConn,
  effect <- {<<journal[i].c, journal[i].xid, Times(i)>> : i \in Executions} \cup Replayed,
  acked <- [c \in Clients |-> imp[c].acked],
  member <- {c \in Clients : imp[c].state # "EVICTED"}

\* Resending, reply data and replay together implement ExactlyOnce: no request is
\* executed twice, although replies are lost and requests resent or replayed, and when a
\* client has recovered (IMP_FULL) all that was acknowledged to it is there, although the
\* target crashed before it had committed. What mdt_check_resent finds must not have been
\* released by process_req_last_xid, and what after_reply retains must cover what did not
\* commit.
ImplementsExactlyOnce == Promise!Spec

(***************************************************************************)
(* Invariants.                                                             *)
(***************************************************************************)

MsgOK(m) ==
  /\ m.kind \in {"op", "replay", "final"} /\ m.c \in Clients
  /\ m.xid \in Nat /\ m.t \in Nat /\ m.conn \in 1 .. MaxConn + 1 /\ m.last < m.xid

\* Types. A request never tells the target that its own reply was received; the recovery
\* thread has one request, a client one replay in flight and one retained reply.
TypeOK ==
  /\ boot \in 1 .. MaxCrash + 1
  /\ committed \in 0 .. Len(journal)
  /\ \A m \in reqs \cup queue \cup finalq \cup rcur \cup {p.m : p \in proc} : MsgOK(m)
  /\ stage \in {"none", "ready", "replay", "pings"}
  /\ Cardinality(rcur) <= 1 /\ lbug \in {"none", "gap", "needed", "queue"}
  /\ \A c \in Clients :
       /\ imp[c].state \in {"FULL", "CONNECTING", "REPLAY", "REPLAY_WAIT", "EVICTED"}
       /\ exp[c].conn <= imp[c].conn
       /\ Cardinality(imp[c].cur) <= 1 /\ Cardinality(reply[c].last) <= 1

Member(c) == exp[c].live /\ imp[c].state # "EVICTED"

\* The operations of the clients that were not evicted are executed in the order of their
\* transnos, those replayed after a restart included: check_for_next_transno passes a gap
\* only when no client can fill it any more.
ReplayInOrder ==
  \A i, k \in Executions :
    i < k /\ Member(journal[i].c) /\ Member(journal[k].c) => journal[i].t < journal[k].t

\* A target does not go back behind the last committed transno that it has told a client
\* (ptlrpc_connect_interpret: "went back in time"): the client has dropped what is below.
LastCommittedKept == \A c \in Clients : Member(c) => lastCommitted[c] >= imp[c].committed

\* A replay that was compared with obd_next_recovery_transno before that moved past it, and
\* queued after (target_queue_recovery_request).
Overtaken == \E m \in queue : m.t < next

\* When every client is healthy the recovery thread has something to do: otherwise it
\* would wait for ever, since the timer (target_recovery_overseer) has nobody to evict. But
\* for overtaken replays, that is.
RecoveryNotStuck ==
  stage = "replay" /\ rcur = {} /\ proc = {} /\ ~Overtaken
    /\ (\A c \in Clients : exp[c].live => Healthy(c)) =>
    ReplayOver \/ (queue # {} /\ (Head1.t = next \/ GapClosed \/ Needed = {}))

\* check_for_next_transno compares the number of queued replays with the number of clients
\* that replay. It may: a client has one replay in the queue that the thread has still to
\* handle, however often it reconnects and sends again (target_exp_enqueue_req_replay).
ReplayCountedOnce ==
  \A m, r \in queue : m.c = r.c /\ m.t >= next /\ r.t >= next => m = r

\* LASSERTF(req_transno >= next_transno) of check_for_next_transno.
GapAhead == lbug # "gap"

\* LASSERT(exp_req_replay_needed) of target_queue_recovery_request.
ReplayNeeded == lbug # "needed"

(***************************************************************************)
(* Liveness.                                                               *)
(***************************************************************************)

\* A recovery that a client has joined ends, whatever the clients do: those that do not
\* connect, or stop replaying, are evicted by the timer. A failed assertion stops it, and an
\* overtaken replay may.
RecoveryEnds ==
  []<>(~Recovering \/ (\A c \in Clients : exp[c].conn = 0) \/ Overtaken \/ lbug # "none")
=============================================================================

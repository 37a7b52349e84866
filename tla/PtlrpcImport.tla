---------------------------- MODULE PtlrpcImport ----------------------------
(***************************************************************************)
(* The client's side: the import of a target (import.c, recover.c,         *)
(* client.c). It gives each modifying request an xid and a tag, keeps the  *)
(* requests that were answered and have not committed for replay, and on a *)
(* lost connection connects again, replays them in the order of their      *)
(* transnos if the target recovers, and resends what was not answered.     *)
(***************************************************************************)
EXTENDS RecoveryNet

CONSTANTS
  Tags,      \* the tags of a client's modify RPC slots
  MaxOps,    \* bound: modifying requests of all clients
  MaxConn    \* bound: connects of all clients after their first

(***************************************************************************)
(* An import: state is imp_state, with CONNECTING for DISCON too and FULL  *)
(* for RECOVER; replayState is imp_replay_state; resendReplay is           *)
(* imp_resend_replay; conn is imp_conn_cnt; hdl the incarnation of         *)
(* imp_remote_handle; xid the last one assigned; sending imp_sending_list; *)
(* replay imp_replay_list; unreplied the xids of imp_unreplied_list;       *)
(* committed imp_peer_committed_transno; lastReplay                        *)
(* imp_last_replay_transno; cur the replay or final ping in flight; acked  *)
(* the xids of the requests that succeeded; ops how many it has sent.      *)
(***************************************************************************)
ImportInit ==
  imp = [c \in Clients |->
          [state |-> "FULL", replayState |-> "REPLAY", resendReplay |-> FALSE,
           conn |-> 1, hdl |-> 1, xid |-> 0,
           sending |-> {}, replay |-> {}, unreplied |-> {}, committed |-> 0,
           lastReplay |-> 0, cur |-> {}, acked |-> {}, ops |-> 0]]

\* The import of c becomes i, having sent the requests ms; rep is the reply it took.
\* A request with the handle of an old incarnation is refused (-ENOTCONN), which sends
\* the client to ptlrpc_connect_import as a timeout does.
Become(c, i, ms, rep) ==
  /\ imp' = [imp EXCEPT ![c] = i]
  /\ reqs' = IF i.hdl = boot THEN reqs \cup ms ELSE reqs
  /\ reps' = {r \in reps \ rep : r.c = c => Awaited(i, r)}

\* Mutant of KnownReplied: the xid of the request itself.
KnownRepliedOwn(i) == i.xid

\* ptlrpc_known_replied_xid: all the xids below the lowest unreplied one.
KnownReplied(i) == Min(i.unreplied) - 1

(***************************************************************************)
(* Modifying requests                                                      *)
(***************************************************************************)

\* obd_get_mod_rpc_slot: the lowest tag that is free.
FreeTags(c) == Tags \ {q.tag : q \in imp[c].sending}

\* ptlrpc_assign_next_xid, obd_get_mod_rpc_slot and ptlrpc_send_new_req.
Send(c) ==
  LET x == imp[c].xid + 1
      i == [imp[c] EXCEPT !.xid = x, !.unreplied = @ \cup {x}]
      q == [xid |-> x, t |-> 0, tag |-> Min(FreeTags(c)), last |-> KnownReplied(i)]
  IN  /\ imp[c].state = "FULL"
      /\ Cardinality({d \in Clients \X (1 .. MaxOps) : d[2] <= imp[d[1]].ops}) < MaxOps
      /\ FreeTags(c) # {}
      /\ Become(c, [i EXCEPT !.sending = @ \cup {q}, !.ops = @ + 1],
                {Request("op", c, q, FALSE, i.conn, q.last)}, {})
      /\ UNCHANGED <<boot, conns, creps>>

Uncommitted(i) == {q \in i.replay : q.t > i.committed}

\* after_reply: the last committed transno of the reply, and ptlrpc_free_committed.
AfterReply(i, lc) ==
  LET k == [i EXCEPT !.committed = Highest({@, lc})]
  IN  [k EXCEPT !.replay = Uncommitted(k)]

\* Mutant of Retain: the last committed transno is off by one.
RetainOff(q, i, r) == r.t > r.lc + 1

\* after_reply: an answered request is kept for replay unless it has committed.
Retain(q, i, r) == r.t > r.lc

\* after_reply of a modifying request, and obd_put_mod_rpc_slot.
RecvReply(c, r) ==
  \E q \in imp[c].sending :
    LET i == [imp[c] EXCEPT !.sending = @ \ {q}, !.unreplied = @ \ {q.xid}]
        kept == IF Retain(q, i, r) THEN {[xid |-> q.xid, t |-> r.t, tag |-> q.tag, resent |-> FALSE]} ELSE {}
    IN  /\ r.c = c /\ r.xid = q.xid
        /\ Become(c, IF r.ok THEN AfterReply([i EXCEPT !.replay = @ \cup kept, !.acked = @ \cup {q.xid}], r.lc)
                             ELSE i,
                  {}, {r})
        /\ UNCHANGED <<boot, conns, creps>>

(***************************************************************************)
(* Connecting                                                              *)
(***************************************************************************)

\* A request, a ping or the connect itself times out: ptlrpc_set_import_discon,
\* ptlrpc_connect_import. What was in flight for recovery is given up, and the replies
\* of earlier connects will be ignored (imp_conn_cnt).
Reconnect(c) ==
  LET i == [imp[c] EXCEPT !.state = "CONNECTING", !.conn = @ + 1, !.cur = {},
                          !.unreplied = @ \ {q.xid : q \in imp[c].cur}]
  IN  /\ imp[c].state # "EVICTED"
      /\ imp[c].state = "FULL" => imp[c].sending # {} \/ imp[c].hdl # boot
      /\ Cardinality({d \in Clients \X (1 .. MaxConn) : d[2] < imp[d[1]].conn}) < MaxConn
      /\ Become(c, i, {}, {})
      /\ conns' = conns \cup {[c |-> c, conn |-> i.conn]}
      /\ creps' = {r \in creps : r.c # c}
      /\ UNCHANGED boot

(***************************************************************************)
(* Recovery: an import and the requests it sends, ptlrpc_import_recovery_  *)
(* state_machine.                                                          *)
(***************************************************************************)

\* IMP_RECOVER: ptlrpc_resend sends again what was not answered, then IMP_FULL.
Resend(c, i) ==
  [i |-> [i EXCEPT !.state = "FULL", !.replayState = "REPLAY", !.cur = {}],
   ms |-> {Request("op", c, q, TRUE, i.conn, q.last) : q \in i.sending}]

\* IMP_REPLAY_WAIT: signal_completed_replay (there are no locks to replay).
SignalCompleted(c, i) ==
  LET q == [xid |-> i.xid + 1, t |-> 0, tag |-> 0]
      k == [i EXCEPT !.state = "REPLAY_WAIT", !.replayState = "REPLAY_LOCKS", !.xid = q.xid,
                     !.unreplied = @ \cup {q.xid}, !.cur = {q}]
  IN  [i |-> k, ms |-> {Request("final", c, q, FALSE, k.conn, KnownReplied(k))}]

\* ptlrpc_replay_next: the next request in the order of transnos, or the end of the replay.
ReplayNext(c, i) ==
  LET rest == {q \in i.replay : q.t > i.lastReplay}
      q == CHOOSE r \in rest : \A s \in rest : r.t <= s.t
      sent == [q EXCEPT !.resent = @ \/ i.resendReplay]
      k == [i EXCEPT !.state = "REPLAY", !.replayState = "REPLAY", !.resendReplay = FALSE, !.cur = {sent},
                     !.replay = (@ \ {q}) \cup {sent}, !.unreplied = @ \cup {q.xid}]
  IN  IF rest = {} THEN SignalCompleted(c, [i EXCEPT !.resendReplay = FALSE])
      ELSE [i |-> k, ms |-> {Request("replay", c, sent, sent.resent, k.conn, KnownReplied(k))}]

\* ptlrpc_prepare_replay: what will be replayed is unreplied again.
PrepareReplay(i) ==
  IF i.resendReplay THEN i ELSE [i EXCEPT !.unreplied = @ \cup {q.xid : q \in i.replay}]

Evicted(i) == [i |-> [i EXCEPT !.state = "EVICTED", !.sending = {}, !.replay = {}, !.unreplied = {}], ms |-> {}]

\* ptlrpc_connect_interpret: what the flags of the reply make of the import.
ConnectInterpret(c, i, r) ==
  LET again == [i EXCEPT !.resendReplay = TRUE]
  IN  CASE r.reconnect /\ r.recovering /\ i.replayState = "REPLAY" -> ReplayNext(c, again)
        [] r.reconnect /\ r.recovering /\ i.replayState # "REPLAY" -> SignalCompleted(c, again)
        [] r.reconnect /\ ~r.recovering /\ imp[c].hdl = r.hdl      -> Resend(c, i)
        [] ~r.reconnect /\ r.recovering -> ReplayNext(c, PrepareReplay([i EXCEPT !.lastReplay = 0]))
        [] OTHER -> Evicted(i)

\* The reply of the last connect request. Replies of an older incarnation do not
\* arrive after it.
RecvConnect(c, r) ==
  LET n == ConnectInterpret(c, [AfterReply(imp[c], r.lc) EXCEPT !.hdl = r.hdl], r)
  IN  /\ r.c = c
      /\ Become(c, n.i, n.ms, IF r.hdl = imp[c].hdl THEN {} ELSE {s \in reps : s.c = c})
      /\ creps' = creps \ {r}
      /\ UNCHANGED <<boot, conns>>

\* ptlrpc_replay_interpret: whatever the status, the replay goes on with the next one.
RecvReplay(c, r) ==
  \E q \in imp[c].cur :
    LET again == IF r.t > r.lc THEN [q EXCEPT !.resent = FALSE] ELSE q
        i == [imp[c] EXCEPT !.unreplied = @ \ {q.xid}, !.lastReplay = q.t, !.cur = {},
                            !.replay = (@ \ {q}) \cup {again}]
        n == ReplayNext(c, AfterReply(i, r.lc))
    IN  /\ imp[c].state = "REPLAY" /\ r.c = c /\ r.xid = q.xid
        /\ Become(c, n.i, n.ms, {r})
        /\ UNCHANGED <<boot, conns, creps>>

\* completed_replay_interpret; an error sends the import to ptlrpc_connect_import.
RecvFinal(c, r) ==
  \E q \in imp[c].cur :
    LET n == Resend(c, [AfterReply(imp[c], r.lc) EXCEPT !.unreplied = @ \ {q.xid}])
    IN  /\ imp[c].state = "REPLAY_WAIT" /\ r.c = c /\ r.xid = q.xid /\ r.ok
        /\ Become(c, n.i, n.ms, {r})
        /\ UNCHANGED <<boot, conns, creps>>
=============================================================================

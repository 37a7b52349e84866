---------------------------- MODULE RecoveryNet ----------------------------
(***************************************************************************)
(* The messages between the imports of the clients and a target. A message *)
(* is delivered at most once, in any order, after any delay, or never.     *)
(***************************************************************************)
EXTENDS Integers, Sequences, FiniteSets, FiniteSetsExt, SequencesExt

CONSTANTS
  Clients,   \* the clients of the target
  NoClient   \* a value that is not a client

VARIABLES
  boot,      \* the incarnation of the target; its exports' handles are new in each
  reqs,      \* requests on their way to the target
  reps,      \* replies on their way to the clients
  conns,     \* connect requests
  creps,     \* replies to connect requests
  imp        \* [Clients -> the import], of PtlrpcImport

netVars == <<boot, reqs, reps, conns, creps>>

\* A modifying request ("op"), its replay, or the ping that ends the replay of a client
\* ("final", MSG_REQ_REPLAY_DONE | MSG_LOCK_REPLAY_DONE).
Request(kind, c, r, resent, conn, last) ==
  [kind |-> kind, c |-> c, xid |-> r.xid, t |-> r.t, tag |-> r.tag,
   resent |-> resent, conn |-> conn, last |-> last]

\* target_send_reply and ptlrpc_error; target_committed_to_req puts exp_last_committed
\* in the replies that are not errors.
Reply(m, t, lc) == [c |-> m.c, xid |-> m.xid, t |-> t, lc |-> lc, ok |-> TRUE]
Error(m) == [c |-> m.c, xid |-> m.xid, t |-> 0, lc |-> 0, ok |-> FALSE]

\* The import has, or may come to have, a buffer for the reply: it is of a request that
\* was sent and not answered, or of one to replay. LNet drops the other replies.
Awaited(i, r) ==
  \/ r.xid \in {q.xid : q \in i.sending \cup i.cur}
  \/ i.state # "FULL" /\ r.xid \in {q.xid : q \in i.replay}

SendReply(r) == reps' = IF Awaited(imp[r.c], r) THEN reps \cup {r} ELSE reps

Highest(S) == Max(S \cup {0})
=============================================================================

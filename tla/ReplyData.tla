----------------------------- MODULE ReplyData -----------------------------
(***************************************************************************)
(* What a target keeps to execute each request of a client exactly once    *)
(* (tgt_lastrcvd.c): the reply data of its modifying requests, in a slot   *)
(* of the reply_data file, written in the transaction of the operation,    *)
(* and on the export's ted_reply_list until the client says that it got    *)
(* the reply; and, per client, the last committed transno.                 *)
(*                                                                         *)
(* The journal is a sequence of transactions of which a prefix is on disk. *)
(* A transaction is the execution of a request ("op", which fills a reply  *)
(* slot), or an update of last_rcvd: of the record of a client ("lcd"), of *)
(* the server's header ("lsd"), or the removal of a client ("del").        *)
(***************************************************************************)
EXTENDS RecoveryNet

CONSTANTS
  EpochSize       \* transnos of an epoch, 1 << LR_EPOCH_BITS

VARIABLES
  journal,        \* transactions executed, [kind, c, xid, t, slot]
  committed,      \* how many of them are on disk
  reply,          \* [Clients -> [list, last, lcd]]: ted_reply_list, ted_reply_last, lcd_last_transno
  lastCommitted,  \* [Clients -> exp_last_committed]
  transno         \* lut_last_transno

dataVars == <<journal, committed, reply, lastCommitted, transno>>

NoReplies == [list |-> {}, last |-> {}, lcd |-> 0]

ReplyDataInit ==
  /\ journal = <<>> /\ committed = 0
  /\ reply = [c \in Clients |-> NoReplies]
  /\ lastCommitted = [c \in Clients |-> 0]
  /\ transno = EpochSize

(***************************************************************************)
(* Releasing reply data                                                    *)
(***************************************************************************)

\* tgt_release_reply_data: the reply data of the highest transno of the export
\* keeps its slot, in the place of the one retained before.
Retained(d, released) ==
  LET highest == {r \in released : r.t = d.lcd}
  IN  IF highest = {} THEN d.last ELSE highest

Release(d, released) ==
  [d EXCEPT !.list = @ \ released, !.last = Retained(d, released)]

\* Mutant of Received: off by one.
ReceivedAll(d, xid) == {r \in d.list : r.xid <= xid + 1}

\* tgt_handle_received_xid: the client has the replies up to this xid.
Received(d, xid) == {r \in d.list : r.xid <= xid}

\* tgt_handle_tag: the client reuses a tag, so it got the reply of the request that
\* had it; the first of the list is the one executed last.
Tagged(d, tag) ==
  LET same == {r \in d.list : tag # 0 /\ r.tag = tag}
  IN  {r \in same : \A s \in same : s.t <= r.t}

\* What process_req_last_xid releases: a resent or replayed request keeps its tag.
ReleasedBy(d, m) ==
  LET rest == Release(d, Received(d, m.last))
  IN  IF m.resent \/ m.kind = "replay" THEN rest ELSE Release(rest, Tagged(rest, m.tag))

(***************************************************************************)
(* Executing a request                                                     *)
(***************************************************************************)

\* tgt_lookup_reply_by_xid.
Saved(c, xid) == {r \in reply[c].list : r.xid = xid}

UsedSlots == {r.slot : r \in UNION {reply[c].list \cup reply[c].last : c \in Clients}}

\* tgt_find_free_reply_slot: the first zero bit of the slot bitmap.
FreeSlot == Min((0 .. Cardinality(UsedSlots)) \ UsedSlots)

\* tgt_last_rcvd_update: the transno of a replay is the one it had, a new one otherwise.
TransnoOf(m) == IF m.t = 0 THEN transno + 1 ELSE m.t

\* tgt_last_rcvd_update and tgt_add_reply_data, in the transaction of the operation.
Execute(m) ==
  LET t == TransnoOf(m)
      s == FreeSlot
  IN  /\ transno' = Highest({transno, t})
      /\ journal' = Append(journal, [kind |-> "op", c |-> m.c, xid |-> m.xid, t |-> t, slot |-> s])
      /\ reply' = [reply EXCEPT ![m.c].list = @ \cup {[xid |-> m.xid, t |-> t, tag |-> m.tag, slot |-> s]},
                                ![m.c].lcd = Highest({@, t})]
      /\ UNCHANGED <<committed, lastCommitted>>

(***************************************************************************)
(* The journal                                                             *)
(***************************************************************************)

Update(kind, c, t) == [kind |-> kind, c |-> c, xid |-> 0, t |-> t, slot |-> 0]

\* exp_last_committed after the commit callbacks of the first n transactions of j.
CommittedUpTo(j, n) ==
  [c \in Clients |->
     Highest({lastCommitted[c]} \cup {j[i].t : i \in {k \in 1 .. n : j[k].kind = "op" /\ j[k].c = c}})]

\* The journal commits its oldest transaction, tgt_cb_last_committed is called.
Commit ==
  /\ committed < Len(journal)
  /\ committed' = committed + 1
  /\ lastCommitted' = CommittedUpTo(journal, committed + 1)
  /\ UNCHANGED <<journal, reply, transno>>

\* tgt_client_del of the clients of S and, unless a request still refers to the
\* export, tgt_client_free.
ClientDel(S, busy) ==
  /\ journal' = journal \o SetToSeq({Update("del", c, transno) : c \in S})
  /\ reply' = [c \in Clients |-> IF c \in S \ busy THEN NoReplies ELSE reply[c]]
  /\ UNCHANGED <<committed, lastCommitted, transno>>

\* tgt_boot_epoch_update: a new epoch of transnos; the records of the clients that
\* recovered and the server's header are written, synchronously.
EpochUpdate(recovered) ==
  LET t == ((transno \div EpochSize) + 1) * EpochSize
      lcds == SetToSeq({Update("lcd", c, reply[c].lcd) : c \in recovered})
      j == journal \o Append(lcds, Update("lsd", NoClient, t))
  IN  /\ journal' = j
      /\ committed' = Len(j)
      /\ lastCommitted' = CommittedUpTo(j, Len(j))
      /\ transno' = t
      /\ UNCHANGED reply

(***************************************************************************)
(* Restart                                                                 *)
(***************************************************************************)

OnDisk(kind) == {i \in 1 .. committed : journal[i].kind = kind}

\* tgt_clients_data_init: the clients with a record in last_rcvd.
Known == {c \in Clients : \A i \in OnDisk("del") : journal[i].c # c}

\* The reply_data file: the last transaction that wrote each slot.
SlotsOnDisk == {i \in OnDisk("op") : \A k \in OnDisk("op") : journal[k].slot = journal[i].slot => k <= i}

\* tgt_reply_data_init: the reply data of the clients that are known, without their tags.
RepliesOnDisk(c) ==
  {[xid |-> journal[i].xid, t |-> journal[i].t, tag |-> 0, slot |-> journal[i].slot] :
     i \in {k \in SlotsOnDisk : journal[k].c = c /\ c \in Known}}

\* lcd_last_transno as read from last_rcvd; tgt_reply_data_init leaves it alone.
LcdLoaded(c) == Highest({journal[i].t : i \in {k \in OnDisk("lcd") : journal[k].c = c}})

\* Mutant of LastCommittedLoaded: the reply data do not count.
LastCommittedLoadedLcd(c) == LcdLoaded(c)

\* exp_last_committed, as tgt_reply_data_init restores it.
LastCommittedLoaded(c) == Highest({LcdLoaded(c)} \cup {r.t : r \in RepliesOnDisk(c)})

\* lut_last_transno, and obd_last_committed, after tgt_server_data_init.
TransnoLoaded ==
  Highest({EpochSize} \cup {LastCommittedLoaded(c) : c \in Known}
            \cup {journal[i].t : i \in OnDisk("lsd") \cup OnDisk("del")})

\* The target crashes and starts again: what did not commit is lost.
Reload ==
  /\ journal' = SubSeq(journal, 1, committed)
  /\ reply' = [c \in Clients |-> [list |-> RepliesOnDisk(c), last |-> {}, lcd |-> LcdLoaded(c)]]
  /\ lastCommitted' = [c \in Clients |-> LastCommittedLoaded(c)]
  /\ transno' = TransnoLoaded
  /\ UNCHANGED committed
=============================================================================

----------------------------- MODULE FidServer -----------------------------
(***************************************************************************)
(* The sequence controller and the sequence servers (fid_handler.c,        *)
(* fid_store.c).  The controller (MDT0) hands super-sequences to the       *)
(* servers, a server hands meta-sequences to its clients.  A server runs   *)
(* ahead of its disk: it hands out of the low-water set while the write    *)
(* that takes the high-water set off the space on disk may not be          *)
(* committed yet.                                                          *)
(*                                                                         *)
(* Two threads of a server ask the controller for a super-sequence: the    *)
(* handler of a client's request ("meta"), which holds lss_mutex, and the  *)
(* callback of the connection to MDT0 ("lwp"), which does not.             *)
(***************************************************************************)
EXTENDS SeqRange

CONSTANTS
    Server, Client,
    ServerOf,      \* [Client -> Server]
    Space0,        \* LUSTRE_SEQ_SPACE_RANGE
    SuperWidth, SetWidth, MetaWidth,
    Specs,         \* ranges the administrator may assign by hand
    Exports,       \* numbers of exports a server may have
    Lwp,           \* servers with an LWP callback: the MDTs but MDT0
    WriteFails,    \* the stores whose writes may fail, of "ctl" and "srv"
    NoServer

Actor == {"meta", "lwp"}

ASSUME FidAssumption ==
    /\ ServerOf \in [Client -> Server]
    /\ Space0 \in Range /\ IsSane(Space0) /\ Space0.start > 0
    /\ SuperWidth \in Nat \ {0} /\ SetWidth \in Nat \ {0}
    /\ MetaWidth \in Nat \ {0} /\ Exports \subseteq Nat
    /\ Specs \subseteq Range /\ \A r \in Specs : r.end <= Space0.end
    /\ Lwp \subseteq Server
    /\ NoServer \notin Server

VARIABLES
    ctl,       \* the controller: lss_space in memory and on disk
    fldb,      \* the FLDB on MDT0: which server a sequence belongs to
    space,     \* lss_space
    lo,        \* lss_lowater_set
    hi,        \* lss_hiwater_set
    needSync,  \* lss_need_sync
    disk,      \* the committed contents of the seq_srv file
    pend,      \* the write to it that is not committed yet, if any
    cb,        \* seq_update_cb has still to run
    conn,      \* lcs_exp of lss_cli is set, since the connection to MDT0
    cli,       \* lss_cli->lcs_space
    pc,        \* where the two threads are
    rpc,       \* which of them holds lcs_mutex, asking the controller
    sup,       \* the controller's answer: no, one range, or an error
    req,       \* clients that wait for a meta-sequence
    rep,       \* and the answers to them
    serving,   \* the client the handler works for
    given,     \* history: the sequences each server handed out
    twice      \* history: those handed out more than once

store == <<disk, pend, cb, needSync>>
sets == <<space, lo, hi>>
calls == <<req, rep, serving>>
history == <<given, twice>>
fvars == <<ctl, fldb, sets, store, conn, cli, pc, rpc, sup, calls, history>>

Pc == {"idle", "check", "super", "rpc", "copy", "sets", "fail"}

Seqs == Within(Space0)

None == {}               \* no answer, no write
Error == {Zero}          \* an answer that is not a range
FidServerInit ==
    /\ ctl = [space |-> Space0, disk |-> Space0]
    /\ fldb = [q \in Seqs |-> NoServer]
    /\ space = [s \in Server |-> Zero]
    /\ lo = [s \in Server |-> Zero]
    /\ hi = [s \in Server |-> Zero]
    /\ disk = [s \in Server |-> Zero]
    /\ pend = [s \in Server |-> {Zero}]
    /\ cb = [s \in Server |-> TRUE]
    /\ needSync = [s \in Server |-> TRUE]
    /\ conn = [s \in Server |-> FALSE]
    /\ cli = [s \in Server |-> Zero]
    /\ pc = [s \in Server |-> [a \in Actor |-> "idle"]]
    /\ rpc = [s \in Server |-> "none"]
    /\ sup = [s \in Server |-> None]
    /\ req = {}
    /\ rep = [c \in Client |-> None]
    /\ serving = [s \in Server |-> {}]
    /\ given = [s \in Server |-> {}]
    /\ twice = {}
-----------------------------------------------------------------------------
(* The controller: seq_server_alloc_super and seq_server_alloc_spec.  The  *)
(* write of the space and of the FLDB entries is one transaction, and      *)
(* synchronous; if it fails, memory keeps the new space.                   *)

\* seq_store_update with out # NULL.  A write that fails in fld_server_create
\* leaves the new space in a transaction that commits all the same.
CtlStoreLater(rest, owner, out) ==  \* mutant: the write is not synchronous
    /\ ctl' = [ctl EXCEPT !.space = rest]
    /\ fldb' = [q \in Seqs |-> IF q \in Within(out) THEN owner ELSE fldb[q]]
CtlStore(rest, owner, out) ==
    /\ ctl' = [space |-> rest, disk |-> rest]
    /\ fldb' = [q \in Seqs |-> IF q \in Within(out) THEN owner ELSE fldb[q]]

CtlStoreFails(rest) ==
    /\ "ctl" \in WriteFails
    /\ \E d \in {ctl.disk, rest} : ctl' = [space |-> rest, disk |-> d]
    /\ UNCHANGED fldb

\* __seq_server_alloc_super, answering the server that holds its lcs_mutex.
AllocSuper(s) ==
    LET out == Taken(ctl.space, SuperWidth)
        rest == Left(ctl.space, SuperWidth) IN
    /\ rpc[s] # "none" /\ sup[s] = None
    /\ \/ /\ IsExhausted(ctl.space)
          /\ sup' = [sup EXCEPT ![s] = Error]
          /\ UNCHANGED <<ctl, fldb>>
       \/ /\ ~IsExhausted(ctl.space)
          /\ CtlStore(rest, s, out)
          /\ sup' = [sup EXCEPT ![s] = {out}]
       \/ /\ ~IsExhausted(ctl.space)
          /\ CtlStoreFails(rest)
          /\ sup' = [sup EXCEPT ![s] = Error]
    /\ UNCHANGED <<sets, store, conn, cli, pc, rpc, calls, history>>

\* seq_server_alloc_spec: the administrator assigns a range by hand.
AllocSpec(s, spec) ==
    LET rest == [ctl.space EXCEPT !.start = spec.end] IN
    /\ spec.start < spec.end /\ spec.start >= ctl.space.start
    /\ CtlStore(rest, s, spec) \/ CtlStoreFails(rest)
    /\ UNCHANGED <<sets, store, conn, cli, pc, rpc, sup, calls, history>>

\* The controller restarts (seq_server_init, seq_store_read).
CtlRestart ==
    /\ ctl' = [ctl EXCEPT !.space = ctl.disk]
    /\ UNCHANGED <<fldb, sets, store, conn, cli, pc, rpc, sup, calls, history>>

-----------------------------------------------------------------------------
(* The server's store: seq_store_update with out = NULL.                   *)

\* A synchronous write commits, and with it the transactions before it.
StoreSync(s, r) ==
    /\ disk' = [disk EXCEPT ![s] = r]
    /\ pend' = [pend EXCEPT ![s] = None]

StoreAsync(s, r) ==
    /\ pend' = [pend EXCEPT ![s] = {r}]
    /\ cb' = [cb EXCEPT ![s] = TRUE]
    /\ needSync' = [needSync EXCEPT ![s] = TRUE]
    /\ UNCHANGED disk

\* If the commit callback cannot be added, the write is synchronous after all;
\* seq_update_cb_add may have set lss_need_sync by then.
StoreUpdate(s, r, sync) ==
    \/ sync /\ StoreSync(s, r) /\ UNCHANGED <<cb, needSync>>
    \/ ~sync /\ StoreAsync(s, r)
    \/ /\ ~sync /\ StoreSync(s, r) /\ UNCHANGED cb
       /\ \E n \in {needSync[s], TRUE} : needSync' = [needSync EXCEPT ![s] = n]

StoreFails == "srv" \in WriteFails /\ UNCHANGED store

\* The journal commits the pending write; seq_update_cb runs after that.
TxnCommit(s) ==
    /\ pend[s] # None
    /\ disk' \in {[disk EXCEPT ![s] = r] : r \in pend[s]}
    /\ pend' = [pend EXCEPT ![s] = None]
    /\ UNCHANGED <<ctl, fldb, sets, cb, needSync, conn, cli, pc, rpc, sup, calls, history>>

UpdateCbEarly(s) ==  \* mutant: the callback does not wait for the commit
    /\ cb[s]
    /\ cb' = [cb EXCEPT ![s] = FALSE]
    /\ needSync' = [needSync EXCEPT ![s] = FALSE]
    /\ UNCHANGED <<ctl, fldb, sets, disk, pend, conn, cli, pc, rpc, sup, calls, history>>
UpdateCb(s) ==
    /\ cb[s] /\ pend[s] = None
    /\ cb' = [cb EXCEPT ![s] = FALSE]
    /\ needSync' = [needSync EXCEPT ![s] = FALSE]
    /\ UNCHANGED <<ctl, fldb, sets, disk, pend, conn, cli, pc, rpc, sup, calls, history>>

-----------------------------------------------------------------------------
(* seq_server_check_and_alloc_super, run by both threads of a server.      *)

Goto(s, a, l) == pc' = [pc EXCEPT ![s][a] = l]

\* Its first test.
Check(s) == IF IsExhausted(space[s]) THEN "super" ELSE "sets"

\* lustre_notify_lwp_list: the connection to MDT0 is set up, lcs_exp is set and
\* the callbacks run, on an MDT mdt_register_lwp_callback.
LwpConnect(s) ==
    /\ ~conn[s]
    /\ conn' = [conn EXCEPT ![s] = TRUE]
    /\ IF s \in Lwp THEN Goto(s, "lwp", "check") ELSE UNCHANGED pc
    /\ UNCHANGED <<ctl, fldb, sets, store, cli, rpc, sup, calls, history>>

LwpCheck(s) ==
    /\ pc[s]["lwp"] = "check"
    /\ Goto(s, "lwp", Check(s))
    /\ UNCHANGED <<ctl, fldb, sets, store, conn, cli, rpc, sup, calls, history>>

\* seq_client_alloc_super takes lcs_mutex and sends the RPC.
SuperRpc(s, a) ==
    /\ pc[s][a] = "super" /\ rpc[s] = "none"
    /\ rpc' = [rpc EXCEPT ![s] = a]
    /\ Goto(s, a, "rpc")
    /\ UNCHANGED <<ctl, fldb, sets, store, conn, cli, sup, calls, history>>

\* The request or the reply is lost: it is sent again, or fails (rq_no_resend).
SuperReplyLost(s) ==
    /\ rpc[s] # "none"
    /\ \E r \in {None, Error} : sup' = [sup EXCEPT ![s] = r]
    /\ UNCHANGED <<ctl, fldb, sets, store, conn, cli, pc, rpc, calls, history>>

Answer(s, r) ==
    /\ rep' = [c \in Client |-> IF c \in serving[s] THEN r ELSE rep[c]]
    /\ serving' = [serving EXCEPT ![s] = {}]
    /\ UNCHANGED req

\* The thread fails: a client's request is answered with the error.
Fail(s, a) ==
    /\ Goto(s, a, "idle")
    /\ IF a = "meta" THEN Answer(s, Error) ELSE UNCHANGED calls

\* The reply arrives and lcs_mutex is dropped.
SuperDone(s, a) ==
    /\ pc[s][a] = "rpc" /\ sup[s] # None
    /\ rpc' = [rpc EXCEPT ![s] = "none"]
    /\ sup' = [sup EXCEPT ![s] = None]
    /\ \/ sup[s] = Error /\ Fail(s, a) /\ UNCHANGED cli
       \/ /\ sup[s] # Error
          /\ cli' \in {[cli EXCEPT ![s] = r] : r \in sup[s]}
          /\ Goto(s, a, "copy") /\ UNCHANGED calls
    /\ UNCHANGED <<ctl, fldb, sets, store, conn, history>>

\* The range becomes the server's space.  If it cannot be inserted into the
\* local FLDB, the thread goes on but fails in the end.
SaveSpace(s, a) ==
    /\ pc[s][a] = "copy"
    /\ space' = [space EXCEPT ![s] = cli[s]]
    /\ \E l \in {"sets", "fail"} : Goto(s, a, l)
    /\ UNCHANGED <<ctl, fldb, lo, hi, store, conn, cli, rpc, sup, calls, history>>

\* __seq_set_init, whose result the callers ignore.
SetInitEarly(s, a) ==  \* mutant: the space is written before the sets are cut
    LET rest == Left(space[s], SetWidth) IN
    /\ pc[s][a] \in {"sets", "fail"} /\ IsZero(lo[s])
    /\ lo' = [lo EXCEPT ![s] = Taken(space[s], SetWidth)]
    /\ hi' = [hi EXCEPT ![s] = Taken(rest, SetWidth)]
    /\ space' = [space EXCEPT ![s] = Left(rest, SetWidth)]
    /\ StoreSync(s, space[s]) /\ UNCHANGED <<cb, needSync>>
    /\ UNCHANGED <<ctl, fldb, conn, cli, pc, rpc, sup, calls, history>>
SetInit(s, a) ==
    LET rest == Left(space[s], SetWidth) IN
    /\ pc[s][a] \in {"sets", "fail"} /\ IsZero(lo[s])
    /\ lo' = [lo EXCEPT ![s] = Taken(space[s], SetWidth)]
    /\ hi' = [hi EXCEPT ![s] = Taken(rest, SetWidth)]
    /\ space' = [space EXCEPT ![s] = Left(rest, SetWidth)]
    /\ \/ StoreSync(s, Left(rest, SetWidth)) /\ UNCHANGED <<cb, needSync>>
       \/ StoreFails
    /\ UNCHANGED <<ctl, fldb, conn, cli, pc, rpc, sup, calls, history>>
\* The lwp callback returns; the handler goes on to range_alloc_set unless the
\* range could not be inserted.
LwpDone(s) ==
    /\ pc[s]["lwp"] \in {"sets", "fail"} /\ ~IsZero(lo[s])
    /\ Goto(s, "lwp", "idle")
    /\ UNCHANGED <<ctl, fldb, sets, store, conn, cli, rpc, sup, calls, history>>

MetaFails(s) ==
    /\ pc[s]["meta"] = "fail" /\ ~IsZero(lo[s])
    /\ Goto(s, "meta", "idle") /\ Answer(s, Error)
    /\ UNCHANGED <<ctl, fldb, sets, store, conn, cli, rpc, sup, history>>

-----------------------------------------------------------------------------
(* seq_server_alloc_meta, under lss_mutex.                                 *)

\* A request is taken up.  While MDT0 is not connected and a super-sequence is
\* needed the answer is -EINPROGRESS, and the client keeps asking.
AllocMeta(s, c) ==
    /\ ServerOf[c] = s /\ c \in req /\ rep[c] = None
    /\ pc[s]["meta"] = "idle"
    /\ conn[s] \/ ~IsExhausted(space[s])
    /\ Goto(s, "meta", Check(s))
    /\ serving' = [serving EXCEPT ![s] = {c}]
    /\ UNCHANGED <<ctl, fldb, sets, store, conn, cli, rpc, sup, req, rep, history>>

\* out is cut from a low-water set and handed out.
HandOut(s, low) ==
    LET out == Taken(low, MetaWidth) IN
    /\ lo' = [lo EXCEPT ![s] = Left(low, MetaWidth)]
    /\ twice' = twice \cup (Within(out) \cap UNION {given[x] : x \in Server})
    /\ given' = [given EXCEPT ![s] = @ \cup Within(out)]
    /\ Answer(s, {out})

RangeAlloc(s) ==
    /\ ~IsExhausted(lo[s])
    /\ HandOut(s, lo[s])
    /\ UNCHANGED <<space, hi, store>>

\* The low-water set is used up: the high-water set takes its place and a new
\* one is cut from the space, which is written.
SwitchSets(s, exports) ==
    LET setSz == IF exports * MetaWidth > SetWidth
                 THEN exports * MetaWidth ELSE SetWidth IN
    /\ IsExhausted(lo[s])
    /\ hi' = [hi EXCEPT ![s] = Taken(space[s], setSz)]
    /\ space' = [space EXCEPT ![s] = Left(space[s], setSz)]
    /\ \/ /\ StoreUpdate(s, Left(space[s], setSz), needSync[s])
          /\ HandOut(s, hi[s])
       \/ /\ StoreFails
          /\ lo' = [lo EXCEPT ![s] = hi[s]]
          /\ Answer(s, Error)
          /\ UNCHANGED history

RangeAllocSet(s) ==
    /\ pc[s]["meta"] = "sets" /\ ~IsZero(lo[s])
    /\ RangeAlloc(s) \/ \E e \in Exports : SwitchSets(s, e)
    /\ Goto(s, "meta", "idle")
    /\ UNCHANGED <<ctl, fldb, conn, cli, rpc, sup>>

-----------------------------------------------------------------------------
(* The server restarts after a crash (seq_server_init, seq_store_read):    *)
(* the clients resend their requests, but those on its node are gone.  If  *)
(* even the first write was lost (-ENODATA), it is repeated.               *)
Restart(s, gone) ==
    LET first == pend[s] \cap {Zero} IN
    /\ space' = [space EXCEPT ![s] = disk[s]]
    /\ lo' = [lo EXCEPT ![s] = Zero]
    /\ hi' = [hi EXCEPT ![s] = Zero]
    /\ pend' = [pend EXCEPT ![s] = first]
    /\ cb' = [cb EXCEPT ![s] = first # None]
    /\ needSync' = [needSync EXCEPT ![s] = first # None]
    /\ conn' = [conn EXCEPT ![s] = FALSE]
    /\ cli' = [cli EXCEPT ![s] = Zero]
    /\ pc' = [pc EXCEPT ![s] = [a \in Actor |-> "idle"]]
    /\ rpc' = [rpc EXCEPT ![s] = "none"]
    /\ sup' = [sup EXCEPT ![s] = None]
    /\ serving' = [serving EXCEPT ![s] = {}]
    /\ req' = req \ gone
    /\ rep' = [c \in Client |-> IF c \in gone THEN None ELSE rep[c]]
    /\ UNCHANGED <<ctl, fldb, disk, history>>

FidServerNext ==
    \/ CtlRestart
    \/ \E s \in Server :
         \/ AllocSuper(s) \/ TxnCommit(s) \/ UpdateCb(s)
         \/ LwpConnect(s) \/ LwpCheck(s) \/ SuperReplyLost(s)
         \/ LwpDone(s) \/ MetaFails(s) \/ RangeAllocSet(s)
         \/ \E r \in Specs : AllocSpec(s, r)
         \/ \E c \in Client : AllocMeta(s, c)
         \/ \E a \in Actor :
              SuperRpc(s, a) \/ SuperDone(s, a) \/ SaveSpace(s, a) \/ SetInit(s, a)
=============================================================================

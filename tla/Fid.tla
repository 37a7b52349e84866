-------------------------------- MODULE Fid --------------------------------
(***************************************************************************)
(* The sequence controller, the sequence servers and their clients.  A     *)
(* failed assertion stops the system.                                      *)
(***************************************************************************)
EXTENDS FidClient

vars == <<fvars, cvars>>

\* Types: ranges are sane (LASSERT(lu_seq_range_is_sane(space))), the threads
\* are at one of their steps, the histories hold sequences and FIDs.
RangesOK ==
    /\ ctl \in [space : SaneRange, disk : SaneRange]
    /\ fldb \in [Seqs -> Server \cup {NoServer}]
    /\ space \in [Server -> SaneRange] /\ lo \in [Server -> SaneRange]
    /\ hi \in [Server -> SaneRange] /\ disk \in [Server -> SaneRange]
    /\ pend \in [Server -> SUBSET SaneRange] /\ cli \in [Server -> SaneRange]
    /\ sup \in [Server -> SUBSET SaneRange]

ThreadsOK ==
    /\ cb \in [Server -> BOOLEAN] /\ needSync \in [Server -> BOOLEAN]
    /\ conn \in [Server -> BOOLEAN]
    /\ pc \in [Server -> [Actor -> Pc]]
    /\ rpc \in [Server -> Actor \cup {"none"}]
    /\ given \in [Server -> SUBSET Nat] /\ twice \subseteq Nat

CallsOK ==
    /\ req \subseteq Client /\ rep \in [Client -> SUBSET SaneRange]
    /\ serving \in [Server -> SUBSET Client]

ClientsOK ==
    /\ cspace \in [Client -> SaneRange]
    /\ fid \in [Client -> [seq : Nat, oid : Nat]]
    /\ update \in [Client -> {"none", "fid", "whole"}]
    /\ fids \subseteq [seq : Nat, oid : Nat] /\ fidTwice \subseteq fids
    /\ clbug \in BOOLEAN

TypeOK == RangesOK /\ ThreadsOK /\ CallsOK /\ ClientsOK

Init == FidServerInit /\ FidClientInit

\* A server takes the clients of its own node with it.
ServerRestart(s) ==
    LET gone == {c \in Local : ServerOf[c] = s} IN
    Restart(s, gone) /\ Forget(gone)

Running == ~clbug

UnchangedServer ==
    UNCHANGED <<ctl, fldb, sets, store, conn, cli, pc, rpc, sup, history>>

Next ==
    /\ Running
    /\ \/ FidServerNext /\ UNCHANGED cvars
       \/ FidClientNext /\ UnchangedServer
       \/ \E s \in Server : ServerRestart(s)

Spec == Init /\ [][Next]_vars

-----------------------------------------------------------------------------
(* Safety.                                                                 *)

\* No sequence is ever handed out twice, by one server or by two, although a
\* server hands sequences out before the write that takes them off its space
\* is committed, and crashes (range_alloc_set, seq_store_update).
SequencesUnique == twice = {}

\* No FID is used twice, by one client or by two, also when threads get FIDs
\* and whole sequences at the same time, requests are resent and clients are
\* evicted or restart (seq_client_alloc_fid, seq_client_get_seq,
\* seq_client_flush).
FidsUnique == fidTwice = {}

\* The low-water set is safe to use: a server that restarts does not find its
\* sequences in the space it reads (range_alloc_set).
LowaterSafe ==
    \A s \in Server : Within(lo[s]) \cap Within(disk[s]) = {}

\* The FLDB on MDT0 leads to the server of every sequence that the server has
\* or had, whatever writes failed or were lost in a crash: the entries are
\* committed before the range leaves MDT0 (__seq_server_alloc_super,
\* fld_server_create).
Held(s) ==
    Within(space[s]) \cup Within(lo[s]) \cup Within(hi[s]) \cup Within(disk[s])
    \cup given[s]
FldLocates == \A s \in Server : \A q \in Held(s) : fldb[q] = s

\* seq_client_alloc_seq: the range a client on the server's node gets is not
\* empty.
LocalRangeNotEmpty == ~clbug

-----------------------------------------------------------------------------
(* What makes the safety properties inductive where writes of the servers  *)
(* do not fail and no lwp callback runs.                                   *)

\* What the controller has left belongs to no server, in memory and on disk.
CtlInv ==
    /\ ctl.space.end = Space0.end /\ ctl.disk.end = Space0.end
    /\ Space0.start <= ctl.disk.start /\ ctl.disk.start <= ctl.space.start
    /\ \A q \in Within(ctl.disk) : fldb[q] = NoServer

\* Whatever a server has, may read from its disk or is about to get is its own.
Reach(s) ==
    Held(s) \cup Covered(pend[s]) \cup Covered(sup[s]) \cup Within(cli[s])
OwnInv == \A s \in Server : \A q \in Reach(s) : q \in Seqs /\ fldb[q] = s

\* A range on its way from the controller to the space.
Fresh(s) ==
    Covered(sup[s]) \cup (IF pc[s]["meta"] = "copy" THEN Within(cli[s]) ELSE {})

Threads(s) ==
    /\ pc[s]["lwp"] = "idle"
    /\ rpc[s] # "none" => pc[s]["meta"] = "rpc"
    /\ sup[s] # None => rpc[s] # "none"
    /\ \A c, d \in serving[s] : c = d
ThreadInv == \A s \in Server : Threads(s)

\* The sets and the space do not overlap, and neither the space on disk nor the
\* one being written has a sequence that may be handed out before that write is
\* committed: the high-water set waits for it, or for a synchronous one.
ApartSets(L, H, S, D, P, G, F) ==
    /\ L \cap (H \cup S \cup D) = {} /\ H \cap S = {}
    /\ G \cap (L \cup H \cup S \cup D) = {}
    /\ P \cap (L \cup H \cup G) = {}
    /\ F \cap (L \cup H \cup S \cup D \cup P \cup G) = {}
Apart(s) ==
    /\ ApartSets(Within(lo[s]), Within(hi[s]), Within(space[s]), Within(disk[s]),
                 Covered(pend[s]), given[s], Fresh(s))
    /\ pend[s] = None => Within(hi[s]) \cap Within(disk[s]) = {}
    /\ ~needSync[s] => pend[s] = None
SetsInv == \A s \in Server : Apart(s)

AllGiven == UNION {given[s] : s \in Server}

\* A thread that did not have to ask for a range has one.
PrepInv ==
    \A c \in Client :
      c \notin req /\ update[c] # "none" => ~IsExhausted(cspace[c])

\* The sequences a client may still use are its own.
ToUse(c) == Within(cspace[c]) \cup Covered(rep[c])
UseInv ==
    \A c \in Client :
      /\ ToUse(c) \subseteq AllGiven
      /\ Within(cspace[c]) \cap Covered(rep[c]) = {}
      /\ \A d \in Client \ {c} : ToUse(c) \cap ToUse(d) = {}

\* They are not in use, but those that are were handed out.
UsedInv ==
    \A f \in fids :
      f.seq \in AllGiven /\ \A c \in Client : f.seq \notin ToUse(c)

\* A client numbers the objects of a sequence of its own, in order.
LastInv ==
    \A c \in Client : fid[c] # NoFid =>
      /\ fid[c] \in fids
      /\ \A f \in fids : f.seq = fid[c].seq => f.oid <= fid[c].oid
      /\ \A d \in Client \ {c} : fid[d] # NoFid => fid[d].seq # fid[c].seq

ClientInv == UseInv /\ UsedInv /\ LastInv

\* The inductive invariant.
IndInv ==
    /\ TypeOK /\ CtlInv /\ OwnInv /\ PrepInv
    /\ ThreadInv /\ SetsInv /\ ClientInv
    /\ SequencesUnique /\ FidsUnique
=============================================================================

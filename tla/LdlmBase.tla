------------------------------ MODULE LdlmBase ------------------------------
(***************************************************************************)
(* What the lock server and its clients share: the locks that will be      *)
(* requested on ONE inodebits resource, the RPCs between the two sides and *)
(* the network that carries them.                                          *)
(*                                                                         *)
(* A lock is identified by the client's lock handle, which is never        *)
(* reused; Owner, Mode and ReqBits are what its enqueue RPC asks for.  A   *)
(* Client is one connection (one export on the server): a client that      *)
(* reconnects after an eviction is a new Client.                           *)
(***************************************************************************)
EXTENDS LdlmModes

CONSTANTS
    Lock, Client, Bit,
    Owner,         \* [Lock -> Client]
    Mode,          \* [Lock -> LdlmMode], l_req_mode
    ReqBits,       \* [Lock -> SUBSET Bit], the inodebits requested
    EnqThread,     \* service threads of the enqueue portal
    CancelThread,  \* service threads of the cancel portal (cancel, convert)
    ReapThread,    \* ldlm_bl threads cancelling the locks of stale exports
    NoLock

Thread == EnqThread \cup CancelThread \cup ReapThread

\* COS locks are taken by the server itself, never by a client.
ASSUME LockAssumption ==
    /\ Owner \in [Lock -> Client]
    /\ Mode \in [Lock -> LdlmMode \ {"COS"}]
    /\ ReqBits \in [Lock -> (SUBSET Bit) \ {{}}]
    /\ NoLock \notin Lock

VARIABLE net       \* the RPCs and replies in flight, delivered in any order

-----------------------------------------------------------------------------
(* RPCs.  The ASTs (blocking and completion callbacks) and their replies   *)
(* carry the server thread that waits for the reply.                       *)

EnqReq(l)          == [type |-> "enq",     lock |-> l]
CancelReq(l)       == [type |-> "cancel",  lock |-> l]
ConvReq(l, b)      == [type |-> "convert", lock |-> l, bits |-> b]
EnqRep(l, rc, ast) == [type |-> "enqrep",  lock |-> l, rc |-> rc, ast |-> ast]
ConvRep(l, rc, b)  == [type |-> "convrep", lock |-> l, rc |-> rc, bits |-> b]
BlAst(l, b, t)     == [type |-> "bl", lock |-> l, bits |-> b, thr |-> t]
CpAst(l, b, a, t)  == [type |-> "cp", lock |-> l, bits |-> b, ast |-> a, thr |-> t]
AstRep(l, rc, t)   == [type |-> "astrep",  lock |-> l, rc |-> rc, thr |-> t]

EnqRc == {"granted", "blocked", "error"}
AstRc == {"ok", "einval"}
ConvRc == {"ok", "nolock", "error"}

Message ==
    {EnqReq(l) : l \in Lock} \cup {CancelReq(l) : l \in Lock}
    \cup {ConvReq(l, b) : l \in Lock, b \in SUBSET Bit}
    \cup {EnqRep(l, rc, a) : l \in Lock, rc \in EnqRc, a \in BOOLEAN}
    \cup {ConvRep(l, rc, b) : l \in Lock, rc \in ConvRc, b \in SUBSET Bit}
    \cup {BlAst(l, b, t) : l \in Lock, b \in SUBSET Bit, t \in Thread}
    \cup {CpAst(l, b, a, t) :
            l \in Lock, b \in SUBSET Bit, a \in BOOLEAN, t \in Thread}
    \cup {AstRep(l, rc, t) : l \in Lock, rc \in AstRc, t \in Thread}
=============================================================================

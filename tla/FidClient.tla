----------------------------- MODULE FidClient -----------------------------
(***************************************************************************)
(* The clients of the sequence servers (fid_request.c): a client takes     *)
(* meta-sequences, one sequence at a time out of them, and numbers the     *)
(* objects of its sequence.  lcs_mutex is dropped while a new sequence is  *)
(* being allocated, lcs_update keeps the other threads out.                *)
(***************************************************************************)
EXTENDS FidServer

CONSTANTS
    FidWidth,  \* LUSTRE_METADATA_SEQ_MAX_WIDTH, LUSTRE_DATA_SEQ_MAX_WIDTH
    Local      \* clients on the server's node, with lcs_srv set

VARIABLES
    cspace,    \* lcs_space
    fid,       \* lcs_fid, the last FID allocated
    update,    \* lcs_update: what a thread allocates a sequence for, if any
    fids,      \* history: the FIDs in use
    fidTwice,  \* history: those allocated more than once
    clbug      \* a failed assertion of a client

civars == <<cspace, fid, update>>
chistory == <<fids, fidTwice, clbug>>
cvars == <<civars, chistory>>

NoFid == [seq |-> 0, oid |-> 0]
Oid == 1 .. FidWidth

ASSUME ClientAssumption ==
    FidWidth \in Nat \ {0} /\ Local \subseteq Client

FidClientInit ==
    /\ cspace = [c \in Client |-> Zero]
    /\ fid = [c \in Client |-> NoFid]
    /\ update = [c \in Client |-> "none"]
    /\ fids = {} /\ fidTwice = {} /\ clbug = FALSE

\* FIDs are given to the callers.
Use(new) ==
    /\ fidTwice' = fidTwice \cup (new \cap fids)
    /\ fids' = fids \cup new

\* seq_client_alloc_fid while the sequence is not used up, also when another
\* thread is getting a whole sequence.
BumpFid(c) ==
    /\ fid[c] # NoFid /\ fid[c].oid < FidWidth
    /\ fid' = [fid EXCEPT ![c].oid = @ + 1]
    /\ Use({[fid[c] EXCEPT !.oid = @ + 1]})
    /\ UNCHANGED <<cspace, update, clbug, req, rep, serving>>

\* seq_fid_alloc_prep and the start of seq_client_alloc_seq, for a FID of a new
\* sequence (seq_client_alloc_fid) or for a whole one (seq_client_get_seq).
AllocPrep(c, what) ==
    /\ update[c] = "none"
    /\ what = "whole" \/ fid[c] = NoFid \/ fid[c].oid >= FidWidth
    /\ update' = [update EXCEPT ![c] = what]
    /\ req' = IF IsExhausted(cspace[c]) THEN req \cup {c} ELSE req
    /\ UNCHANGED <<cspace, fid, chistory, rep, serving>>

\* The end of seq_client_alloc_seq, which takes a sequence out of a range, and
\* seq_fid_alloc_fini.
LastOidFirst(c) == 1  \* mutant: a whole sequence is not marked as used up
LastOid(c) == IF update[c] = "whole" THEN FidWidth ELSE 1
AllocFini(c, r) ==
    /\ cspace' = [cspace EXCEPT ![c] = [r EXCEPT !.start = @ + 1]]
    /\ fid' = [fid EXCEPT ![c] = [seq |-> r.start, oid |-> LastOid(c)]]
    /\ Use({[seq |-> r.start, oid |-> o] :
             o \in IF update[c] = "whole" THEN Oid ELSE {1}})
    /\ update' = [update EXCEPT ![c] = "none"]

\* The client's range is not used up.
AllocSeq(c) ==
    /\ update[c] # "none" /\ c \notin req
    /\ AllocFini(c, cspace[c])
    /\ UNCHANGED <<clbug, req, rep, serving>>

\* seq_client_alloc_meta returns.  An empty range is an error for a client that
\* sent an RPC, and fails the assertion of seq_client_alloc_seq otherwise.
MetaDone(c) ==
    /\ c \in req /\ rep[c] # None
    /\ req' = req \ {c}
    /\ rep' = [rep EXCEPT ![c] = None]
    /\ \E r \in rep[c] :
         \/ ~IsExhausted(r) /\ AllocFini(c, r) /\ UNCHANGED clbug
         \/ /\ IsExhausted(r)
            /\ update' = [update EXCEPT ![c] = "none"]
            /\ clbug' = (c \in Local /\ rep[c] # Error)
            /\ UNCHANGED <<cspace, fid, fids, fidTwice>>
    /\ UNCHANGED serving

\* The reply is lost and the request is sent again.
MetaReplyLost(c) ==
    /\ c \in req \ Local /\ rep[c] # None
    /\ rep' = [rep EXCEPT ![c] = None]
    /\ UNCHANGED <<cvars, req, serving>>

Unserved(gone) == [s \in Server |-> serving[s] \ gone]

\* The request fails for good; what the server does for it reaches nobody.  On
\* the server's node only -EINPROGRESS ends it, without asking again.
MetaRpcFails(c) ==
    LET s == ServerOf[c] IN
    /\ c \in req /\ rep[c] = None
    /\ c \in Local => ~conn[s] /\ IsExhausted(space[s]) /\ c \notin serving[s]
    /\ rep' = [rep EXCEPT ![c] = Error]
    /\ serving' = Unserved({c})
    /\ UNCHANGED <<cvars, req>>

\* seq_client_flush, when the client was evicted.
FlushRacing(c) ==  \* mutant: it does not wait for lcs_update to be cleared
    /\ cspace' = [cspace EXCEPT ![c] = Zero]
    /\ fid' = [fid EXCEPT ![c] = NoFid]
    /\ UNCHANGED <<update, chistory, req, rep, serving>>
Flush(c) ==
    /\ update[c] = "none"
    /\ cspace' = [cspace EXCEPT ![c] = Zero]
    /\ fid' = [fid EXCEPT ![c] = NoFid]
    /\ UNCHANGED <<update, chistory, req, rep, serving>>

\* Clients restart.
Forget(gone) ==
    /\ cspace' = [c \in Client |-> IF c \in gone THEN Zero ELSE cspace[c]]
    /\ fid' = [c \in Client |-> IF c \in gone THEN NoFid ELSE fid[c]]
    /\ update' = [c \in Client |-> IF c \in gone THEN "none" ELSE update[c]]
    /\ UNCHANGED chistory

ClientRestart(c) ==
    /\ c \notin Local
    /\ Forget({c})
    /\ req' = req \ {c}
    /\ rep' = [rep EXCEPT ![c] = None]
    /\ serving' = Unserved({c})

FidClientNext ==
    \E c \in Client :
      \/ BumpFid(c) \/ \E what \in {"fid", "whole"} : AllocPrep(c, what)
      \/ AllocSeq(c) \/ MetaDone(c) \/ MetaReplyLost(c) \/ MetaRpcFails(c)
      \/ Flush(c) \/ ClientRestart(c)
=============================================================================

------------------------------ MODULE FidProofs -----------------------------
(***************************************************************************)
(* Proofs about Fid.  Types, and what belongs to whom, need no assumption on*)
(* what fails: the FLDB knows the server of every sequence.  Sequences and *)
(* FIDs are unique for any number of servers and clients and any widths, if*)
(* no write of a server fails and no lwp callback runs beside the handler of*)
(* requests.                                                               *)
(***************************************************************************)
EXTENDS Fid, TLAPS

\* Most leaves are set theory, for Zenon; the others name their prover.
USE Zenon

-----------------------------------------------------------------------------
(* Ranges.                                                                 *)

\* range_alloc splits a range in two.
LEMMA SplitRange ==
    ASSUME NEW r \in SaneRange, NEW w \in Nat
    PROVE  /\ Taken(r, w) \in SaneRange /\ Left(r, w) \in SaneRange
           /\ Within(Taken(r, w)) \cup Within(Left(r, w)) = Within(r)
           /\ Within(Taken(r, w)) \cap Within(Left(r, w)) = {}
<1>1. /\ r = [start |-> r.start, end |-> r.end]
      /\ r.start \in Nat /\ r.end \in Nat /\ r.start <= r.end
  BY DEF SaneRange, Range, IsSane
<1>2. /\ AllocEnd(r, w) \in Nat /\ r.start <= AllocEnd(r, w)
      /\ AllocEnd(r, w) <= r.end
  BY <1>1, SMTT(30) DEF AllocEnd, Space
<1>3. Taken(r, w) \in SaneRange /\ Left(r, w) \in SaneRange
  BY <1>1, <1>2 DEF Taken, Left, SaneRange, Range, IsSane
<1>4. /\ Within(Taken(r, w)) = r.start .. (AllocEnd(r, w) - 1)
      /\ Within(Left(r, w)) = AllocEnd(r, w) .. (r.end - 1)
      /\ Within(r) = r.start .. (r.end - 1)
  BY DEF Taken, Left, Within
<1> HIDE DEF AllocEnd
<1>5. /\ Within(Taken(r, w)) \cup Within(Left(r, w)) = Within(r)
      /\ Within(Taken(r, w)) \cap Within(Left(r, w)) = {}
  BY <1>1, <1>2, <1>4, SMTT(30)
<1> QED
  BY <1>3, <1>5

LEMMA ZeroRange == Zero \in SaneRange /\ Within(Zero) = {}
  BY SMTT(30) DEF Zero, SaneRange, Range, IsSane, Within

LEMMA CoveredSets ==
    /\ Covered({}) = {} /\ Covered(Error) = {}
    /\ \A r : Covered({r}) = Within(r)
<1>1. \A r : Covered({r}) = Within(r)
  BY DEF Covered
<1> QED
  BY <1>1, ZeroRange DEF Covered, Error

LEMMA Widths ==
    /\ SuperWidth \in Nat /\ SetWidth \in Nat /\ MetaWidth \in Nat
    /\ Exports \subseteq Nat /\ Space0 \in SaneRange
  BY FidAssumption DEF SaneRange

-----------------------------------------------------------------------------
(* Types.                                                                  *)

LEMMA InitTyped == Init => TypeOK
<1> SUFFICES ASSUME Init PROVE TypeOK
  OBVIOUS
<1> USE DEF Init, FidServerInit, FidClientInit
<1>1. RangesOK
  BY ZeroRange, Widths DEF RangesOK, None
<1>2. ThreadsOK
  BY DEF ThreadsOK, Pc
<1>3. CallsOK
  BY DEF CallsOK, None
<1>4. ClientsOK
  BY ZeroRange DEF ClientsOK, NoFid
<1> QED
  BY <1>1, <1>2, <1>3, <1>4 DEF TypeOK

USE DEF sets, store, calls, history, civars, chistory, cvars

\* What an action that leaves the clients alone, or the servers, preserves.
LEMMA ClientsSame == ASSUME TypeOK, UNCHANGED cvars PROVE ClientsOK'
  BY DEF TypeOK, ClientsOK

LEMMA ServersSame ==
    ASSUME TypeOK, UnchangedServer PROVE RangesOK' /\ ThreadsOK'
  BY DEF TypeOK, RangesOK, ThreadsOK, UnchangedServer

LEMMA CallsSame == ASSUME TypeOK, UNCHANGED calls PROVE CallsOK'
  BY DEF TypeOK, CallsOK

LEMMA GotoTyped ==
    ASSUME TypeOK, NEW s \in Server, NEW a \in Actor, NEW l \in Pc, Goto(s, a, l)
    PROVE  pc' \in [Server -> [Actor -> Pc]]
  BY DEF TypeOK, ThreadsOK, Goto

LEMMA AnswerTyped ==
    ASSUME TypeOK, NEW s \in Server, NEW R \in SUBSET SaneRange, Answer(s, R)
    PROVE  CallsOK'
  BY DEF TypeOK, CallsOK, Answer

LEMMA AllocSuperTyped ==
    ASSUME TypeOK, NEW s \in Server, AllocSuper(s)
    PROVE  RangesOK' /\ ThreadsOK' /\ CallsOK'
<1> DEFINE out == Taken(ctl.space, SuperWidth)
           rest == Left(ctl.space, SuperWidth)
<1>1. out \in SaneRange /\ rest \in SaneRange /\ Error \in SUBSET SaneRange
  BY SplitRange, Widths, ZeroRange DEF TypeOK, RangesOK, Error
<1>2. ctl' \in [space : SaneRange, disk : SaneRange]
  <2>1. ctl' = ctl \/ \E d \in {ctl.disk, rest} : ctl' = [space |-> rest, disk |-> d]
    BY DEF AllocSuper, CtlStore, CtlStoreFails
  <2> HIDE DEF rest
  <2> QED
    BY <1>1, <2>1, SMTT(30) DEF TypeOK, RangesOK
<1>3. fldb' \in [Seqs -> Server \cup {NoServer}]
  BY ZenonT(60) DEF TypeOK, RangesOK, AllocSuper, CtlStore, CtlStoreFails
<1>4. sup' \in [Server -> SUBSET SaneRange]
  BY <1>1, SMTT(30) DEF TypeOK, RangesOK, AllocSuper
<1>5. CallsOK'
  BY CallsSame DEF AllocSuper
<1> QED
  BY <1>2, <1>3, <1>4, <1>5 DEF TypeOK, RangesOK, ThreadsOK, AllocSuper

LEMMA AllocSpecTyped ==
    ASSUME TypeOK, CtlInv, NEW s \in Server, NEW r \in Specs, AllocSpec(s, r)
    PROVE  RangesOK' /\ ThreadsOK' /\ CallsOK'
<1> DEFINE rest == [ctl.space EXCEPT !.start = r.end]
<1>1. rest \in SaneRange
  BY FidAssumption DEF TypeOK, RangesOK, CtlInv, SaneRange, Range, IsSane
<1>2. ctl' \in [space : SaneRange, disk : SaneRange]
  <2>1. \E d \in {ctl.disk, rest} : ctl' = [space |-> rest, disk |-> d]
    BY DEF AllocSpec, CtlStore, CtlStoreFails
  <2> HIDE DEF rest
  <2> QED
    BY <1>1, <2>1, SMTT(30) DEF TypeOK, RangesOK
<1>3. fldb' \in [Seqs -> Server \cup {NoServer}]
  BY DEF TypeOK, RangesOK, AllocSpec, CtlStore, CtlStoreFails
<1>4. CallsOK'
  BY CallsSame DEF AllocSpec
<1> QED
  BY <1>2, <1>3, <1>4 DEF TypeOK, RangesOK, ThreadsOK, AllocSpec

LEMMA CtlRestartTyped ==
    ASSUME TypeOK, CtlRestart
    PROVE  RangesOK' /\ ThreadsOK' /\ CallsOK'
<1>1. CallsOK'
  BY CallsSame DEF CtlRestart
<1> QED
  BY <1>1 DEF TypeOK, RangesOK, ThreadsOK, CtlRestart

LEMMA StoreTyped ==
    ASSUME TypeOK, NEW s \in Server, NEW r \in SaneRange,
           \/ \E sync \in BOOLEAN : StoreUpdate(s, r, sync)
           \/ StoreSync(s, r) /\ UNCHANGED <<cb, needSync>>
           \/ StoreFails
    PROVE  /\ disk' \in [Server -> SaneRange]
           /\ pend' \in [Server -> SUBSET SaneRange]
           /\ cb' \in [Server -> BOOLEAN] /\ needSync' \in [Server -> BOOLEAN]
<1>1. disk' = disk \/ disk' = [disk EXCEPT ![s] = r]
  BY DEF StoreUpdate, StoreSync, StoreAsync, StoreFails
<1>2. \E R \in {{}, {r}} : pend' = pend \/ pend' = [pend EXCEPT ![s] = R]
  BY DEF StoreUpdate, StoreSync, StoreAsync, StoreFails, None
<1>3. cb' = cb \/ cb' = [cb EXCEPT ![s] = TRUE]
  BY DEF StoreUpdate, StoreSync, StoreAsync, StoreFails
<1>4. \E n \in {needSync[s], TRUE} :
        needSync' = needSync \/ needSync' = [needSync EXCEPT ![s] = n]
  BY DEF StoreUpdate, StoreSync, StoreAsync, StoreFails
<1>5. disk' \in [Server -> SaneRange] /\ pend' \in [Server -> SUBSET SaneRange]
  BY <1>1, <1>2, SMTT(30) DEF TypeOK, RangesOK
<1>6. cb' \in [Server -> BOOLEAN]
  BY <1>3 DEF TypeOK, ThreadsOK
<1>7. needSync' \in [Server -> BOOLEAN]
  <2>1. needSync[s] \in BOOLEAN
    BY DEF TypeOK, ThreadsOK
  <2> QED
    BY <1>4, <2>1 DEF TypeOK, ThreadsOK
<1> QED
  BY <1>5, <1>6, <1>7

LEMMA JournalTyped ==
    ASSUME TypeOK, NEW s \in Server, TxnCommit(s) \/ UpdateCb(s)
    PROVE  RangesOK' /\ ThreadsOK' /\ CallsOK'
<1>1. CallsOK'
  BY CallsSame DEF TxnCommit, UpdateCb
<1>2. CASE TxnCommit(s)
  <2>1. PICK r \in pend[s] : disk' = [disk EXCEPT ![s] = r]
    BY <1>2 DEF TxnCommit
  <2>2. r \in SaneRange
    BY DEF TypeOK, RangesOK
  <2>3. disk' \in [Server -> SaneRange] /\ pend' \in [Server -> SUBSET SaneRange]
    BY <1>2, <2>1, <2>2 DEF TxnCommit, TypeOK, RangesOK, None
  <2> QED
    BY <1>1, <1>2, <2>3 DEF TypeOK, RangesOK, ThreadsOK, TxnCommit
<1>3. CASE UpdateCb(s)
  <2>1. cb' \in [Server -> BOOLEAN] /\ needSync' \in [Server -> BOOLEAN]
    BY <1>3 DEF UpdateCb, TypeOK, ThreadsOK
  <2> QED
    BY <1>1, <1>3, <2>1 DEF TypeOK, RangesOK, ThreadsOK, UpdateCb
<1> QED
  BY <1>2, <1>3

LEMMA LwpTyped ==
    ASSUME TypeOK, NEW s \in Server,
           LwpConnect(s) \/ LwpCheck(s) \/ LwpDone(s) \/ SuperReplyLost(s)
    PROVE  RangesOK' /\ ThreadsOK' /\ CallsOK'
<1>1. CallsOK'
  BY CallsSame DEF LwpConnect, LwpCheck, LwpDone, SuperReplyLost
<1>2. pc' \in [Server -> [Actor -> Pc]]
  <2>1. pc' = pc \/ \E l \in Pc : Goto(s, "lwp", l)
    BY DEF LwpConnect, LwpCheck, LwpDone, SuperReplyLost, Check, Pc
  <2> QED
    BY <2>1, GotoTyped DEF TypeOK, ThreadsOK, Actor
<1>3. sup' \in [Server -> SUBSET SaneRange]
  <2>1. sup' = sup \/ \E r \in {None, Error} : sup' = [sup EXCEPT ![s] = r]
    BY DEF LwpConnect, LwpCheck, LwpDone, SuperReplyLost
  <2>2. None \subseteq SaneRange /\ Error \subseteq SaneRange
    BY ZeroRange DEF None, Error
  <2> QED
    BY <2>1, <2>2, SMTT(30) DEF TypeOK, RangesOK
<1> QED
  BY <1>1, <1>2, <1>3
  DEF TypeOK, RangesOK, ThreadsOK, LwpConnect, LwpCheck, LwpDone, SuperReplyLost

LEMMA SuperRpcTyped ==
    ASSUME TypeOK, NEW s \in Server, NEW a \in Actor, SuperRpc(s, a)
    PROVE  RangesOK' /\ ThreadsOK' /\ CallsOK'
<1>1. CallsOK'
  BY CallsSame DEF SuperRpc
<1>2. pc' \in [Server -> [Actor -> Pc]]
  BY GotoTyped DEF SuperRpc, Pc
<1> QED
  BY <1>1, <1>2 DEF TypeOK, RangesOK, ThreadsOK, SuperRpc

LEMMA SuperDoneTyped ==
    ASSUME TypeOK, NEW s \in Server, NEW a \in Actor, SuperDone(s, a)
    PROVE  RangesOK' /\ ThreadsOK' /\ CallsOK'
<1>1. CallsOK'
  <2>1. Answer(s, Error) \/ UNCHANGED calls
    BY DEF SuperDone, Fail
  <2> QED
    BY <2>1, CallsSame, AnswerTyped, ZeroRange DEF Error
<1>2. pc' \in [Server -> [Actor -> Pc]]
  <2>1. \E l \in Pc : Goto(s, a, l)
    BY DEF SuperDone, Fail, Pc
  <2> QED
    BY <2>1, GotoTyped
<1>3. cli' \in [Server -> SaneRange]
  BY SMTT(30) DEF SuperDone, TypeOK, RangesOK
<1>4. sup' \in [Server -> SUBSET SaneRange] /\ rpc' \in [Server -> Actor \cup {"none"}]
  BY DEF SuperDone, TypeOK, RangesOK, ThreadsOK, None
<1> QED
  BY <1>1, <1>2, <1>3, <1>4 DEF TypeOK, RangesOK, ThreadsOK, SuperDone

LEMMA SaveSpaceTyped ==
    ASSUME TypeOK, NEW s \in Server, NEW a \in Actor, SaveSpace(s, a)
    PROVE  RangesOK' /\ ThreadsOK' /\ CallsOK'
<1>1. CallsOK'
  BY CallsSame DEF SaveSpace
<1>2. pc' \in [Server -> [Actor -> Pc]]
  BY GotoTyped, SMTT(30) DEF SaveSpace, Pc
<1> QED
  BY <1>1, <1>2 DEF TypeOK, RangesOK, ThreadsOK, SaveSpace

LEMMA SetInitTyped ==
    ASSUME TypeOK, NEW s \in Server, NEW a \in Actor, SetInit(s, a)
    PROVE  RangesOK' /\ ThreadsOK' /\ CallsOK'
<1> DEFINE rest == Left(space[s], SetWidth)
<1>1. CallsOK'
  BY CallsSame DEF SetInit
<1>2. rest \in SaneRange /\ Taken(space[s], SetWidth) \in SaneRange
  BY SplitRange, Widths DEF TypeOK, RangesOK
<1>3. Taken(rest, SetWidth) \in SaneRange /\ Left(rest, SetWidth) \in SaneRange
  BY <1>2, SplitRange, Widths
<1>4. /\ disk' \in [Server -> SaneRange] /\ pend' \in [Server -> SUBSET SaneRange]
      /\ cb' \in [Server -> BOOLEAN] /\ needSync' \in [Server -> BOOLEAN]
  <2>1. \/ StoreSync(s, Left(rest, SetWidth)) /\ UNCHANGED <<cb, needSync>>
        \/ StoreFails
    BY DEF SetInit
  <2> QED
    BY <1>3, <2>1, StoreTyped
<1>5. /\ lo' \in [Server -> SaneRange] /\ hi' \in [Server -> SaneRange]
      /\ space' \in [Server -> SaneRange]
  BY <1>2, <1>3 DEF SetInit, TypeOK, RangesOK
<1> QED
  BY <1>1, <1>4, <1>5 DEF TypeOK, RangesOK, ThreadsOK, SetInit

LEMMA MetaTyped ==
    ASSUME TypeOK, NEW s \in Server,
           MetaFails(s) \/ \E c \in Client : AllocMeta(s, c)
    PROVE  RangesOK' /\ ThreadsOK' /\ CallsOK'
<1>1. CallsOK'
  <2>1. CASE MetaFails(s)
    BY <2>1, AnswerTyped, ZeroRange DEF MetaFails, Error
  <2>2. CASE \E c \in Client : AllocMeta(s, c)
    BY <2>2, SMTT(30) DEF AllocMeta, TypeOK, CallsOK
  <2> QED
    BY <2>1, <2>2
<1>2. pc' \in [Server -> [Actor -> Pc]]
  <2>1. \E l \in Pc : Goto(s, "meta", l)
    BY DEF MetaFails, AllocMeta, Check, Pc
  <2> QED
    BY <2>1, GotoTyped DEF Actor
<1> QED
  BY <1>1, <1>2 DEF TypeOK, RangesOK, ThreadsOK, MetaFails, AllocMeta

LEMMA HandOutTyped ==
    ASSUME TypeOK, NEW s \in Server, NEW low \in SaneRange, HandOut(s, low)
    PROVE  /\ lo' \in [Server -> SaneRange] /\ CallsOK'
           /\ given' \in [Server -> SUBSET Nat] /\ twice' \subseteq Nat
<1>1. Taken(low, MetaWidth) \in SaneRange /\ Left(low, MetaWidth) \in SaneRange
  BY SplitRange, Widths
<1>2. Within(Taken(low, MetaWidth)) \subseteq Nat
  BY <1>1, SMTT(30) DEF Within, SaneRange, Range
<1>3. CallsOK'
  BY <1>1, AnswerTyped DEF HandOut
<1>4. lo' \in [Server -> SaneRange]
  BY <1>1 DEF HandOut, TypeOK, RangesOK
<1>5. given' \in [Server -> SUBSET Nat] /\ twice' \subseteq Nat
  BY <1>2 DEF HandOut, TypeOK, ThreadsOK
<1> QED
  BY <1>3, <1>4, <1>5

LEMMA SetSize ==
    ASSUME NEW e \in Exports
    PROVE  (IF e * MetaWidth > SetWidth THEN e * MetaWidth ELSE SetWidth) \in Nat
  BY Widths, SMTT(30)

LEMMA RangeAllocSetTyped ==
    ASSUME TypeOK, NEW s \in Server, RangeAllocSet(s)
    PROVE  RangesOK' /\ ThreadsOK' /\ CallsOK'
<1>1. pc' \in [Server -> [Actor -> Pc]]
  BY GotoTyped DEF RangeAllocSet, Pc, Actor
<1>2. lo[s] \in SaneRange /\ hi[s] \in SaneRange /\ space[s] \in SaneRange
  BY DEF TypeOK, RangesOK
<1>3. CASE RangeAlloc(s)
  <2>1. /\ lo' \in [Server -> SaneRange] /\ CallsOK'
        /\ given' \in [Server -> SUBSET Nat] /\ twice' \subseteq Nat
    BY <1>2, <1>3, HandOutTyped DEF RangeAlloc
  <2> QED
    BY <1>1, <1>3, <2>1
    DEF RangeAllocSet, RangeAlloc, TypeOK, RangesOK, ThreadsOK
<1>4. ASSUME NEW e \in Exports, SwitchSets(s, e)
      PROVE  RangesOK' /\ ThreadsOK' /\ CallsOK'
  <2> DEFINE n == IF e * MetaWidth > SetWidth THEN e * MetaWidth ELSE SetWidth
  <2>1. n \in Nat
    BY SetSize
  <2>2. /\ hi' = [hi EXCEPT ![s] = Taken(space[s], n)]
        /\ space' = [space EXCEPT ![s] = Left(space[s], n)]
        /\ \/ /\ StoreUpdate(s, Left(space[s], n), needSync[s])
              /\ HandOut(s, hi[s])
           \/ /\ StoreFails /\ Answer(s, Error) /\ UNCHANGED history
              /\ lo' = [lo EXCEPT ![s] = hi[s]]
    BY <1>4 DEF SwitchSets
  <2> HIDE DEF n
  <2>3. Taken(space[s], n) \in SaneRange /\ Left(space[s], n) \in SaneRange
    BY <1>2, <2>1, SplitRange
  <2>4. hi' \in [Server -> SaneRange] /\ space' \in [Server -> SaneRange]
    BY <2>2, <2>3 DEF TypeOK, RangesOK
  <2>5. /\ disk' \in [Server -> SaneRange] /\ pend' \in [Server -> SUBSET SaneRange]
        /\ cb' \in [Server -> BOOLEAN] /\ needSync' \in [Server -> BOOLEAN]
    <3>1. needSync[s] \in BOOLEAN
      BY DEF TypeOK, ThreadsOK
    <3> QED
      BY <2>2, <2>3, <3>1, StoreTyped
  <2>6. /\ lo' \in [Server -> SaneRange] /\ CallsOK'
        /\ given' \in [Server -> SUBSET Nat] /\ twice' \subseteq Nat
    <3>1. CASE HandOut(s, hi[s])
      BY <1>2, <3>1, HandOutTyped
    <3>2. CASE Answer(s, Error) /\ UNCHANGED history /\ lo' = [lo EXCEPT ![s] = hi[s]]
      <4>1. CallsOK'
        BY <3>2, AnswerTyped, ZeroRange DEF Error
      <4> QED
        BY <1>2, <3>2, <4>1 DEF TypeOK, RangesOK, ThreadsOK
    <3> QED
      BY <2>2, <3>1, <3>2
  <2> QED
    BY <1>1, <2>4, <2>5, <2>6 DEF RangeAllocSet, TypeOK, RangesOK, ThreadsOK
<1> QED
  BY <1>3, <1>4 DEF RangeAllocSet

LEMMA RestartTyped ==
    ASSUME TypeOK, NEW s \in Server, NEW gone, Restart(s, gone)
    PROVE  RangesOK' /\ ThreadsOK' /\ CallsOK'
<1>1. RangesOK'
  BY ZeroRange DEF Restart, TypeOK, RangesOK, None
<1>2. CallsOK'
  BY DEF Restart, TypeOK, CallsOK, None
<1>3. cb' \in [Server -> BOOLEAN] /\ needSync' \in [Server -> BOOLEAN] /\ conn' \in [Server -> BOOLEAN]
  BY DEF Restart, TypeOK, ThreadsOK
<1>4. pc' \in [Server -> [Actor -> Pc]] /\ rpc' \in [Server -> Actor \cup {"none"}]
  BY DEF Restart, TypeOK, ThreadsOK, Pc
<1> QED
  BY <1>1, <1>2, <1>3, <1>4 DEF Restart, TypeOK, ThreadsOK

LEMMA AllocFiniTyped ==
    ASSUME TypeOK, NEW c \in Client, NEW r \in SaneRange, ~IsExhausted(r),
           AllocFini(c, r), clbug' \in BOOLEAN
    PROVE  ClientsOK'
<1> DEFINE left == [r EXCEPT !.start = @ + 1]
<1> DEFINE whole == update[c] = "whole"
<1> DEFINE oids == IF whole THEN Oid ELSE {1}
<1> DEFINE last == IF whole THEN FidWidth ELSE 1
<1> DEFINE new == {[seq |-> r.start, oid |-> o] : o \in oids}
<1>1. left \in SaneRange /\ r.start \in Nat
  BY SMTT(30) DEF SaneRange, Range, IsSane, IsExhausted, Space
<1>2. oids \subseteq Nat /\ last \in Nat
  BY ClientAssumption, SMTT(30) DEF Oid
<1>3. /\ cspace' = [cspace EXCEPT ![c] = left]
      /\ fid' = [fid EXCEPT ![c] = [seq |-> r.start, oid |-> last]]
      /\ Use(new)
      /\ update' = [update EXCEPT ![c] = "none"]
  BY DEF AllocFini, LastOid
<1> HIDE DEF left, whole, oids, last
<1>4. new \subseteq [seq : Nat, oid : Nat]
  <2>1. \A o \in oids : [seq |-> r.start, oid |-> o] \in [seq : Nat, oid : Nat]
    BY <1>1, <1>2
  <2> QED
    BY <2>1
<1> HIDE DEF new
<1>5. fids' \subseteq [seq : Nat, oid : Nat] /\ fidTwice' \subseteq fids'
  BY <1>3, <1>4 DEF Use, TypeOK, ClientsOK
<1>6. fid' \in [Client -> [seq : Nat, oid : Nat]]
  <2>1. [seq |-> r.start, oid |-> last] \in [seq : Nat, oid : Nat]
    BY <1>1, <1>2
  <2> QED
    BY <1>3, <2>1 DEF TypeOK, ClientsOK
<1>7. /\ cspace' \in [Client -> SaneRange]
      /\ update' \in [Client -> {"none", "fid", "whole"}]
  BY <1>1, <1>3 DEF TypeOK, ClientsOK
<1> QED
  BY <1>5, <1>6, <1>7 DEF ClientsOK

LEMMA AllocSeqTyped ==
    ASSUME TypeOK, PrepInv, NEW c \in Client, AllocSeq(c)
    PROVE  ClientsOK' /\ CallsOK'
<1>1. cspace[c] \in SaneRange /\ ~IsExhausted(cspace[c]) /\ clbug' \in BOOLEAN
  BY DEF TypeOK, ClientsOK, PrepInv, AllocSeq
<1>2. ClientsOK'
  BY <1>1, AllocFiniTyped DEF AllocSeq
<1> QED
  BY <1>2, CallsSame DEF AllocSeq

LEMMA MetaDoneTyped ==
    ASSUME TypeOK, NEW c \in Client, MetaDone(c)
    PROVE  ClientsOK' /\ CallsOK'
<1>1. CallsOK'
  BY DEF TypeOK, CallsOK, MetaDone, None
<1>2. PICK r \in rep[c] :
        \/ ~IsExhausted(r) /\ AllocFini(c, r) /\ UNCHANGED clbug
        \/ /\ IsExhausted(r)
           /\ update' = [update EXCEPT ![c] = "none"]
           /\ clbug' = (c \in Local /\ rep[c] # Error)
           /\ UNCHANGED <<cspace, fid, fids, fidTwice>>
  BY DEF MetaDone
<1>3. r \in SaneRange
  BY DEF TypeOK, CallsOK
<1>4. CASE ~IsExhausted(r) /\ AllocFini(c, r) /\ UNCHANGED clbug
  <2>1. clbug' \in BOOLEAN
    BY <1>4 DEF TypeOK, ClientsOK
  <2>2. ClientsOK'
    BY <1>3, <1>4, <2>1, AllocFiniTyped
  <2> QED
    BY <1>1, <2>2
<1>5. CASE /\ update' = [update EXCEPT ![c] = "none"]
           /\ clbug' = (c \in Local /\ rep[c] # Error)
           /\ UNCHANGED <<cspace, fid, fids, fidTwice>>
  <2>1. update' \in [Client -> {"none", "fid", "whole"}]
    BY <1>5 DEF TypeOK, ClientsOK
  <2>2. clbug' \in BOOLEAN
    BY <1>5
  <2> QED
    BY <1>1, <1>5, <2>1, <2>2 DEF TypeOK, ClientsOK
<1> QED
  BY <1>2, <1>4, <1>5

LEMMA BumpFidTyped ==
    ASSUME TypeOK, NEW c \in Client, BumpFid(c)
    PROVE  ClientsOK' /\ CallsOK'
<1> DEFINE f == [fid[c] EXCEPT !.oid = @ + 1]
<1>1. f \in [seq : Nat, oid : Nat]
  BY SMTT(30) DEF TypeOK, ClientsOK
<1>2. fid' = [fid EXCEPT ![c] = f] /\ Use({f})
  BY DEF BumpFid, TypeOK, ClientsOK
<1> HIDE DEF f
<1>3. fid' \in [Client -> [seq : Nat, oid : Nat]]
  BY <1>1, <1>2 DEF TypeOK, ClientsOK
<1>4. fids' \subseteq [seq : Nat, oid : Nat] /\ fidTwice' \subseteq fids'
  BY <1>1, <1>2 DEF Use, TypeOK, ClientsOK
<1>5. CallsOK'
  BY CallsSame DEF BumpFid
<1> QED
  BY <1>3, <1>4, <1>5 DEF BumpFid, TypeOK, ClientsOK

LEMMA AllocPrepTyped ==
    ASSUME TypeOK, NEW c \in Client, NEW w \in {"fid", "whole"}, AllocPrep(c, w)
    PROVE  ClientsOK' /\ CallsOK'
  BY DEF AllocPrep, TypeOK, ClientsOK, CallsOK

LEMMA ForgetTyped ==
    ASSUME TypeOK, NEW gone, Forget(gone)
    PROVE  ClientsOK'
  BY ZeroRange DEF Forget, TypeOK, ClientsOK, NoFid

LEMMA LostTyped ==
    ASSUME TypeOK, NEW c \in Client,
           MetaReplyLost(c) \/ MetaRpcFails(c) \/ Flush(c) \/ ClientRestart(c)
    PROVE  ClientsOK' /\ CallsOK'
<1>1. CASE MetaReplyLost(c)
  BY <1>1, ClientsSame DEF MetaReplyLost, TypeOK, CallsOK, None
<1>2. CASE MetaRpcFails(c)
  BY <1>2, ClientsSame, ZeroRange DEF MetaRpcFails, Unserved, TypeOK, CallsOK, Error
<1>3. CASE Flush(c)
  <2>1. CallsOK'
    BY <1>3, CallsSame DEF Flush
  <2> QED
    BY <1>3, <2>1, ZeroRange DEF Flush, TypeOK, ClientsOK, NoFid
<1>4. CASE ClientRestart(c)
  <2>1. ClientsOK'
    BY <1>4, ForgetTyped DEF ClientRestart
  <2> QED
    BY <1>4, <2>1 DEF ClientRestart, Unserved, TypeOK, CallsOK, None
<1> QED
  BY <1>1, <1>2, <1>3, <1>4

-----------------------------------------------------------------------------
(* Sequences belong to one server, whatever fails.                         *)

Base == TypeOK /\ CtlInv /\ OwnInv /\ PrepInv

\* A server that gets hold of nothing new.
LEMMA OwnKept ==
    ASSUME OwnInv, UNCHANGED fldb, \A x \in Server : Reach(x)' \subseteq Reach(x)
    PROVE  OwnInv'
  BY DEF OwnInv, Seqs

\* The controller gives a range away.
LEMMA CtlStoreOwned ==
    ASSUME TypeOK, CtlInv, OwnInv, NEW s \in Server,
           NEW out \in SaneRange, NEW rest \in SaneRange, CtlStore(rest, s, out),
           Within(out) \subseteq Within(ctl.space),
           rest.end = Space0.end, ctl.space.start <= rest.start,
           Within(out) \cap Within(rest) = {},
           \A x \in Server : Reach(x)' \subseteq Reach(x) \cup (IF x = s THEN Within(out) ELSE {})
    PROVE  CtlInv' /\ OwnInv'
<1>1. /\ ctl.space \in SaneRange /\ ctl.disk \in SaneRange /\ Space0 \in SaneRange
      /\ ctl.space.end = Space0.end /\ ctl.disk.end = Space0.end
      /\ Space0.start <= ctl.disk.start /\ ctl.disk.start <= ctl.space.start
  BY Widths DEF TypeOK, RangesOK, CtlInv
<1>2. /\ Within(rest) \subseteq Within(ctl.disk) /\ Within(out) \subseteq Within(ctl.disk)
      /\ Within(ctl.disk) \subseteq Seqs
  BY <1>1, SMTT(30) DEF Within, Seqs, SaneRange, Range
<1>3. \A q \in Within(ctl.disk) : fldb[q] = NoServer
  BY DEF CtlInv
<1>4. /\ ctl'.space = rest /\ ctl'.disk = rest
      /\ \A q \in Seqs : fldb'[q] = IF q \in Within(out) THEN s ELSE fldb[q]
  BY DEF CtlStore
<1>5. CtlInv'
  <2>1. \A q \in Within(rest) : fldb'[q] = NoServer
    BY <1>2, <1>3, <1>4
  <2>2. Space0.start <= rest.start
    BY <1>1, SMTT(30) DEF SaneRange, Range
  <2>3. rest.start <= rest.start
    BY SMTT(30) DEF SaneRange, Range
  <2> QED
    BY <1>4, <2>1, <2>2, <2>3 DEF CtlInv
<1>6. ASSUME NEW x \in Server, NEW q \in Reach(x)'
      PROVE  q \in Seqs /\ fldb'[q] = x
  <2>1. CASE q \in Reach(x)
    <3>1. q \in Seqs /\ fldb[q] = x
      BY <2>1 DEF OwnInv
    <3>2. q \notin Within(out)
      BY <1>2, <1>3, <3>1, FidAssumption
    <3> QED
      BY <1>4, <3>1, <3>2
  <2>2. CASE x = s /\ q \in Within(out)
    BY <1>2, <1>4, <2>2
  <2> QED
    BY <1>6, <2>1, <2>2
<1>7. OwnInv'
  BY <1>6 DEF OwnInv, Seqs
<1> QED
  BY <1>5, <1>7

LEMMA CtlStoreFailsOwned ==
    ASSUME TypeOK, CtlInv, NEW rest \in SaneRange, CtlStoreFails(rest),
           rest.end = Space0.end, ctl.space.start <= rest.start
    PROVE  CtlInv' /\ UNCHANGED fldb
<1>1. PICK d \in {ctl.disk, rest} : ctl' = [space |-> rest, disk |-> d]
  BY DEF CtlStoreFails
<1>2. /\ ctl.space \in SaneRange /\ ctl.disk \in SaneRange /\ Space0 \in SaneRange
      /\ ctl.space.end = Space0.end /\ ctl.disk.end = Space0.end
      /\ Space0.start <= ctl.disk.start /\ ctl.disk.start <= ctl.space.start
  BY Widths DEF TypeOK, RangesOK, CtlInv
<1>3. /\ d.end = Space0.end /\ Space0.start <= d.start /\ d.start <= rest.start
      /\ Within(d) \subseteq Within(ctl.disk)
  BY <1>2, SMTT(30) DEF SaneRange, Range, Within
<1>4. ctl'.space = rest /\ ctl'.disk = d /\ UNCHANGED fldb
  BY <1>1 DEF CtlStoreFails
<1> QED
  BY <1>3, <1>4 DEF CtlInv

LEMMA SplitEnds ==
    ASSUME NEW r \in SaneRange, NEW w \in Nat
    PROVE  Left(r, w).end = r.end /\ r.start <= Left(r, w).start
  BY SMTT(30) DEF Left, AllocEnd, Space, SaneRange, Range, IsSane

LEMMA AllocSuperOwned ==
    ASSUME TypeOK, CtlInv, OwnInv, NEW s \in Server, AllocSuper(s)
    PROVE  CtlInv' /\ OwnInv'
<1> DEFINE out == Taken(ctl.space, SuperWidth)
           rest == Left(ctl.space, SuperWidth)
<1>1. ctl.space \in SaneRange /\ ctl.space.end = Space0.end
  BY DEF TypeOK, RangesOK, CtlInv
<1>2. /\ out \in SaneRange /\ rest \in SaneRange
      /\ Within(out) \subseteq Within(ctl.space) /\ Within(out) \cap Within(rest) = {}
      /\ rest.end = Space0.end /\ ctl.space.start <= rest.start
  <2>1. out \in SaneRange /\ rest \in SaneRange
    BY <1>1, SplitRange, Widths
  <2>2. /\ Within(out) \cup Within(rest) = Within(ctl.space)
        /\ Within(out) \cap Within(rest) = {}
    BY <1>1, SplitRange, Widths
  <2>3. rest.end = Space0.end /\ ctl.space.start <= rest.start
    BY <1>1, SplitEnds, Widths
  <2> QED
    BY <2>1, <2>2, <2>3
<1>3. UNCHANGED <<space, lo, hi, disk, pend, cli, given>> /\ sup[s] = None
  BY DEF AllocSuper
<1>4. CASE sup' = [sup EXCEPT ![s] = Error]
  <2>1. \A x \in Server : Reach(x)' \subseteq Reach(x)
    BY <1>3, <1>4, CoveredSets, ZenonT(60) DEF Reach, Held, TypeOK, RangesOK
  <2>2. UNCHANGED <<ctl, fldb>> \/ CtlStoreFails(rest) \/ CtlStore(rest, s, out)
    BY DEF AllocSuper
  <2>3. CASE UNCHANGED <<ctl, fldb>>
    BY <2>1, <2>3, OwnKept DEF CtlInv
  <2>4. CASE CtlStoreFails(rest)
    BY <1>2, <2>1, <2>4, CtlStoreFailsOwned, OwnKept
  <2>5. CASE CtlStore(rest, s, out)
    BY <1>2, <2>1, <2>5, CtlStoreOwned
  <2> QED
    BY <2>2, <2>3, <2>4, <2>5
<1>5. CASE sup' = [sup EXCEPT ![s] = {out}] /\ CtlStore(rest, s, out)
  <2>1. ASSUME NEW x \in Server
        PROVE  Reach(x)' \subseteq Reach(x) \cup (IF x = s THEN Within(out) ELSE {})
    BY <1>3, <1>5, CoveredSets, SMTT(30) DEF Reach, Held, TypeOK, RangesOK
  <2> QED
    BY <1>2, <1>5, <2>1, CtlStoreOwned
<1> QED
  BY <1>4, <1>5 DEF AllocSuper

LEMMA AllocSpecOwned ==
    ASSUME TypeOK, CtlInv, OwnInv, NEW s \in Server, NEW r \in Specs, AllocSpec(s, r)
    PROVE  CtlInv' /\ OwnInv'
<1> DEFINE rest == [ctl.space EXCEPT !.start = r.end]
<1>1. /\ ctl.space \in SaneRange /\ ctl.space.end = Space0.end
      /\ r \in Range /\ r.end <= Space0.end
      /\ r.start < r.end /\ ctl.space.start <= r.start
  BY FidAssumption DEF TypeOK, RangesOK, CtlInv, AllocSpec, Range, SaneRange
<1>2. /\ rest \in SaneRange /\ r \in SaneRange
      /\ rest.end = Space0.end /\ ctl.space.start <= rest.start
  BY <1>1, SMTT(30) DEF Range, SaneRange, IsSane
<1>3. Within(r) \subseteq Within(ctl.space) /\ Within(r) \cap Within(rest) = {}
  BY <1>1, SMTT(30) DEF Range, SaneRange, Within
<1>4. \A x \in Server : Reach(x)' = Reach(x)
  BY DEF AllocSpec, Reach, Held
<1>5. CtlStore(rest, s, r) \/ CtlStoreFails(rest)
  BY DEF AllocSpec
<1> HIDE DEF rest
<1>6. CASE CtlStore(rest, s, r)
  BY <1>2, <1>3, <1>4, <1>6, CtlStoreOwned
<1>7. CASE CtlStoreFails(rest)
  BY <1>2, <1>4, <1>7, CtlStoreFailsOwned, OwnKept
<1> QED
  BY <1>5, <1>6, <1>7

LEMMA CtlRestartOwned ==
    ASSUME TypeOK, CtlInv, OwnInv, CtlRestart
    PROVE  CtlInv' /\ OwnInv'
<1>1. \A x \in Server : Reach(x)' = Reach(x)
  BY DEF CtlRestart, Reach, Held
<1>2. ctl'.space = ctl.disk /\ ctl'.disk = ctl.disk /\ UNCHANGED fldb
  BY DEF CtlRestart, TypeOK, RangesOK
<1>3. ctl.disk.start <= ctl.disk.start
  BY SMTT(30) DEF TypeOK, RangesOK, SaneRange, Range
<1> QED
  BY <1>1, <1>2, <1>3, OwnKept DEF CtlInv

\* What the actions of a server do to its store.
LEMMA StoreReach ==
    ASSUME TypeOK, NEW s \in Server, NEW r \in SaneRange,
           \/ \E sync \in BOOLEAN : StoreUpdate(s, r, sync)
           \/ StoreSync(s, r) /\ UNCHANGED <<cb, needSync>>
           \/ StoreFails,
           NEW x \in Server
    PROVE  Within(disk'[x]) \cup Covered(pend'[x]) \subseteq
             Within(disk[x]) \cup Covered(pend[x]) \cup (IF x = s THEN Within(r) ELSE {})
<1>1. disk' = disk \/ disk' = [disk EXCEPT ![s] = r]
  BY DEF StoreUpdate, StoreSync, StoreAsync, StoreFails
<1>2. \/ pend' = pend \/ pend' = [pend EXCEPT ![s] = {}]
      \/ pend' = [pend EXCEPT ![s] = {r}]
  BY DEF StoreUpdate, StoreSync, StoreAsync, StoreFails, None
<1>3. Within(disk'[x]) \subseteq Within(disk[x]) \cup (IF x = s THEN Within(r) ELSE {})
  BY <1>1 DEF TypeOK, RangesOK
<1>4. Covered(pend'[x]) \subseteq Covered(pend[x]) \cup (IF x = s THEN Within(r) ELSE {})
  BY <1>2, CoveredSets DEF TypeOK, RangesOK
<1> QED
  BY <1>3, <1>4

LEMMA QuietReach ==
    ASSUME NEW s \in Server,
           \/ UpdateCb(s) \/ LwpConnect(s) \/ LwpCheck(s) \/ LwpDone(s) \/ MetaFails(s)
           \/ \E c \in Client : AllocMeta(s, c)
           \/ \E a \in Actor : SuperRpc(s, a),
           NEW x \in Server
    PROVE  Reach(x)' = Reach(x)
  BY DEF UpdateCb, LwpConnect, LwpCheck, LwpDone, MetaFails, AllocMeta, SuperRpc,
         Reach, Held

LEMMA TxnCommitReach ==
    ASSUME TypeOK, NEW s \in Server, TxnCommit(s), NEW x \in Server
    PROVE  Reach(x)' \subseteq Reach(x)
<1>1. PICK r \in pend[s] : disk' = [disk EXCEPT ![s] = r]
  BY DEF TxnCommit
<1>2. Within(r) \subseteq Covered(pend[s])
  BY DEF Covered
<1>3. pend' = [pend EXCEPT ![s] = {}] /\ UNCHANGED <<space, lo, hi, sup, cli, given>>
  BY DEF TxnCommit, None
<1> QED
  BY <1>1, <1>2, <1>3, CoveredSets, SMTT(30) DEF Reach, Held, TypeOK, RangesOK

LEMMA SuperReach ==
    ASSUME TypeOK, NEW s \in Server,
           \/ SuperReplyLost(s)
           \/ \E a \in Actor : SuperDone(s, a),
           NEW x \in Server
    PROVE  Reach(x)' \subseteq Reach(x)
<1>1. /\ \E r \in {None, Error} : sup' = [sup EXCEPT ![s] = r]
      /\ UNCHANGED <<space, lo, hi, disk, pend, given>>
  BY DEF SuperReplyLost, SuperDone
<1>2. cli' = cli \/ \E r \in sup[s] : cli' = [cli EXCEPT ![s] = r]
  BY DEF SuperReplyLost, SuperDone
<1>3. Within(cli'[x]) \subseteq Within(cli[x]) \cup Covered(sup[x])
  BY <1>2, SMTT(30) DEF TypeOK, RangesOK, Covered
<1>4. Covered(sup'[x]) \subseteq Covered(sup[x])
  BY <1>1, CoveredSets DEF TypeOK, RangesOK, None
<1> QED
  BY <1>1, <1>3, <1>4 DEF Reach, Held

LEMMA SaveSpaceReach ==
    ASSUME TypeOK, NEW s \in Server, NEW a \in Actor, SaveSpace(s, a), NEW x \in Server
    PROVE  Reach(x)' \subseteq Reach(x)
<1>1. Within(space'[x]) \subseteq Within(space[x]) \cup Within(cli[x])
  BY DEF SaveSpace, TypeOK, RangesOK
<1> QED
  BY <1>1 DEF SaveSpace, Reach, Held

LEMMA SetInitReach ==
    ASSUME TypeOK, NEW s \in Server, NEW a \in Actor, SetInit(s, a), NEW x \in Server
    PROVE  Reach(x)' \subseteq Reach(x)
<1> DEFINE rest == Left(space[s], SetWidth)
<1>1. space[s] \in SaneRange /\ SetWidth \in Nat
  BY Widths DEF TypeOK, RangesOK
<1>2. /\ rest \in SaneRange
      /\ Within(Taken(space[s], SetWidth)) \cup Within(rest) = Within(space[s])
  BY <1>1, SplitRange
<1>3. /\ Left(rest, SetWidth) \in SaneRange
      /\ Within(Taken(rest, SetWidth)) \cup Within(Left(rest, SetWidth)) = Within(rest)
  BY <1>1, <1>2, SplitRange
<1>4. /\ lo' = [lo EXCEPT ![s] = Taken(space[s], SetWidth)]
      /\ hi' = [hi EXCEPT ![s] = Taken(rest, SetWidth)]
      /\ space' = [space EXCEPT ![s] = Left(rest, SetWidth)]
      /\ UNCHANGED <<sup, cli, given>>
  BY DEF SetInit
<1>5. Within(disk'[x]) \cup Covered(pend'[x]) \subseteq
        Within(disk[x]) \cup Covered(pend[x])
        \cup (IF x = s THEN Within(Left(rest, SetWidth)) ELSE {})
  BY <1>3, StoreReach DEF SetInit
<1> HIDE DEF rest
<1>6. Within(lo'[x]) \cup Within(hi'[x]) \cup Within(space'[x]) \subseteq
        Within(lo[x]) \cup Within(hi[x]) \cup Within(space[x])
  BY <1>2, <1>3, <1>4 DEF TypeOK, RangesOK
<1>7. (IF x = s THEN Within(Left(rest, SetWidth)) ELSE {}) \subseteq Within(space[x])
  BY <1>2, <1>3
<1> QED
  BY <1>4, <1>5, <1>6, <1>7, ZenonT(60) DEF Reach, Held

LEMMA HandOutReach ==
    ASSUME TypeOK, NEW s \in Server, NEW low \in SaneRange, HandOut(s, low),
           NEW x \in Server
    PROVE  Within(lo'[x]) \cup given'[x] \subseteq
             Within(lo[x]) \cup given[x] \cup (IF x = s THEN Within(low) ELSE {})
<1>1. Within(Taken(low, MetaWidth)) \cup Within(Left(low, MetaWidth)) = Within(low)
  BY SplitRange, Widths
<1> QED
  BY <1>1 DEF HandOut, TypeOK, RangesOK, ThreadsOK

LEMMA RangeAllocSetReach ==
    ASSUME TypeOK, NEW s \in Server, RangeAllocSet(s), NEW x \in Server
    PROVE  Reach(x)' \subseteq Reach(x)
<1>1. lo[s] \in SaneRange /\ hi[s] \in SaneRange /\ space[s] \in SaneRange
  BY DEF TypeOK, RangesOK
<1>2. UNCHANGED <<sup, cli>>
  BY DEF RangeAllocSet
<1>3. CASE RangeAlloc(s)
  <2>1. Within(lo'[x]) \cup given'[x] \subseteq Within(lo[x]) \cup given[x]
    BY <1>1, <1>3, HandOutReach DEF RangeAlloc
  <2> QED
    BY <1>2, <1>3, <2>1, ZenonT(60) DEF RangeAlloc, Reach, Held
<1>4. ASSUME NEW e \in Exports, SwitchSets(s, e)
      PROVE  Reach(x)' \subseteq Reach(x)
  <2> DEFINE n == IF e * MetaWidth > SetWidth THEN e * MetaWidth ELSE SetWidth
  <2>1. n \in Nat
    BY SetSize
  <2>2. /\ hi' = [hi EXCEPT ![s] = Taken(space[s], n)]
        /\ space' = [space EXCEPT ![s] = Left(space[s], n)]
        /\ StoreUpdate(s, Left(space[s], n), needSync[s]) \/ StoreFails
        /\ \/ HandOut(s, hi[s])
           \/ UNCHANGED history /\ lo' = [lo EXCEPT ![s] = hi[s]]
    BY <1>4 DEF SwitchSets
  <2> HIDE DEF n
  <2>3. /\ Left(space[s], n) \in SaneRange
        /\ Within(Taken(space[s], n)) \cup Within(Left(space[s], n)) = Within(space[s])
    BY <1>1, <2>1, SplitRange
  <2>4. needSync[s] \in BOOLEAN
    BY DEF TypeOK, ThreadsOK
  <2>5. Within(disk'[x]) \cup Covered(pend'[x]) \subseteq
          Within(disk[x]) \cup Covered(pend[x]) \cup Within(space[x])
    <3>1. Within(disk'[x]) \cup Covered(pend'[x]) \subseteq
            Within(disk[x]) \cup Covered(pend[x])
            \cup (IF x = s THEN Within(Left(space[s], n)) ELSE {})
      BY <2>2, <2>3, <2>4, StoreReach, SMTT(30)
    <3> QED
      BY <2>3, <3>1
  <2>6. Within(hi'[x]) \cup Within(space'[x]) \subseteq Within(hi[x]) \cup Within(space[x])
    BY <2>2, <2>3 DEF TypeOK, RangesOK
  <2>7. Within(lo'[x]) \cup given'[x] \subseteq Within(lo[x]) \cup given[x] \cup Within(hi[x])
    <3>1. CASE HandOut(s, hi[s])
      BY <1>1, <3>1, HandOutReach
    <3>2. CASE UNCHANGED history /\ lo' = [lo EXCEPT ![s] = hi[s]]
      BY <3>2 DEF TypeOK, RangesOK
    <3> QED
      BY <2>2, <3>1, <3>2
  <2> QED
    BY <1>2, <2>5, <2>6, <2>7 DEF Reach, Held
<1> QED
  BY <1>3, <1>4 DEF RangeAllocSet

LEMMA RestartReach ==
    ASSUME TypeOK, NEW s \in Server, NEW gone, Restart(s, gone), NEW x \in Server
    PROVE  Reach(x)' \subseteq Reach(x)
<1>1. Within(space'[x]) \subseteq Within(space[x]) \cup Within(disk[x])
  BY DEF Restart, TypeOK, RangesOK
<1>2. /\ Within(lo'[x]) \subseteq Within(lo[x])
      /\ Within(hi'[x]) \subseteq Within(hi[x])
      /\ Within(cli'[x]) \subseteq Within(cli[x])
  BY ZeroRange DEF Restart, TypeOK, RangesOK
<1>3. Covered(pend'[x]) \subseteq Covered(pend[x])
  <2>1. pend'[x] \subseteq pend[x]
    BY DEF Restart, TypeOK, RangesOK
  <2> QED
    BY <2>1 DEF Covered
<1>4. Covered(sup'[x]) \subseteq Covered(sup[x])
  BY CoveredSets DEF Restart, TypeOK, RangesOK, None
<1> QED
  BY <1>1, <1>2, <1>3, <1>4 DEF Restart, Reach, Held

\* The steps of the servers, one by one.
ServerStep(s) ==
    \/ UpdateCb(s) \/ LwpConnect(s) \/ LwpCheck(s) \/ LwpDone(s) \/ MetaFails(s)
    \/ \E c \in Client : AllocMeta(s, c)
    \/ \E a \in Actor : SuperRpc(s, a) \/ SuperDone(s, a) \/ SaveSpace(s, a) \/ SetInit(s, a)
    \/ TxnCommit(s) \/ SuperReplyLost(s) \/ RangeAllocSet(s)

LEMMA ServerStepBase ==
    ASSUME Base, NEW s \in Server, ServerStep(s), UNCHANGED cvars
    PROVE  Base'
<1> USE DEF Base
<1>1. RangesOK' /\ ThreadsOK' /\ CallsOK'
  BY JournalTyped, LwpTyped, MetaTyped, SuperRpcTyped, SuperDoneTyped, SaveSpaceTyped,
     SetInitTyped, RangeAllocSetTyped DEF ServerStep
<1>2. UNCHANGED <<ctl, fldb, req>>
  <2>1. CASE RangeAllocSet(s)
    BY <2>1 DEF RangeAllocSet, RangeAlloc, SwitchSets, HandOut, Answer
  <2>2. CASE \/ UpdateCb(s) \/ LwpConnect(s) \/ LwpCheck(s) \/ LwpDone(s) \/ MetaFails(s)
             \/ TxnCommit(s) \/ SuperReplyLost(s) \/ \E c \in Client : AllocMeta(s, c)
    BY <2>2 DEF UpdateCb, LwpConnect, LwpCheck, LwpDone, MetaFails, AllocMeta, TxnCommit,
                SuperReplyLost, Answer
  <2>3. CASE \E a \in Actor : SuperRpc(s, a) \/ SuperDone(s, a) \/ SaveSpace(s, a) \/ SetInit(s, a)
    BY <2>3 DEF SuperRpc, SuperDone, SaveSpace, SetInit, Fail, Answer
  <2> QED
    BY <2>1, <2>2, <2>3 DEF ServerStep
<1>3. \A x \in Server : Reach(x)' \subseteq Reach(x)
  BY QuietReach, TxnCommitReach, SuperReach, SaveSpaceReach, SetInitReach,
     RangeAllocSetReach DEF ServerStep
<1>4. OwnInv' /\ CtlInv'
  BY <1>2, <1>3, OwnKept DEF CtlInv
<1>5. PrepInv'
  BY <1>2 DEF PrepInv
<1>6. TypeOK'
  BY <1>1, ClientsSame DEF TypeOK
<1> QED
  BY <1>4, <1>5, <1>6

CtlStep ==
    \/ CtlRestart
    \/ \E s \in Server : AllocSuper(s) \/ \E r \in Specs : AllocSpec(s, r)

LEMMA CtlStepBase == ASSUME Base, CtlStep, UNCHANGED cvars PROVE Base'
<1> USE DEF Base, CtlStep
<1>1. RangesOK' /\ ThreadsOK' /\ CallsOK'
  BY CtlRestartTyped, AllocSuperTyped, AllocSpecTyped
<1>2. CtlInv' /\ OwnInv'
  BY CtlRestartOwned, AllocSuperOwned, AllocSpecOwned
<1>3. UNCHANGED req
  BY DEF CtlRestart, AllocSuper, AllocSpec
<1>4. PrepInv'
  BY <1>3 DEF PrepInv
<1>5. TypeOK'
  BY <1>1, ClientsSame DEF TypeOK
<1> QED
  BY <1>2, <1>4, <1>5

LEMMA RestartBase ==
    ASSUME Base, NEW s \in Server, ServerRestart(s)
    PROVE  Base'
<1> USE DEF Base
<1> DEFINE gone == {c \in Local : ServerOf[c] = s}
<1>1. Restart(s, gone) /\ Forget(gone)
  BY DEF ServerRestart
<1> HIDE DEF gone
<1>2. TypeOK'
  BY <1>1, RestartTyped, ForgetTyped DEF TypeOK
<1>3. OwnInv' /\ CtlInv'
  <2>1. UNCHANGED <<ctl, fldb>>
    BY <1>1 DEF Restart
  <2> QED
    BY <1>1, <2>1, RestartReach, OwnKept DEF CtlInv
<1>4. PrepInv'
  BY <1>1 DEF PrepInv, Restart, Forget
<1> QED
  BY <1>2, <1>3, <1>4

ClientStep(c) ==
    \/ BumpFid(c) \/ \E what \in {"fid", "whole"} : AllocPrep(c, what)
    \/ AllocSeq(c) \/ MetaDone(c) \/ MetaReplyLost(c) \/ MetaRpcFails(c)
    \/ Flush(c) \/ ClientRestart(c)

LEMMA ClientStepBase ==
    ASSUME Base, NEW c \in Client, ClientStep(c), UnchangedServer
    PROVE  Base'
<1> USE DEF Base
<1>1. ClientsOK' /\ CallsOK'
  BY BumpFidTyped, AllocPrepTyped, AllocSeqTyped, MetaDoneTyped, LostTyped DEF ClientStep
<1>2. TypeOK'
  BY <1>1, ServersSame DEF TypeOK
<1>3. \A x \in Server : Reach(x)' = Reach(x)
  BY DEF UnchangedServer, Reach, Held
<1>4. OwnInv' /\ CtlInv'
  BY <1>3, OwnKept DEF UnchangedServer, CtlInv
<1>5. PrepInv'
  <2>1. CASE BumpFid(c) \/ MetaReplyLost(c) \/ MetaRpcFails(c) \/ Flush(c) \/ ClientRestart(c)
    BY <2>1 DEF PrepInv, BumpFid, MetaReplyLost, MetaRpcFails, Flush, ClientRestart, Forget,
                TypeOK, ClientsOK
  <2>2. CASE \E what \in {"fid", "whole"} : AllocPrep(c, what)
    BY <2>2 DEF PrepInv, AllocPrep, TypeOK, ClientsOK
  <2>3. CASE AllocSeq(c) \/ MetaDone(c)
    BY <2>3 DEF PrepInv, AllocSeq, MetaDone, AllocFini, TypeOK, ClientsOK
  <2> QED
    BY <2>1, <2>2, <2>3 DEF ClientStep
<1> QED
  BY <1>2, <1>4, <1>5

\* Every step is one of these.
LEMMA Steps ==
    ASSUME [Next]_vars
    PROVE  \/ \E s \in Server : ServerStep(s) /\ UNCHANGED cvars
           \/ CtlStep /\ UNCHANGED cvars
           \/ \E s \in Server : ServerRestart(s)
           \/ \E c \in Client : ClientStep(c) /\ UnchangedServer
           \/ UNCHANGED vars
<1>1. CASE FidServerNext /\ UNCHANGED cvars
  BY <1>1 DEF FidServerNext, ServerStep, CtlStep
<1>2. CASE FidClientNext /\ UnchangedServer
  BY <1>2 DEF FidClientNext, ClientStep
<1> QED
  BY <1>1, <1>2 DEF Next

LEMMA BaseStutters == ASSUME Base, UNCHANGED vars PROVE Base'
<1>1. UNCHANGED <<calls, cvars>> /\ UnchangedServer
  BY DEF vars, fvars, UnchangedServer
<1>2. TypeOK'
  BY <1>1, ServersSame, CallsSame, ClientsSame DEF Base, TypeOK
<1>3. CtlInv' /\ OwnInv' /\ PrepInv'
  BY <1>1 DEF Base, CtlInv, OwnInv, PrepInv, UnchangedServer, Reach, Held
<1> QED
  BY <1>2, <1>3 DEF Base

LEMMA BaseStep == ASSUME Base, [Next]_vars PROVE Base'
<1>1. CASE \E s \in Server : ServerStep(s) /\ UNCHANGED cvars
  BY <1>1, ServerStepBase
<1>2. CASE CtlStep /\ UNCHANGED cvars
  BY <1>2, CtlStepBase
<1>3. CASE \E s \in Server : ServerRestart(s)
  BY <1>3, RestartBase
<1>4. CASE \E c \in Client : ClientStep(c) /\ UnchangedServer
  BY <1>4, ClientStepBase
<1>5. CASE UNCHANGED vars
  BY <1>5, BaseStutters
<1> QED
  BY <1>1, <1>2, <1>3, <1>4, <1>5, Steps

LEMMA BaseInit == Init => Base
<1> SUFFICES ASSUME Init PROVE Base
  OBVIOUS
<1>1. TypeOK
  BY InitTyped
<1>2. CtlInv
  BY Widths, SMTT(30) DEF Init, FidServerInit, CtlInv, SaneRange, Range, Seqs
<1>3. ASSUME NEW s \in Server PROVE Reach(s) = {}
  <2>1. /\ Within(space[s]) = {} /\ Within(lo[s]) = {} /\ Within(hi[s]) = {}
        /\ Within(disk[s]) = {} /\ Within(cli[s]) = {} /\ given[s] = {}
    BY ZeroRange DEF Init, FidServerInit
  <2>2. Covered(pend[s]) = {} /\ Covered(sup[s]) = {}
    BY ZeroRange, CoveredSets DEF Init, FidServerInit, None
  <2> QED
    BY <2>1, <2>2 DEF Reach, Held
<1>4. OwnInv
  BY <1>3 DEF OwnInv
<1>5. PrepInv
  BY DEF Init, FidClientInit, PrepInv
<1> QED
  BY <1>1, <1>2, <1>4, <1>5 DEF Base

\* Types, and what belongs to whom, hold in every reachable state.
THEOREM BaseInvariant == Spec => []Base
  BY BaseInit, BaseStep, PTL DEF Spec

\* The FLDB on MDT0 locates every sequence a server has or had, for any number
\* of servers, whatever writes fail, replies are lost and nodes restart, and
\* although the lwp callback races with the handler.
THEOREM FldCorrect == Spec => []FldLocates
<1>1. Base => FldLocates
  BY DEF Base, OwnInv, FldLocates, Reach
<1> QED
  BY <1>1, BaseInvariant, PTL

\* Ranges stay sane: no LASSERT(lu_seq_range_is_sane(...)) fails.
THEOREM TypeCorrect == Spec => []TypeOK
<1>1. Base => TypeOK
  BY DEF Base
<1> QED
  BY <1>1, BaseInvariant, PTL

-----------------------------------------------------------------------------
(* The sets of a server stay apart.                                        *)

\* No write of a server fails, and no lwp callback runs.
Strict == Lwp = {} /\ "srv" \notin WriteFails

\* A server is left alone, but for requests that are given up.
Same(x) ==
    /\ space'[x] = space[x] /\ lo'[x] = lo[x] /\ hi'[x] = hi[x]
    /\ disk'[x] = disk[x] /\ pend'[x] = pend[x] /\ needSync'[x] = needSync[x]
    /\ given'[x] = given[x] /\ sup'[x] = sup[x] /\ cli'[x] = cli[x]
    /\ pc'[x] = pc[x] /\ rpc'[x] = rpc[x]
    /\ serving'[x] \subseteq serving[x]

LEMMA SameKept ==
    ASSUME NEW x \in Server, Same(x)
    PROVE  (Apart(x) => Apart(x)') /\ (Threads(x) => Threads(x)')
<1>1. Fresh(x)' = Fresh(x)
  BY DEF Same, Fresh
<1>2. Apart(x) => Apart(x)'
  BY <1>1 DEF Same, Apart
<1>3. Threads(x) => Threads(x)'
  BY DEF Same, Threads
<1> QED
  BY <1>2, <1>3

\* Smaller sets, with the disk left alone, are still apart.
LEMMA SetsShrink ==
    ASSUME NEW L, NEW H, NEW S, NEW D, NEW P, NEW G, NEW F, ApartSets(L, H, S, D, P, G, F),
           NEW L1 \in SUBSET L, NEW H1 \in SUBSET H, NEW S1 \in SUBSET S,
           NEW D1 \in SUBSET D, NEW P1 \in SUBSET P, NEW G1 \in SUBSET G, NEW F1 \in SUBSET F
    PROVE  ApartSets(L1, H1, S1, D1, P1, G1, F1)
  BY DEF ApartSets

\* A step of one server leaves the others alone.
LEMMA OthersSame ==
    ASSUME TypeOK, NEW s \in Server, NEW x \in Server, x # s,
           ServerStep(s) \/ AllocSuper(s)
    PROVE  Same(x)
<1> USE DEF TypeOK, RangesOK, ThreadsOK, CallsOK, Same
<1>1. CASE UpdateCb(s) \/ TxnCommit(s)
  BY <1>1, SMTT(30) DEF UpdateCb, TxnCommit
<1>2. CASE LwpConnect(s) \/ LwpCheck(s) \/ LwpDone(s) \/ MetaFails(s)
  BY <1>2, SMTT(30) DEF LwpConnect, LwpCheck, LwpDone, MetaFails, Goto, Answer
<1>3. CASE \E c \in Client : AllocMeta(s, c)
  BY <1>3, ZenonT(60) DEF AllocMeta, Goto
<1>4. CASE SuperReplyLost(s) \/ AllocSuper(s)
  BY <1>4 DEF SuperReplyLost, AllocSuper
<1>5. CASE \E a \in Actor : SuperRpc(s, a) \/ SaveSpace(s, a)
  BY <1>5, ZenonT(60) DEF SuperRpc, SaveSpace, Goto
<1>6. CASE \E a \in Actor : SuperDone(s, a)
  BY <1>6, SMTT(30) DEF SuperDone, Fail, Goto, Answer
<1>7. CASE \E a \in Actor : SetInit(s, a)
  <2>1. disk'[x] = disk[x] /\ pend'[x] = pend[x] /\ needSync'[x] = needSync[x]
    BY <1>7, ZenonT(60) DEF SetInit, StoreSync, StoreFails
  <2> QED
    BY <1>7, <2>1 DEF SetInit
<1>8. CASE RangeAllocSet(s)
  <2>1. disk'[x] = disk[x] /\ pend'[x] = pend[x] /\ needSync'[x] = needSync[x]
    <3>1. CASE RangeAlloc(s)
      BY <3>1 DEF RangeAlloc
    <3>2. CASE \E e \in Exports : SwitchSets(s, e)
      BY <3>2, ZenonT(60) DEF SwitchSets, StoreUpdate, StoreSync, StoreAsync, StoreFails
    <3> QED
      BY <1>8, <3>1, <3>2 DEF RangeAllocSet
  <2>2. lo'[x] = lo[x] /\ given'[x] = given[x] /\ serving'[x] = serving[x]
    BY <1>8, ZenonT(60) DEF RangeAllocSet, RangeAlloc, SwitchSets, HandOut, Answer
  <2>3. hi'[x] = hi[x] /\ space'[x] = space[x] /\ pc'[x] = pc[x]
    BY <1>8 DEF RangeAllocSet, RangeAlloc, SwitchSets, Goto
  <2> QED
    BY <1>8, <2>1, <2>2, <2>3 DEF RangeAllocSet
<1> QED
  BY <1>1, <1>2, <1>3, <1>4, <1>5, <1>6, <1>7, <1>8, ZenonT(60) DEF ServerStep

\* The handler is alone: it holds lcs_mutex while it waits for the controller.
LEMMA ServerStepThreads ==
    ASSUME TypeOK, Lwp = {}, NEW s \in Server, Threads(s), ServerStep(s) \/ AllocSuper(s)
    PROVE  Threads(s)'
<1> USE DEF TypeOK, RangesOK, ThreadsOK, CallsOK, Threads, Actor
<1>1. CASE UpdateCb(s) \/ TxnCommit(s)
  BY <1>1 DEF UpdateCb, TxnCommit
<1>2. CASE LwpConnect(s) \/ LwpCheck(s) \/ LwpDone(s)
  BY <1>2 DEF LwpConnect, LwpCheck, LwpDone
<1>3. CASE MetaFails(s)
  BY <1>3, SMTT(30) DEF MetaFails, Goto, Answer
<1>4. CASE \E c \in Client : AllocMeta(s, c)
  BY <1>4, SMTT(30) DEF AllocMeta, Goto, Check
<1>5. CASE SuperReplyLost(s) \/ AllocSuper(s)
  BY <1>5 DEF SuperReplyLost, AllocSuper, None, Error
<1>6. CASE \E a \in Actor : SuperRpc(s, a) \/ SaveSpace(s, a)
  BY <1>6, SMTT(30) DEF SuperRpc, SaveSpace, Goto
<1>7. CASE \E a \in Actor : SuperDone(s, a)
  BY <1>7, SMTT(30) DEF SuperDone, Fail, Goto, Answer
<1>8. CASE \E a \in Actor : SetInit(s, a)
  BY <1>8 DEF SetInit
<1>9. CASE RangeAllocSet(s)
  <2>1. UNCHANGED <<rpc, sup>> /\ Goto(s, "meta", "idle") /\ pc[s]["meta"] = "sets"
    BY <1>9 DEF RangeAllocSet
  <2>2. serving'[s] = {}
    BY <1>9, ZenonT(60) DEF RangeAllocSet, RangeAlloc, SwitchSets, HandOut, Answer
  <2> QED
    BY <2>1, <2>2, SMTT(30) DEF Goto
<1> QED
  BY <1>1, <1>2, <1>3, <1>4, <1>5, <1>6, <1>7, <1>8, <1>9 DEF ServerStep

\* A super-sequence that leaves the controller belongs to no server yet.
LEMMA AllocSuperApart ==
    ASSUME Base, NEW s \in Server, Threads(s), Apart(s), AllocSuper(s)
    PROVE  Apart(s)'
<1> DEFINE out == Taken(ctl.space, SuperWidth)
<1>1. Within(out) \cap Reach(s) = {}
  <2>1. Within(out) \subseteq Within(ctl.space)
    BY SplitRange, Widths, SMTT(30) DEF Base, TypeOK, RangesOK
  <2>2. Within(ctl.space) \subseteq Within(ctl.disk)
    BY SMTT(30) DEF Base, TypeOK, RangesOK, CtlInv, SaneRange, Range, Within
  <2>3. \A q \in Within(ctl.disk) : fldb[q] = NoServer
    BY DEF Base, CtlInv
  <2>4. \A q \in Reach(s) : fldb[q] = s
    BY DEF Base, OwnInv
  <2> QED
    BY <2>1, <2>2, <2>3, <2>4, FidAssumption
<1>2. pc[s]["meta"] = "rpc"
  BY DEF AllocSuper, Threads
<1>3. Covered(sup'[s]) \subseteq Within(out)
  BY CoveredSets DEF AllocSuper, Base, TypeOK, RangesOK
<1>4. Fresh(s)' \subseteq Within(out)
  BY <1>2, <1>3 DEF AllocSuper, Fresh
<1>5. Fresh(s)' \cap Reach(s) = {}
  BY <1>1, <1>4
<1>6. UNCHANGED <<lo, hi, space, disk, pend, given, needSync>>
  BY DEF AllocSuper
<1> HIDE DEF out
<1>7. ApartSets(Within(lo[s]), Within(hi[s]), Within(space[s]), Within(disk[s]),
                Covered(pend[s]), given[s], Fresh(s)')
  BY <1>5 DEF Apart, ApartSets, Reach, Held
<1> QED
  BY <1>6, <1>7 DEF Apart

\* Steps that neither move nor write sequences.
LEMMA QuietApart ==
    ASSUME TypeOK, NEW s \in Server, Threads(s), Apart(s),
           \/ UpdateCb(s) \/ LwpConnect(s) \/ LwpCheck(s) \/ LwpDone(s) \/ MetaFails(s)
           \/ SuperReplyLost(s)
           \/ \E c \in Client : AllocMeta(s, c)
           \/ \E a \in Actor : SuperRpc(s, a)
    PROVE  Apart(s)'
<1> USE DEF TypeOK, RangesOK, ThreadsOK
<1>1. UNCHANGED <<lo, hi, space, disk, pend, given, cli>>
  BY DEF UpdateCb, LwpConnect, LwpCheck, LwpDone, MetaFails, AllocMeta, SuperRpc,
         SuperReplyLost
<1>2. needSync'[s] = needSync[s] \/ pend[s] = None
  BY DEF UpdateCb, LwpConnect, LwpCheck, LwpDone, MetaFails, AllocMeta, SuperRpc,
         SuperReplyLost
<1>3. Covered(sup'[s]) \subseteq Covered(sup[s])
  BY CoveredSets, ZenonT(60) DEF UpdateCb, LwpConnect, LwpCheck, LwpDone, MetaFails, AllocMeta,
         SuperRpc, SuperReplyLost, None
<1>4. pc'[s]["meta"] = "copy" => pc[s]["meta"] = "copy"
  BY SMTT(30) DEF UpdateCb, LwpConnect, LwpCheck, LwpDone, MetaFails, AllocMeta, SuperRpc,
         SuperReplyLost, Goto, Check, Threads, Actor
<1>5. Fresh(s)' \subseteq Fresh(s)
  BY <1>1, <1>3, <1>4, ZenonT(60) DEF Fresh
<1>6. ApartSets(Within(lo[s]), Within(hi[s]), Within(space[s]), Within(disk[s]),
                Covered(pend[s]), given[s], Fresh(s)')
  BY <1>5, SetsShrink, SMTT(30) DEF Apart
<1> QED
  BY <1>1, <1>2, <1>6 DEF Apart

\* The disk gets the space without the sequences of the sets.
LEMMA TxnCommitApart ==
    ASSUME TypeOK, NEW s \in Server, Apart(s), TxnCommit(s)
    PROVE  Apart(s)'
<1> USE DEF TypeOK, RangesOK
<1>1. PICK r \in pend[s] : disk' = [disk EXCEPT ![s] = r]
  BY DEF TxnCommit
<1>2. Within(disk'[s]) \subseteq Covered(pend[s])
  BY <1>1 DEF Covered
<1>3. pend'[s] = None /\ Covered(pend'[s]) = {}
  BY CoveredSets DEF TxnCommit, None
<1>4. UNCHANGED <<lo, hi, space, given, needSync>> /\ Fresh(s)' = Fresh(s)
  BY DEF TxnCommit, Fresh
<1>5. /\ ApartSets(Within(lo[s]), Within(hi[s]), Within(space[s]), Within(disk'[s]),
                   {}, given[s], Fresh(s))
      /\ Within(hi[s]) \cap Within(disk'[s]) = {}
  BY <1>2 DEF Apart, ApartSets
<1> QED
  BY <1>3, <1>4, <1>5 DEF Apart

\* A super-sequence arrives and becomes the space.
LEMMA SuperDoneApart ==
    ASSUME TypeOK, NEW s \in Server, NEW a \in Actor, Threads(s), Apart(s), SuperDone(s, a)
    PROVE  Apart(s)'
<1> USE DEF TypeOK, RangesOK, ThreadsOK
<1>1. a = "meta"
  BY DEF SuperDone, Threads, Actor
<1>2. Covered(sup'[s]) = {}
  BY CoveredSets DEF SuperDone, None
<1>3. \/ pc'[s]["meta"] # "copy"
      \/ \E r \in sup[s] : cli' = [cli EXCEPT ![s] = r]
  BY <1>1, SMTT(30) DEF SuperDone, Fail, Goto
<1>4. Fresh(s)' \subseteq Covered(sup[s])
  BY <1>2, <1>3, SMTT(30) DEF Fresh, Covered
<1>5. Fresh(s)' \subseteq Fresh(s)
  BY <1>4 DEF Fresh
<1>6. UNCHANGED <<lo, hi, space, disk, pend, given, needSync>>
  BY DEF SuperDone
<1>7. ApartSets(Within(lo[s]), Within(hi[s]), Within(space[s]), Within(disk[s]),
                Covered(pend[s]), given[s], Fresh(s)')
  BY <1>5, SetsShrink, SMTT(30) DEF Apart
<1> QED
  BY <1>6, <1>7 DEF Apart

LEMMA SaveSpaceApart ==
    ASSUME TypeOK, NEW s \in Server, NEW a \in Actor, Threads(s), Apart(s), SaveSpace(s, a)
    PROVE  Apart(s)'
<1> USE DEF TypeOK, RangesOK, ThreadsOK
<1>1. a = "meta" /\ pc[s]["meta"] = "copy"
  BY DEF SaveSpace, Threads, Actor
<1>2. sup[s] = {} /\ Covered(sup[s]) = {}
  BY <1>1, CoveredSets DEF Threads, None
<1>3. Fresh(s) = Within(cli[s])
  BY <1>1, <1>2 DEF Fresh
<1>4. pc'[s]["meta"] # "copy" /\ sup' = sup /\ space'[s] = cli[s]
  BY <1>1, SMTT(30) DEF SaveSpace, Goto
<1>5. Fresh(s)' = {}
  BY <1>2, <1>4 DEF Fresh
<1>6. UNCHANGED <<lo, hi, disk, pend, given, needSync>>
  BY DEF SaveSpace
<1>7. ApartSets(Within(lo[s]), Within(hi[s]), Within(cli[s]), Within(disk[s]),
                Covered(pend[s]), given[s], {})
  BY <1>3, ZenonT(60) DEF Apart, ApartSets
<1> QED
  BY <1>4, <1>5, <1>6, <1>7 DEF Apart

\* The first two sets are cut from the space and the rest is written.
LEMMA SetInitApart ==
    ASSUME TypeOK, "srv" \notin WriteFails, NEW s \in Server, NEW a \in Actor, Apart(s),
           SetInit(s, a)
    PROVE  Apart(s)'
<1> USE DEF TypeOK, RangesOK
<1> DEFINE rest == Left(space[s], SetWidth)
           L1 == Within(Taken(space[s], SetWidth))
           H1 == Within(Taken(rest, SetWidth))
           S1 == Within(Left(rest, SetWidth))
<1>1. space[s] \in SaneRange /\ SetWidth \in Nat
  BY Widths
<1>2. /\ rest \in SaneRange
      /\ L1 \cup Within(rest) = Within(space[s]) /\ L1 \cap Within(rest) = {}
  BY <1>1, SplitRange
<1>3. H1 \cup S1 = Within(rest) /\ H1 \cap S1 = {}
  BY <1>1, <1>2, SplitRange
<1>4. /\ Within(lo'[s]) = L1 /\ Within(hi'[s]) = H1 /\ Within(space'[s]) = S1
      /\ Within(disk'[s]) = S1 /\ pend'[s] = {}
      /\ UNCHANGED given
  BY DEF SetInit, StoreSync, StoreFails, None
<1>5. Fresh(s)' = Fresh(s)
  BY DEF SetInit, Fresh
<1>6. Covered(pend'[s]) = {}
  BY <1>4, CoveredSets
<1> HIDE DEF rest, L1, H1, S1
<1>7. ApartSets(L1, H1, S1, S1, {}, given[s], Fresh(s)) /\ H1 \cap S1 = {}
  BY <1>2, <1>3 DEF Apart, ApartSets
<1> QED
  BY <1>4, <1>5, <1>6, <1>7 DEF Apart, None

\* What is cut from the low-water set was never handed out by this server.
LEMMA HandOutSets ==
    ASSUME TypeOK, NEW s \in Server, NEW low \in SaneRange, HandOut(s, low)
    PROVE  \E O \in SUBSET Within(low) :
             /\ Within(lo'[s]) = Within(low) \ O
             /\ given'[s] = given[s] \cup O
             /\ twice' = twice \cup (O \cap AllGiven)
             /\ AllGiven' = AllGiven \cup O
             /\ O = Within(Taken(low, MetaWidth))
<1> DEFINE O == Within(Taken(low, MetaWidth))
           rest == Within(Left(low, MetaWidth))
<1>1. O \cup rest = Within(low) /\ O \cap rest = {}
  BY SplitRange, Widths
<1>2. lo' = [lo EXCEPT ![s] = Left(low, MetaWidth)]
  BY DEF HandOut
<1>3. Within(lo'[s]) = rest
  BY <1>2 DEF TypeOK, RangesOK
<1>4. /\ given' = [given EXCEPT ![s] = @ \cup O]
      /\ twice' = twice \cup (O \cap AllGiven)
  BY DEF HandOut, AllGiven
<1> HIDE DEF O, rest
<1>5. given'[s] = given[s] \cup O /\ \A x \in Server \ {s} : given'[x] = given[x]
  BY <1>4 DEF TypeOK, ThreadsOK
<1>6. AllGiven' = AllGiven \cup O
  BY <1>5 DEF AllGiven
<1>7. O \in SUBSET Within(low) /\ rest = Within(low) \ O
  BY <1>1
<1>8. O = Within(Taken(low, MetaWidth))
  BY DEF O
<1> QED
  BY <1>3, <1>4, <1>5, <1>6, <1>7, <1>8

LEMMA RangeAllocApart ==
    ASSUME TypeOK, NEW s \in Server, Apart(s), RangeAlloc(s), Fresh(s)' = Fresh(s)
    PROVE  Apart(s)'
<1>1. lo[s] \in SaneRange
  BY DEF TypeOK, RangesOK
<1>2. PICK O \in SUBSET Within(lo[s]) :
        Within(lo'[s]) = Within(lo[s]) \ O /\ given'[s] = given[s] \cup O
  BY <1>1, HandOutSets DEF RangeAlloc
<1>3. UNCHANGED <<space, hi, disk, pend, needSync>>
  BY DEF RangeAlloc
<1>4. ApartSets(Within(lo'[s]), Within(hi[s]), Within(space[s]), Within(disk[s]),
                Covered(pend[s]), given'[s], Fresh(s))
  BY <1>2 DEF Apart, ApartSets
<1> QED
  BY <1>3, <1>4 DEF Apart

LEMMA SwitchSetsApart ==
    ASSUME TypeOK, "srv" \notin WriteFails, NEW s \in Server, Apart(s),
           NEW e \in Exports, SwitchSets(s, e), Fresh(s)' = Fresh(s)
    PROVE  Apart(s)'
<1> USE DEF TypeOK, RangesOK, ThreadsOK
<1> DEFINE n == IF e * MetaWidth > SetWidth THEN e * MetaWidth ELSE SetWidth
<1>1. n \in Nat /\ space[s] \in SaneRange /\ hi[s] \in SaneRange
  BY SetSize
<1>2. /\ hi' = [hi EXCEPT ![s] = Taken(space[s], n)]
      /\ space' = [space EXCEPT ![s] = Left(space[s], n)]
      /\ StoreUpdate(s, Left(space[s], n), needSync[s])
      /\ HandOut(s, hi[s])
  BY DEF SwitchSets, StoreFails
<1> HIDE DEF n
<1> DEFINE H1 == Within(Taken(space[s], n))
           S1 == Within(Left(space[s], n))
<1>3. H1 \cup S1 = Within(space[s]) /\ H1 \cap S1 = {}
  BY <1>1, SplitRange
<1>4. PICK O \in SUBSET Within(hi[s]) :
        Within(lo'[s]) = Within(hi[s]) \ O /\ given'[s] = given[s] \cup O
  BY <1>1, <1>2, HandOutSets
<1>5. Within(hi'[s]) = H1 /\ Within(space'[s]) = S1
  BY <1>2
<1>6. CASE Within(disk'[s]) = S1 /\ pend'[s] = None
  <2>1. Covered(pend'[s]) = {}
    BY <1>6, CoveredSets DEF None
  <2> HIDE DEF H1, S1
  <2>2. ApartSets(Within(lo'[s]), H1, S1, S1, {}, given'[s], Fresh(s)) /\ H1 \cap S1 = {}
    BY <1>3, <1>4 DEF Apart, ApartSets
  <2> QED
    BY <1>5, <1>6, <2>1, <2>2 DEF Apart
<1>7. CASE /\ ~needSync[s] /\ disk' = disk
           /\ pend'[s] = {Left(space[s], n)} /\ needSync'[s]
  <2>1. Covered(pend'[s]) = S1
    BY <1>7, CoveredSets
  <2>2. pend[s] = None /\ Within(hi[s]) \cap Within(disk[s]) = {}
    BY <1>7 DEF Apart
  <2>3. pend'[s] # None
    BY <1>7 DEF None
  <2> HIDE DEF H1, S1
  <2>4. ApartSets(Within(lo'[s]), H1, S1, Within(disk[s]), S1, given'[s], Fresh(s))
    BY <1>3, <1>4, <2>2 DEF Apart, ApartSets
  <2> QED
    BY <1>5, <1>7, <2>1, <2>3, <2>4 DEF Apart
<1> QED
  BY <1>2, <1>6, <1>7, ZenonT(60) DEF StoreUpdate, StoreSync, StoreAsync

LEMMA RangeAllocSetApart ==
    ASSUME TypeOK, "srv" \notin WriteFails, NEW s \in Server, Apart(s), RangeAllocSet(s)
    PROVE  Apart(s)'
<1>1. Fresh(s)' = Fresh(s)
  BY ZenonT(60) DEF RangeAllocSet, Fresh, Goto, TypeOK, ThreadsOK, Actor
<1> QED
  BY <1>1, RangeAllocApart, SwitchSetsApart DEF RangeAllocSet

\* After a restart the space is the one on disk, which has no sequence that was
\* handed out.
LEMMA RestartApart ==
    ASSUME TypeOK, NEW s \in Server, NEW gone, Restart(s, gone), Apart(s)
    PROVE  Apart(s)'
<1> USE DEF TypeOK, RangesOK, ThreadsOK
<1>1. /\ Within(lo'[s]) = {} /\ Within(hi'[s]) = {} /\ space'[s] = disk[s]
      /\ UNCHANGED <<disk, given>>
  BY ZeroRange DEF Restart
<1>2. /\ Covered(pend'[s]) = {} /\ Covered(sup'[s]) = {}
      /\ ~needSync'[s] => pend'[s] = None
  <2>1. /\ pend'[s] = pend[s] \cap {Zero} /\ sup'[s] = None
        /\ needSync'[s] = (pend[s] \cap {Zero} # None)
    BY SMTT(30) DEF Restart
  <2>2. pend'[s] = {} \/ pend'[s] = Error
    BY <2>1, SMTT(30) DEF Error
  <2>3. Covered(pend'[s]) = {}
    BY <2>2, CoveredSets
  <2> QED
    BY <2>1, <2>3, CoveredSets DEF None
<1>3. Fresh(s)' = {}
  BY <1>2 DEF Restart, Fresh, Actor
<1>4. ApartSets({}, {}, Within(disk[s]), Within(disk[s]), {}, given[s], {})
  BY DEF Apart, ApartSets
<1> QED
  BY <1>1, <1>2, <1>3, <1>4 DEF Apart

LEMMA RestartOthers ==
    ASSUME TypeOK, NEW s \in Server, NEW gone, Restart(s, gone),
           NEW x \in Server, x # s
    PROVE  Same(x)
  BY DEF Restart, Same, TypeOK, RangesOK, ThreadsOK, CallsOK

LEMMA RestartThreads ==
    ASSUME TypeOK, NEW s \in Server, NEW gone, Restart(s, gone)
    PROVE  Threads(s)'
  BY DEF Restart, Threads, TypeOK, RangesOK, ThreadsOK, CallsOK, Actor

\* A server hands out what neither it nor another server handed out before.
LEMMA HandOutNew ==
    ASSUME Base, SetsInv, NEW s \in Server, NEW low \in SaneRange,
           Within(low) \subseteq Within(lo[s]) \cup Within(hi[s])
    PROVE  Within(low) \cap AllGiven = {}
<1>1. \A x \in Server : \A q \in given[x] : fldb[q] = x
  BY DEF Base, OwnInv, Reach, Held
<1>2. \A q \in Within(low) : fldb[q] = s
  BY DEF Base, OwnInv, Reach, Held
<1>3. Within(low) \cap given[s] = {}
  BY DEF SetsInv, Apart, ApartSets
<1> QED
  BY <1>1, <1>2, <1>3, SMTT(30) DEF AllGiven

LEMMA RangeAllocSetUnique ==
    ASSUME Base, SetsInv, SequencesUnique, NEW s \in Server, RangeAllocSet(s)
    PROVE  SequencesUnique'
<1>1. lo[s] \in SaneRange /\ hi[s] \in SaneRange
  BY DEF Base, TypeOK, RangesOK
<1>2. ASSUME NEW low \in {lo[s], hi[s]}, HandOut(s, low)
      PROVE  SequencesUnique'
  <2>1. PICK O \in SUBSET Within(low) : twice' = twice \cup (O \cap AllGiven)
    BY <1>1, <1>2, HandOutSets, SMTT(30) DEF Base
  <2>2. Within(low) \cap AllGiven = {}
    BY <1>1, HandOutNew
  <2> QED
    BY <2>1, <2>2 DEF SequencesUnique
<1>3. CASE UNCHANGED history
  BY <1>3 DEF SequencesUnique
<1> QED
  BY <1>2, <1>3 DEF RangeAllocSet, RangeAlloc, SwitchSets

Alone == Base /\ ThreadInv /\ SetsInv /\ SequencesUnique

LEMMA ServerStepAlone ==
    ASSUME Strict, Alone, NEW s \in Server, ServerStep(s)
    PROVE  ThreadInv' /\ SetsInv' /\ SequencesUnique'
<1> USE DEF Alone, Strict
<1>1. TypeOK /\ Apart(s) /\ Threads(s)
  BY DEF Base, SetsInv, ThreadInv
<1>2. ASSUME NEW x \in Server, x # s PROVE Apart(x)' /\ Threads(x)'
  BY <1>1, <1>2, OthersSame, SameKept DEF SetsInv, ThreadInv
<1>3. Threads(s)'
  BY <1>1, ServerStepThreads
<1>4. Apart(s)'
  BY <1>1, QuietApart, TxnCommitApart, SuperDoneApart, SaveSpaceApart, SetInitApart,
     RangeAllocSetApart DEF ServerStep
<1>5. SequencesUnique'
  <2>1. CASE RangeAllocSet(s)
    BY <2>1, RangeAllocSetUnique
  <2>2. CASE ~RangeAllocSet(s)
    <3>1. UNCHANGED twice
      BY <2>2 DEF ServerStep, UpdateCb, LwpConnect, LwpCheck, LwpDone, MetaFails, AllocMeta,
                  SuperRpc, SuperDone, SaveSpace, SetInit, TxnCommit, SuperReplyLost
    <3> QED
      BY <3>1 DEF SequencesUnique
  <2> QED
    BY <2>1, <2>2
<1> QED
  BY <1>2, <1>3, <1>4, <1>5 DEF SetsInv, ThreadInv

LEMMA SameAlone ==
    ASSUME Alone, \A x \in Server : Same(x), UNCHANGED twice
    PROVE  ThreadInv' /\ SetsInv' /\ SequencesUnique'
  BY SameKept DEF Alone, ThreadInv, SetsInv, SequencesUnique

LEMMA CtlStepAlone ==
    ASSUME Strict, Alone, CtlStep
    PROVE  ThreadInv' /\ SetsInv' /\ SequencesUnique'
<1>1. CASE CtlRestart \/ \E s \in Server : \E r \in Specs : AllocSpec(s, r)
  <2>1. \A x \in Server : Same(x)
    BY <1>1 DEF CtlRestart, AllocSpec, Same
  <2>2. UNCHANGED twice
    BY <1>1 DEF CtlRestart, AllocSpec
  <2> QED
    BY <2>1, <2>2, SameAlone
<1>2. ASSUME NEW s \in Server, AllocSuper(s)
      PROVE  ThreadInv' /\ SetsInv' /\ SequencesUnique'
  <2>1. TypeOK /\ Apart(s) /\ Threads(s)
    BY DEF Alone, Base, SetsInv, ThreadInv
  <2>2. ASSUME NEW x \in Server, x # s PROVE Apart(x)' /\ Threads(x)'
    BY <1>2, <2>1, <2>2, OthersSame, SameKept DEF Alone, SetsInv, ThreadInv
  <2>3. Threads(s)' /\ Apart(s)'
    BY <1>2, <2>1, ServerStepThreads, AllocSuperApart DEF Alone, Strict
  <2>4. UNCHANGED twice
    BY <1>2 DEF AllocSuper
  <2> QED
    BY <2>2, <2>3, <2>4 DEF Alone, SetsInv, ThreadInv, SequencesUnique
<1> QED
  BY <1>1, <1>2 DEF CtlStep

LEMMA RestartAlone ==
    ASSUME Alone, NEW s \in Server, ServerRestart(s)
    PROVE  ThreadInv' /\ SetsInv' /\ SequencesUnique'
<1> DEFINE gone == {c \in Local : ServerOf[c] = s}
<1>1. Restart(s, gone)
  BY DEF ServerRestart
<1> HIDE DEF gone
<1>2. TypeOK /\ Apart(s)
  BY DEF Alone, Base, SetsInv
<1>3. ASSUME NEW x \in Server, x # s PROVE Apart(x)' /\ Threads(x)'
  BY <1>1, <1>2, <1>3, RestartOthers, SameKept DEF Alone, SetsInv, ThreadInv
<1>4. Threads(s)' /\ Apart(s)'
  BY <1>1, <1>2, RestartThreads, RestartApart
<1>5. UNCHANGED twice
  BY <1>1 DEF Restart
<1> QED
  BY <1>3, <1>4, <1>5 DEF Alone, SetsInv, ThreadInv, SequencesUnique

LEMMA ClientStepAlone ==
    ASSUME Alone, NEW c \in Client, ClientStep(c), UnchangedServer
    PROVE  ThreadInv' /\ SetsInv' /\ SequencesUnique'
<1>1. \A x \in Server : serving'[x] \subseteq serving[x]
  <2>1. CASE MetaRpcFails(c) \/ ClientRestart(c)
    BY <2>1 DEF MetaRpcFails, ClientRestart, Unserved
  <2>2. CASE UNCHANGED serving
    BY <2>2
  <2> QED
    BY <2>1, <2>2 DEF ClientStep, BumpFid, AllocPrep, AllocSeq, MetaDone, MetaReplyLost, Flush
<1>2. \A x \in Server : Same(x)
  BY <1>1 DEF UnchangedServer, Same
<1> QED
  BY <1>2, SameAlone DEF UnchangedServer

LEMMA AloneStep == ASSUME Strict, Alone, [Next]_vars PROVE Alone'
<1>1. Base'
  BY BaseStep DEF Alone
<1>2. CASE \E s \in Server : ServerStep(s) /\ UNCHANGED cvars
  BY <1>1, <1>2, ServerStepAlone DEF Alone
<1>3. CASE CtlStep /\ UNCHANGED cvars
  BY <1>1, <1>3, CtlStepAlone DEF Alone
<1>4. CASE \E s \in Server : ServerRestart(s)
  BY <1>1, <1>4, RestartAlone DEF Alone
<1>5. CASE \E c \in Client : ClientStep(c) /\ UnchangedServer
  BY <1>1, <1>5, ClientStepAlone DEF Alone
<1>6. CASE UNCHANGED vars
  <2>1. (\A x \in Server : Same(x)) /\ UNCHANGED twice
    BY <1>6 DEF vars, fvars, Same
  <2> QED
    BY <1>1, <2>1, SameAlone DEF Alone
<1> QED
  BY <1>2, <1>3, <1>4, <1>5, <1>6, Steps

LEMMA AloneInit == Init => Alone
<1> SUFFICES ASSUME Init PROVE Alone
  OBVIOUS
<1> USE DEF Init, FidServerInit
<1>1. ThreadInv
  BY DEF ThreadInv, Threads, Actor, None
<1>2. ASSUME NEW s \in Server PROVE Apart(s)
  <2>1. /\ Within(space[s]) = {} /\ Within(lo[s]) = {} /\ Within(hi[s]) = {}
        /\ Within(disk[s]) = {} /\ given[s] = {}
    BY ZeroRange
  <2>2. Covered(pend[s]) = {} /\ Covered(sup[s]) = {}
    BY ZeroRange, CoveredSets DEF None
  <2>3. Fresh(s) = {} /\ needSync[s]
    BY <2>2 DEF Fresh, Actor
  <2> QED
    BY <2>1, <2>2, <2>3 DEF Apart, ApartSets
<1> QED
  BY <1>1, <1>2, BaseInit DEF Alone, SetsInv, SequencesUnique

\* Where no write of a server fails and no lwp callback runs.
THEOREM AloneInvariant == ASSUME Strict PROVE Spec => []Alone
<1>1. Alone /\ [Next]_vars => Alone'
  BY AloneStep
<1> QED
  BY <1>1, AloneInit, PTL DEF Spec

\* No sequence is handed out twice, for any number of servers and clients and
\* any widths, whatever replies are lost and nodes restart.
THEOREM SequencesCorrect == ASSUME Strict PROVE Spec => []SequencesUnique
<1>1. Alone => SequencesUnique
  BY DEF Alone
<1> QED
  BY <1>1, AloneInvariant, PTL

\* A sequence of the low-water set is not in the space a server reads when it
\* restarts.
THEOREM LowaterCorrect == ASSUME Strict PROVE Spec => []LowaterSafe
<1>1. Alone => LowaterSafe
  BY DEF Alone, SetsInv, Apart, ApartSets, LowaterSafe
<1> QED
  BY <1>1, AloneInvariant, PTL

-----------------------------------------------------------------------------
(* The clients.                                                            *)

\* Steps after which the clients have at most what they had.
LEMMA ClientsKept ==
    ASSUME ClientInv, AllGiven \subseteq AllGiven', UNCHANGED fids,
           \A c \in Client : /\ Within(cspace'[c]) \subseteq Within(cspace[c])
                             /\ Covered(rep'[c]) \subseteq Covered(rep[c])
                             /\ fid'[c] \in {fid[c], NoFid}
    PROVE  ClientInv'
<1>1. \A c \in Client : ToUse(c)' \subseteq ToUse(c)
  BY DEF ToUse
<1>2. UseInv'
  BY <1>1 DEF ClientInv, UseInv
<1>3. UsedInv'
  BY <1>1 DEF ClientInv, UsedInv
<1>4. LastInv'
  BY DEF ClientInv, LastInv
<1> QED
  BY <1>2, <1>3, <1>4 DEF ClientInv

\* A range is handed out to at most one client.
LEMMA HandOutClients ==
    ASSUME Alone, ClientInv, UNCHANGED cvars, NEW s \in Server,
           NEW low \in {lo[s], hi[s]}, HandOut(s, low)
    PROVE  ClientInv'
<1>1. low \in SaneRange
  BY SMTT(30) DEF Alone, Base, TypeOK, RangesOK
<1>2. PICK O \in SUBSET Within(low) :
        O = Within(Taken(low, MetaWidth)) /\ AllGiven' = AllGiven \cup O
  BY <1>1, HandOutSets DEF Alone, Base
<1>3. O \cap AllGiven = {}
  BY <1>1, HandOutNew DEF Alone
<1>4. \A c \in Client : Covered(rep'[c]) = IF c \in serving[s] THEN O ELSE Covered(rep[c])
  BY <1>2, CoveredSets DEF HandOut, Answer
<1>5. \A c, d \in serving[s] : c = d
  BY DEF Alone, ThreadInv, Threads
<1>6. \A c \in Client : ToUse(c)' \subseteq ToUse(c) \cup (IF c \in serving[s] THEN O ELSE {})
  BY <1>4 DEF ToUse
<1>7. UseInv'
  <2>1. ASSUME NEW c \in Client
        PROVE  /\ ToUse(c)' \subseteq AllGiven'
               /\ (Within(cspace[c]) \cap Covered(rep[c]))' = {}
    <3>1. /\ ToUse(c) \subseteq AllGiven /\ Within(cspace[c]) \cap Covered(rep[c]) = {}
          /\ Within(cspace[c]) \subseteq AllGiven
      BY DEF ClientInv, UseInv, ToUse
    <3> QED
      BY <1>2, <1>3, <1>4, <1>6, <3>1
  <2>2. ASSUME NEW c \in Client, NEW d \in Client \ {c}
        PROVE  ToUse(c)' \cap ToUse(d)' = {}
    <3>1. /\ ToUse(c) \subseteq AllGiven /\ ToUse(d) \subseteq AllGiven
          /\ ToUse(c) \cap ToUse(d) = {}
      BY DEF ClientInv, UseInv
    <3>2. ~(c \in serving[s] /\ d \in serving[s])
      BY <1>5
    <3> QED
      BY <1>3, <1>6, <3>1, <3>2
  <2> QED
    BY <2>1, <2>2 DEF UseInv
<1>8. UsedInv'
  BY <1>2, <1>3, <1>6 DEF ClientInv, UsedInv
<1>9. LastInv'
  BY DEF ClientInv, LastInv
<1> QED
  BY <1>7, <1>8, <1>9 DEF ClientInv

\* The first sequence of a range is taken out of it.
LEMMA FirstSequence ==
    ASSUME NEW r \in SaneRange, ~IsExhausted(r)
    PROVE  /\ r.start \in Within(r) /\ r.start \in Nat
           /\ Within([r EXCEPT !.start = @ + 1]) = Within(r) \ {r.start}
<1>1. /\ r = [start |-> r.start, end |-> r.end]
      /\ r.start \in Nat /\ r.end \in Nat /\ r.start < r.end
  BY SMTT(30) DEF SaneRange, Range, IsSane, IsExhausted, Space
<1>2. [r EXCEPT !.start = @ + 1] = [start |-> r.start + 1, end |-> r.end]
  BY <1>1, SMTT(30)
<1>3. Within([r EXCEPT !.start = @ + 1]) = (r.start + 1) .. (r.end - 1)
  BY <1>2 DEF Within
<1>4. Within(r) = r.start .. (r.end - 1)
  BY DEF Within
<1> QED
  BY <1>1, <1>3, <1>4, SMTT(30)

\* A client that begins a sequence begins one nobody has used.
LEMMA AllocFiniClients ==
    ASSUME TypeOK, ClientInv, FidsUnique, NEW c \in Client, NEW r \in SaneRange,
           ~IsExhausted(r), Within(r) \subseteq ToUse(c), AllocFini(c, r),
           AllGiven' = AllGiven,
           Covered(rep'[c]) \subseteq ToUse(c) \ Within(r),
           \A d \in Client \ {c} : Covered(rep'[d]) = Covered(rep[d])
    PROVE  ClientInv' /\ FidsUnique'
<1> DEFINE q == r.start
           whole == update[c] = "whole"
           oids == IF whole THEN Oid ELSE {1}
           new == {[seq |-> q, oid |-> o] : o \in oids}
           last == [seq |-> q, oid |-> IF whole THEN FidWidth ELSE 1]
<1>1. /\ q \in Within(r) /\ q \in Nat
      /\ Within([r EXCEPT !.start = @ + 1]) = Within(r) \ {q}
  BY FirstSequence
<1>2. /\ cspace' = [cspace EXCEPT ![c] = [r EXCEPT !.start = @ + 1]]
      /\ fid' = [fid EXCEPT ![c] = last]
      /\ fidTwice' = fidTwice \cup (new \cap fids)
      /\ fids' = fids \cup new
  BY DEF AllocFini, LastOid, Use
<1>3. /\ last \in new /\ \A f \in new : f.seq = q /\ f.oid <= last.oid
      /\ last.seq = q /\ last # NoFid
  BY ClientAssumption, <1>1, SMTT(30) DEF Oid, NoFid
<1>4. /\ Within(cspace'[c]) = Within(r) \ {q}
      /\ \A d \in Client \ {c} : cspace'[d] = cspace[d] /\ fid'[d] = fid[d]
      /\ fid'[c] = last
  BY <1>1, <1>2 DEF TypeOK, ClientsOK
<1> HIDE DEF q, new, last
<1>5. /\ ToUse(c)' \subseteq ToUse(c) \ {q}
      /\ \A d \in Client \ {c} : ToUse(d)' = ToUse(d)
  BY <1>1, <1>4 DEF ToUse
<1>6. UseInv'
  <2>1. \A d \in Client : ToUse(d)' \subseteq ToUse(d)
    BY <1>5
  <2>2. \A d \in Client : Within(cspace'[d]) \cap Covered(rep'[d]) = {}
    BY <1>4 DEF ClientInv, UseInv
  <2> QED
    BY <2>1, <2>2 DEF ClientInv, UseInv
<1>7. q \in AllGiven /\ \A d \in Client : q \notin ToUse(d)'
  BY <1>1, <1>5, ZenonT(60) DEF ClientInv, UseInv
<1>8. \A f \in fids : f.seq # q
  BY <1>1 DEF ClientInv, UsedInv
<1>9. UsedInv'
  BY <1>2, <1>3, <1>5, <1>7 DEF ClientInv, UsedInv
<1>10. LastInv'
  <2>1. ASSUME NEW d \in Client \ {c}, fid[d] # NoFid
        PROVE  fid[d] \in fids /\ fid[d].seq # q
    BY <1>8, <2>1 DEF ClientInv, LastInv
  <2>2. ASSUME NEW d \in Client \ {c}, fid'[d] # NoFid
        PROVE  /\ fid'[d] \in fids'
               /\ \A f \in fids' : f.seq = fid'[d].seq => f.oid <= fid'[d].oid
               /\ \A x \in Client \ {d} : fid'[x] # NoFid => fid'[x].seq # fid'[d].seq
    BY <1>2, <1>3, <1>4, <2>1, <2>2, SMTT(30) DEF ClientInv, LastInv
  <2>3. /\ fid'[c] \in fids'
        /\ \A f \in fids' : f.seq = fid'[c].seq => f.oid <= fid'[c].oid
        /\ \A x \in Client \ {c} : fid'[x] # NoFid => fid'[x].seq # fid'[c].seq
    BY <1>2, <1>3, <1>4, <1>8, <2>1, SMTT(30)
  <2> QED
    BY <2>2, <2>3 DEF LastInv
<1>11. FidsUnique'
  BY <1>2, <1>3, <1>8 DEF FidsUnique
<1> QED
  BY <1>6, <1>9, <1>10, <1>11 DEF ClientInv

LEMMA BumpFidClients ==
    ASSUME TypeOK, ClientInv, FidsUnique, NEW c \in Client, BumpFid(c), AllGiven' = AllGiven
    PROVE  ClientInv' /\ FidsUnique'
<1> DEFINE new == [fid[c] EXCEPT !.oid = @ + 1]
<1>1. fid[c] \in [seq : Nat, oid : Nat] /\ fid[c] # NoFid
  BY DEF TypeOK, ClientsOK, BumpFid
<1>2. new.seq = fid[c].seq /\ new.oid = fid[c].oid + 1
  BY <1>1
<1>3. /\ fid' = [fid EXCEPT ![c] = new]
      /\ fidTwice' = fidTwice \cup ({new} \cap fids)
      /\ fids' = fids \cup {new}
      /\ UNCHANGED <<cspace, rep>>
  BY DEF BumpFid, Use
<1> HIDE DEF new
<1>4. fid'[c] = new /\ \A d \in Client \ {c} : fid'[d] = fid[d]
  BY <1>3 DEF TypeOK, ClientsOK
<1>5. /\ fid[c] \in fids
      /\ \A f \in fids : f.seq = new.seq => f.oid <= fid[c].oid
      /\ \A d \in Client \ {c} : fid[d] # NoFid => fid[d].seq # new.seq
  BY <1>1, <1>2 DEF ClientInv, LastInv
<1>6. new \notin fids
  BY <1>1, <1>2, <1>5, SMTT(30)
<1>7. \A d \in Client : ToUse(d)' = ToUse(d)
  BY <1>3 DEF ToUse
<1>8. UseInv'
  BY <1>3, <1>7 DEF ClientInv, UseInv
<1>9. UsedInv'
  BY <1>2, <1>3, <1>5, <1>7 DEF ClientInv, UsedInv
<1>10. \A f \in fids' : f.seq = new.seq => f.oid <= new.oid
  BY <1>1, <1>2, <1>3, <1>5, SMTT(30) DEF TypeOK, ClientsOK
<1>11. LastInv'
  <2>1. ASSUME NEW d \in Client \ {c}, fid'[d] # NoFid
        PROVE  /\ fid'[d] \in fids'
               /\ \A f \in fids' : f.seq = fid'[d].seq => f.oid <= fid'[d].oid
               /\ \A x \in Client \ {d} : fid'[x] # NoFid => fid'[x].seq # fid'[d].seq
    BY <1>3, <1>4, <1>5, <2>1, SMTT(30) DEF ClientInv, LastInv
  <2>2. /\ fid'[c] \in fids'
        /\ \A x \in Client \ {c} : fid'[x] # NoFid => fid'[x].seq # fid'[c].seq
    BY <1>3, <1>4, <1>5, SMTT(30)
  <2> QED
    BY <1>4, <1>10, <2>1, <2>2 DEF LastInv
<1> QED
  BY <1>3, <1>6, <1>8, <1>9, <1>11 DEF ClientInv, FidsUnique

LEMMA ServerStepClients ==
    ASSUME Alone, ClientInv, NEW s \in Server, ServerStep(s), UNCHANGED cvars
    PROVE  ClientInv'
<1>1. CASE \E low \in {lo[s], hi[s]} : HandOut(s, low)
  BY <1>1, HandOutClients
<1>2. CASE Answer(s, Error) /\ UNCHANGED history
  <2>1. \A c \in Client : Covered(rep'[c]) \subseteq Covered(rep[c])
    BY <1>2, CoveredSets DEF Answer
  <2> QED
    BY <1>2, <2>1, ClientsKept DEF AllGiven
<1>3. CASE UNCHANGED <<rep, history>>
  BY <1>3, ClientsKept DEF AllGiven
<1>4. CASE RangeAllocSet(s)
  BY <1>1, <1>2, <1>4 DEF RangeAllocSet, RangeAlloc, SwitchSets
<1>5. CASE ~RangeAllocSet(s)
  BY <1>2, <1>3, <1>5 DEF ServerStep, UpdateCb, LwpConnect, LwpCheck, LwpDone, MetaFails,
     AllocMeta, SuperRpc, SuperDone, Fail, SaveSpace, SetInit, TxnCommit, SuperReplyLost
<1> QED
  BY <1>4, <1>5

LEMMA CtlStepClients ==
    ASSUME ClientInv, CtlStep, UNCHANGED cvars
    PROVE  ClientInv'
<1>1. UNCHANGED <<rep, history>>
  BY DEF CtlStep, CtlRestart, AllocSuper, AllocSpec
<1> QED
  BY <1>1, ClientsKept DEF AllGiven

LEMMA RestartClients ==
    ASSUME ClientInv, NEW s \in Server, ServerRestart(s)
    PROVE  ClientInv'
<1> DEFINE gone == {c \in Local : ServerOf[c] = s}
<1>1. Restart(s, gone) /\ Forget(gone)
  BY DEF ServerRestart
<1> HIDE DEF gone
<1>2. \A c \in Client : /\ Within(cspace'[c]) \subseteq Within(cspace[c])
                        /\ fid'[c] \in {fid[c], NoFid}
  BY <1>1, ZeroRange DEF Forget
<1>3. \A c \in Client : Covered(rep'[c]) \subseteq Covered(rep[c])
  BY <1>1, CoveredSets DEF Restart, None
<1>4. UNCHANGED <<fids, given>>
  BY <1>1 DEF Restart, Forget
<1> QED
  BY <1>2, <1>3, <1>4, ClientsKept DEF AllGiven

LEMMA ClientStepClients ==
    ASSUME Alone, ClientInv, FidsUnique, NEW c \in Client, ClientStep(c), UnchangedServer
    PROVE  ClientInv' /\ FidsUnique'
<1> USE DEF Alone, Base, TypeOK, CallsOK, ClientsOK
<1>1. AllGiven' = AllGiven
  BY DEF UnchangedServer, AllGiven
<1>2. CASE BumpFid(c)
  BY <1>1, <1>2, BumpFidClients
<1>3. CASE \/ \E what \in {"fid", "whole"} : AllocPrep(c, what)
           \/ MetaReplyLost(c) \/ MetaRpcFails(c) \/ Flush(c) \/ ClientRestart(c)
  <2>1. \A d \in Client : /\ Within(cspace'[d]) \subseteq Within(cspace[d])
                          /\ fid'[d] \in {fid[d], NoFid}
    BY <1>3, ZeroRange, ZenonT(60) DEF AllocPrep, MetaReplyLost, MetaRpcFails, Flush, ClientRestart, Forget
  <2>2. \A d \in Client : Covered(rep'[d]) \subseteq Covered(rep[d])
    BY <1>3, CoveredSets DEF AllocPrep, MetaReplyLost, MetaRpcFails, Flush, ClientRestart, None
  <2>3. UNCHANGED <<fids, fidTwice>>
    BY <1>3 DEF AllocPrep, MetaReplyLost, MetaRpcFails, Flush, ClientRestart, Forget
  <2> QED
    BY <1>1, <2>1, <2>2, <2>3, ClientsKept DEF FidsUnique
<1>4. CASE AllocSeq(c)
  <2>1. cspace[c] \in SaneRange /\ ~IsExhausted(cspace[c])
    BY <1>4 DEF AllocSeq, PrepInv
  <2>2. AllocFini(c, cspace[c]) /\ UNCHANGED rep
    BY <1>4 DEF AllocSeq
  <2>3. /\ Within(cspace[c]) \subseteq ToUse(c)
        /\ Covered(rep'[c]) \subseteq ToUse(c) \ Within(cspace[c])
    BY <2>2 DEF ToUse, ClientInv, UseInv
  <2> QED
    BY <1>1, <2>1, <2>2, <2>3, AllocFiniClients
<1>5. CASE MetaDone(c)
  <2>1. /\ rep' = [rep EXCEPT ![c] = {}]
        /\ Covered(rep'[c]) = {}
        /\ \A d \in Client \ {c} : rep'[d] = rep[d]
    BY <1>5, CoveredSets DEF MetaDone, None
  <2>2. PICK r \in rep[c] :
          \/ ~IsExhausted(r) /\ AllocFini(c, r)
          \/ UNCHANGED <<cspace, fid, fids, fidTwice>>
    BY <1>5 DEF MetaDone
  <2>3. CASE ~IsExhausted(r) /\ AllocFini(c, r)
    <3>1. r \in SaneRange /\ Within(r) \subseteq ToUse(c)
      BY DEF ToUse, Covered
    <3> QED
      BY <1>1, <2>1, <2>3, <3>1, AllocFiniClients, ZenonT(60)
  <2>4. CASE UNCHANGED <<cspace, fid, fids, fidTwice>>
    <3>1. \A d \in Client : Covered(rep'[d]) \subseteq Covered(rep[d])
      BY <2>1
    <3> QED
      BY <1>1, <2>4, <3>1, ClientsKept DEF FidsUnique
  <2> QED
    BY <2>2, <2>3, <2>4
<1> QED
  BY <1>2, <1>3, <1>4, <1>5 DEF ClientStep

LEMMA IndInvIs == IndInv <=> Alone /\ ClientInv /\ FidsUnique
  BY DEF IndInv, Alone, Base

LEMMA IndInvStep == ASSUME Strict, IndInv, [Next]_vars PROVE IndInv'
<1>1. Alone /\ ClientInv /\ FidsUnique /\ Alone'
  BY IndInvIs, AloneStep
<1> SUFFICES ClientInv' /\ FidsUnique'
  BY <1>1 DEF IndInv, Alone, Base
<1>2. CASE \E s \in Server : ServerStep(s) /\ UNCHANGED cvars
  BY <1>1, <1>2, ServerStepClients DEF FidsUnique
<1>3. CASE CtlStep /\ UNCHANGED cvars
  BY <1>1, <1>3, CtlStepClients DEF FidsUnique
<1>4. CASE \E s \in Server : ServerRestart(s)
  BY <1>1, <1>4, RestartClients DEF FidsUnique, ServerRestart, Forget
<1>5. CASE \E c \in Client : ClientStep(c) /\ UnchangedServer
  BY <1>1, <1>5, ClientStepClients
<1>6. CASE UNCHANGED vars
  BY <1>1, <1>6, ClientsKept DEF FidsUnique, vars, fvars, AllGiven
<1> QED
  BY <1>2, <1>3, <1>4, <1>5, <1>6, Steps

LEMMA IndInvInit == Init => IndInv
<1> SUFFICES ASSUME Init PROVE IndInv
  OBVIOUS
<1>1. UsedInv /\ LastInv /\ FidsUnique
  BY DEF Init, FidClientInit, UsedInv, LastInv, FidsUnique
<1>2. \A c \in Client : Within(cspace[c]) = {} /\ Covered(rep[c]) = {}
  BY ZeroRange, CoveredSets DEF Init, FidServerInit, FidClientInit, None
<1>3. UseInv
  BY <1>2 DEF UseInv, ToUse
<1> QED
  BY <1>1, <1>3, AloneInit, IndInvIs DEF ClientInv

\* The inductive invariant holds.
THEOREM IndInvCorrect == ASSUME Strict PROVE Spec => []IndInv
<1>1. IndInv /\ [Next]_vars => IndInv'
  BY IndInvStep
<1> QED
  BY <1>1, IndInvInit, PTL DEF Spec

\* No FID is used twice, for any number of clients, although they are evicted
\* and restart, their threads race and their requests are resent.
THEOREM FidsCorrect == ASSUME Strict PROVE Spec => []FidsUnique
<1>1. IndInv => FidsUnique
  BY DEF IndInv
<1> QED
  BY <1>1, IndInvCorrect, PTL
=============================================================================

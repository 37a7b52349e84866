------------------------- MODULE LdlmCallbackProofs -------------------------
(***************************************************************************)
(* No step of the lock server or of a client breaks QueueInv: what the head *)
(* of the waiting queue waits for has been called back, and the callback   *)
(* reaches a client that will cancel.                                      *)
(***************************************************************************)
EXTENDS LdlmQueueProofs

-----------------------------------------------------------------------------
(* The timers and the enqueues, as the server goes on.                     *)

\* A timer is armed or stopped and nobody evicted.
LEMMA EvictedKept ==
    ASSUME Sound, cl' = cl, failed' = failed,
           tmr' = tmr \/ \E l \in Lock : AddWaiting(l) \/ CancelLock(l)
    PROVE  NoneEvicted'
<1>1. tmr \in [Lock -> Timer] /\ NoneEvicted
  BY SoundFacts, Zenon DEF Sound, SInv, ServerTypeOK
<1>2. \A l \in Lock : tmr'[l] \in {tmr[l], "off", "armed"}
  BY <1>1 DEF AddWaiting, CancelLock
<1> QED
  BY <1>1, <1>2, Zenon DEF NoneEvicted

\* The thread goes on with its enqueue, and does not fail it.
EnqueueGoes(u) ==
    thr'[u].ctx = "enq" =>
        /\ thr[u].ctx = "enq" /\ thr'[u].lock = thr[u].lock
        /\ thr'[u].rc = "error" =>
             ~thr'[u].rescan /\ thr'[u].pc \in {"hash", "policy", "bl", "blfin"}

\* No enqueue starts and none ends.
LEMMA EnqueuesGoOn ==
    ASSUME EnqueuesSucceed, cl' = cl,
           \A m \in net' \ net : m.type \notin {"enq", "enqrep"},
           \A u \in Thread : EnqueueGoes(u)
    PROVE  EnqueuesSucceed'
<1>1. \A l \in Lock : EnqReq(l) \in net' => EnqReq(l) \in net
  BY DEF EnqReq
<1>2. \A u \in Thread : \A l : Enqueues(u, l)' => Enqueues(u, l)
  BY Zenon DEF EnqueueGoes, Enqueues
<1>3. \A m \in net' : m.type = "enqrep" => m \in net
  OBVIOUS
<1>4. \A l \in Lock : Unanswered(l)' => Unanswered(l)
  BY <1>1, <1>2, <1>3, Zenon DEF Unanswered
<1>5. \A l \in Lock : Unanswered(l)' => cl'[l].st = "enq"
  BY <1>4, Zenon DEF EnqueuesSucceed
<1>6. \A t \in Thread : thr'[t].ctx = "enq" /\ thr'[t].rc = "error" =>
         ~thr'[t].rescan /\ thr'[t].pc \in {"hash", "policy", "bl", "blfin"}
  BY Zenon DEF EnqueueGoes
<1>7. \A m \in net' : m.type = "enqrep" =>
         /\ m.rc # "error"
         /\ \A t \in Thread : ~Enqueues(t, m.lock)'
         /\ \A n \in net' : n.type = "enqrep" /\ n.lock = m.lock => n = m
  BY <1>2, <1>3, Zenon DEF EnqueuesSucceed
<1> QED
  BY <1>5, <1>6, <1>7, Zenon DEF EnqueuesSucceed

\* One thread moves.
LEMMA MovesEnqueues ==
    ASSUME EnqueuesSucceed, cl' = cl,
           \A m \in net' \ net : m.type \notin {"enq", "enqrep"},
           NEW t \in Thread, NEW pc, NEW bl, NEW cp, NEW out, NEW rescan, NEW rc,
           Moves(t, pc, bl, cp, out, rescan, rc),
           thr[t].ctx = "enq" /\ rc = "error" => ~rescan /\ pc \in {"hash", "policy", "bl", "blfin"}
    PROVE  EnqueuesSucceed'
<1>1. \A u \in Thread : u # t => EnqueueGoes(u)
  BY Zenon DEF EnqueueGoes, EnqueuesSucceed, Moves
<1>2. EnqueueGoes(t)
  BY Zenon DEF EnqueueGoes, Moves
<1> QED
  BY <1>1, <1>2, EnqueuesGoOn, Zenon

\* An enqueue is taken up: it has not been answered before.
LEMMA HandleEnqueueEnqueues ==
    ASSUME Sound, EnqueuesSucceed, cl' = cl, NEW t \in Thread, NEW l \in Lock, HandleEnqueue(t, l)
    PROVE  EnqueuesSucceed'
<1>1. SInv /\ Owner[l] \notin failed
  BY SoundFacts, Zenon DEF Alive
<1>2. EnqReq(l) \in net /\ net' = net \ {EnqReq(l)}
  BY DEF HandleEnqueue
<1>3. /\ \A u \in Thread : u # t => thr'[u] = thr[u]
      /\ thr'[t].pc = "hash" /\ thr'[t].ctx = "enq" /\ thr'[t].lock = l /\ thr'[t].rescan = FALSE
  BY <1>1, HandleEnqueueMoves, Zenon
<1>4. Fresh(l) /\ Unanswered(l)
  BY <1>2, Zenon DEF Fresh, Unanswered
<1>5. \A m \in net : m.lock = l => m.type # "enqrep"
  BY <1>4, Zenon DEF Sound, ProtocolInv, EvictionInv, FreshUntouched
<1>6. \A u \in Thread : \A k : Enqueues(u, k)' => Enqueues(u, k) \/ k = l
  BY <1>3, Zenon DEF Enqueues
<1>7. \A k \in Lock : Unanswered(k)' => Unanswered(k)
  BY <1>2, <1>4, <1>6, Zenon DEF Unanswered
<1>8. \A k \in Lock : Unanswered(k)' => cl'[k].st = "enq"
  BY <1>7, Zenon DEF EnqueuesSucceed
<1>9. \A u \in Thread : thr'[u].ctx = "enq" /\ thr'[u].rc = "error" =>
         ~thr'[u].rescan /\ thr'[u].pc \in {"hash", "policy", "bl", "blfin"}
  BY <1>3, Zenon DEF EnqueuesSucceed
<1>10. \A m \in net' : m.type = "enqrep" =>
         /\ m.rc # "error"
         /\ \A u \in Thread : ~Enqueues(u, m.lock)'
         /\ \A n \in net' : n.type = "enqrep" /\ n.lock = m.lock => n = m
  <2>1. \A m \in net' : m \in net
    BY <1>2
  <2> QED
    BY <1>5, <1>6, <2>1, Zenon DEF EnqueuesSucceed
<1> QED
  BY <1>8, <1>9, <1>10, Zenon DEF EnqueuesSucceed

\* The reply of an enqueue is the only one, and no error.
LEMMA CpDoneEnqueues ==
    ASSUME Sound, EnqueuesSucceed, cl' = cl, NEW t \in Thread, CpDone(t)
    PROVE  EnqueuesSucceed'
<1>1. SInv /\ thr[t].pc = "cp" /\ thr[t].ctx # "conv" /\ thr[t].ctx \in {"none", "enq", "conv"}
  BY SoundFacts, ThreadTyped, Zenon DEF CpDone, AstWorkDone, NeverConverted, ThreadState
<1>2. ~(thr[t].ctx = "enq" /\ thr[t].rc = "error")
  BY <1>1, Zenon DEF EnqueuesSucceed
<1>3. CASE thr[t].restart
  <2>1. Moves(t, "reproc", thr[t].bl, thr[t].cp, thr[t].out, thr[t].rescan, thr[t].rc)
    BY <1>1, <1>3, GotoMoves, Zenon DEF CpDone
  <2>2. net' = net
    BY <1>3, Zenon DEF CpDone
  <2> QED
    BY <1>2, <2>1, <2>2, MovesEnqueues
<1>4. CASE ~thr[t].restart
  <2> PICK l : l = thr[t].lock
    OBVIOUS
  <2> PICK r : r = EnqRep(l, thr[t].rc, thr[t].ast)
    OBVIOUS
  <2>1. thr'[t] = Idle /\ \A u \in Thread : u # t => thr'[u] = thr[u]
    BY <1>1, <1>4, BecomeThread, Zenon DEF CpDone
  <2>2. thr'[t].ctx = "none"
    BY <2>1, IdleFields
  <2>3. r.type = "enqrep" /\ r.lock = l /\ r.rc = thr[t].rc
    BY Zenon DEF EnqRep
  <2>4. \/ net' = net
        \/ thr[t].ctx = "enq" /\ net' = net \cup {r}
    BY <1>1, <1>4, Zenon DEF CpDone, Reply
  <2>5. \A u \in Thread : \A k : Enqueues(u, k)' => u # t /\ Enqueues(u, k)
    BY <2>1, <2>2, Zenon DEF Enqueues
  <2>6. thr[t].ctx = "enq" => l \in Lock /\ Enqueues(t, l)
    BY <1>1, ThreadTyped, Zenon DEF ThreadLocks, Enqueues
  <2>7. \A k \in Lock : EnqReq(k) \in net' => EnqReq(k) \in net
    <3>1. \A k : EnqReq(k).type = "enq"
      BY Zenon DEF EnqReq
    <3> QED
      BY <2>3, <2>4, <3>1, Zenon
  <2>8. \A k \in Lock : Unanswered(k)' => Unanswered(k)
    <3>1. \A m \in net' : m \in net \/ (m = r /\ thr[t].ctx = "enq")
      BY <2>4, Zenon
    <3> QED
      BY <2>3, <2>5, <2>6, <2>7, <3>1, Zenon DEF Unanswered
  <2>9. \A k \in Lock : Unanswered(k)' => cl'[k].st = "enq"
    BY <2>8, Zenon DEF EnqueuesSucceed
  <2>10. \A u \in Thread : thr'[u].ctx = "enq" /\ thr'[u].rc = "error" =>
           ~thr'[u].rescan /\ thr'[u].pc \in {"hash", "policy", "bl", "blfin"}
    BY <2>1, <2>2, Zenon DEF EnqueuesSucceed
  <2>11. \A m \in net' : m.type = "enqrep" =>
           /\ m.rc # "error"
           /\ \A u \in Thread : ~Enqueues(u, m.lock)'
           /\ \A n \in net' : n.type = "enqrep" /\ n.lock = m.lock => n = m
    <3>1. \A m \in net : m.type = "enqrep" =>
           /\ m.rc # "error"
           /\ \A u \in Thread : ~Enqueues(u, m.lock)'
           /\ \A n \in net : n.type = "enqrep" /\ n.lock = m.lock => n = m
           /\ thr[t].ctx = "enq" => m.lock # l
      BY <2>5, <2>6, Zenon DEF EnqueuesSucceed
    <3>2. thr[t].ctx = "enq" => \A u \in Thread : ~Enqueues(u, l)'
      <4>1. \A u \in Thread : \A k \in Lock : Enqueues(t, k) /\ Enqueues(u, k) => t = u
        BY Zenon DEF Sound, ProtocolInv, EvictionInv, EnqueuedOnce
      <4> QED
        BY <2>5, <2>6, <4>1, Zenon
    <3>3. CASE net' = net
      BY <3>1, <3>3, Zenon
    <3>4. CASE thr[t].ctx = "enq" /\ net' = net \cup {r}
      <4>1. \A m \in net' : m \in net \/ m = r
        BY <3>4, Zenon
      <4>2. r.rc # "error" /\ \A u \in Thread : ~Enqueues(u, r.lock)'
        BY <1>2, <2>3, <3>2, <3>4, Zenon
      <4>3. \A m \in net : m.type = "enqrep" => m.lock # r.lock
        BY <2>3, <3>1, <3>4, Zenon
      <4> QED
        BY <3>1, <4>1, <4>2, <4>3, Zenon
    <3> QED
      BY <2>4, <3>3, <3>4, Zenon
  <2> QED
    BY <2>9, <2>10, <2>11, Zenon DEF EnqueuesSucceed
<1> QED
  BY <1>3, <1>4

-----------------------------------------------------------------------------
(* What the server does reaches the clients.                               *)

\* What joins a queue its client waits for; a cancel is not lost.
LEMMA CooperateKept ==
    ASSUME ClientsCooperate, cl' = cl, granted' \subseteq Lock,
           \A l \in waiting' \ waiting : Known(l) /\ ~cl[l].granted,
           \A l \in granted' \ granted : cl[l].st # "gone",
           \A l \in granted' : CancelReq(l) \in net => CancelReq(l) \in net'
    PROVE  ClientsCooperate'
<1> SUFFICES ASSUME NEW l \in Lock
             PROVE  /\ Known(l)' /\ (cl[l].st = "enq" \/ ~cl[l].granted) => cl[l].ref
                    /\ Known(l)' /\ cl[l].cbpending /\ ~cl[l].ref =>
                         cl[l].canceling \/ cl[l].work # {}
                    /\ l \in waiting' => Known(l)' /\ ~cl[l].granted
                    /\ l \in granted' /\ cl[l].st = "gone" => CancelReq(l) \in net'
  BY Zenon DEF ClientsCooperate
<1>1. Known(l)' <=> Known(l)
  BY DEF Known
<1>2. /\ Known(l) /\ (cl[l].st = "enq" \/ ~cl[l].granted) => cl[l].ref
      /\ Known(l) /\ cl[l].cbpending /\ ~cl[l].ref =>
           cl[l].canceling \/ cl[l].work # {}
      /\ l \in waiting => Known(l) /\ ~cl[l].granted
      /\ l \in granted /\ cl[l].st = "gone" => CancelReq(l) \in net
  BY Zenon DEF ClientsCooperate
<1>3. l \in waiting' => Known(l) /\ ~cl[l].granted
  BY <1>2, Zenon
<1>4. l \in granted' /\ cl[l].st = "gone" => CancelReq(l) \in net'
  BY <1>2, Zenon
<1> QED
  BY <1>1, <1>2, <1>3, <1>4, Zenon

\* Thread u has let the client of l believe that nobody waits for it.
Silent(u, l) == Enqueues(u, l) /\ ~Unfinished(u, l) /\ thr[u].rc = "granted" /\ ~thr[u].ast

\* Thread u still tells the client of l what it would.
Tells(u, l) ==
    /\ l \in thr[u].cp =>
         l \in thr'[u].cp \/ \E m \in net' : m.lock = l /\ m.type = "cp" /\ m.ast
    /\ Enqueues(u, l) /\ (Unfinished(u, l) \/ thr[u].ast) =>
         Enqueues(u, l)' /\ (Unfinished(u, l)' \/ thr'[u].ast)
    /\ Silent(u, l)' => Silent(u, l)

\* What is on its way arrives or stays on its way.
TellsOn(l) ==
    /\ l \in granted \cap astSent
    /\ CancelReq(l) \in net => CancelReq(l) \in net'
    /\ \A m \in net : m.lock = l /\ m.type \in {"bl", "cp", "enqrep"} => m \in net'
    /\ \A m \in net' \ net : m.lock = l =>
         /\ m.type = "cp" => m.ast
         /\ m.type = "enqrep" /\ m.rc = "granted" => m.ast \/ ToldSilently(l)
    /\ \A u \in Thread : Tells(u, l)
    /\ \A u \in Thread : l \in thr[u].bl => BlAstComing(l)'

LEMMA CallbackOn ==
    ASSUME CallbacksArrive, cl' = cl, NEW l \in Lock, TellsOn(l)
    PROVE  \/ cl'[l].cbpending \/ CancelReq(l) \in net'
           \/ BlAstComing(l)' \/ ReplyComing(l)' \/ CpAstComing(l)'
<1>1. \/ cl[l].cbpending \/ CancelReq(l) \in net
      \/ BlAstComing(l) \/ ReplyComing(l) \/ CpAstComing(l)
  BY Zenon DEF CallbacksArrive, TellsOn
<1>2. CASE cl[l].cbpending \/ CancelReq(l) \in net
  BY <1>2, Zenon DEF TellsOn
<1>3. CASE BlAstComing(l)
  <2>1. CASE \E u \in Thread : l \in thr[u].bl
    BY <2>1, Zenon DEF TellsOn
  <2>2. CASE \E m \in net : m.lock = l /\ m.type = "bl"
    BY <2>2, Zenon DEF TellsOn, BlAstComing
  <2>3. CASE \E w \in cl[l].work : w[2] = "queued"
    BY <2>3, Zenon DEF BlAstComing
  <2> QED
    BY <1>3, <2>1, <2>2, <2>3, Zenon DEF BlAstComing
<1>4. CASE ReplyComing(l)
  BY <1>4, Zenon DEF ReplyComing, TellsOn, Tells
<1>5. CASE CpAstComing(l)
  <2>1. ~ToldSilently(l)'
    <3>1. ~ToldSilently(l)
      BY <1>5, Zenon DEF CpAstComing
    <3>2. ~cl'[l].granted
      BY <3>1, Zenon DEF ToldSilently
    <3>3. \A u \in Thread : ~Silent(u, l)'
      BY <3>1, Zenon DEF ToldSilently, TellsOn, Tells, Silent
    <3>4. ~\E m \in net' : /\ m.lock = l
                          /\ \/ m.type = "cp" /\ ~m.ast
                             \/ m.type = "enqrep" /\ m.rc = "granted" /\ ~m.ast
      <4> SUFFICES ASSUME NEW m \in net', m.lock = l,
                          \/ m.type = "cp" /\ ~m.ast
                          \/ m.type = "enqrep" /\ m.rc = "granted" /\ ~m.ast
                   PROVE  FALSE
        BY Zenon
      <4>1. m \notin net
        BY <3>1, Zenon DEF ToldSilently
      <4>2. m \in net' \ net
        BY <4>1, Zenon
      <4> QED
        BY <3>1, <4>2, Zenon DEF TellsOn
    <3> QED
      BY <3>2, <3>3, <3>4, Zenon DEF ToldSilently, Silent
  <2>2. \/ \E t \in Thread : l \in thr'[t].cp
        \/ \E m \in net' : m.lock = l /\ m.type = "cp" /\ m.ast
    BY <1>5, Zenon DEF CpAstComing, TellsOn, Tells
  <2> QED
    BY <2>1, <2>2, Zenon DEF CpAstComing
<1> QED
  BY <1>1, <1>2, <1>3, <1>4, <1>5

\* Every lock that has been called back: its callback stays on its way, or
\* the step sets it off.
LEMMA CallbacksOn ==
    ASSUME CallbacksArrive, cl' = cl, granted' \subseteq Lock,
           \A l \in granted' \cap astSent' :
             TellsOn(l) \/ BlAstComing(l)' \/ ReplyComing(l)' \/ CpAstComing(l)'
    PROVE  CallbacksArrive'
<1>1. \A l \in granted' \cap astSent' : l \in Lock
  OBVIOUS
<1> QED
  BY <1>1, CallbackOn, Zenon DEF CallbacksArrive

\* A thread that stands still tells what it did.
LEMMA StillTells ==
    ASSUME NEW u \in Thread, thr'[u] = thr[u], NEW l
    PROVE  Tells(u, l) /\ (l \in thr[u].bl => BlAstComing(l)')
BY Zenon DEF Tells, Silent, Unfinished, Enqueues, BlAstComing

\* A thread that moves on within its enqueue, or after it.
LEMMA MovesTell ==
    ASSUME NEW t \in Thread, NEW pc, NEW bl, NEW cp, NEW out, NEW rescan, NEW rc,
           Moves(t, pc, bl, cp, out, rescan, rc), Rest(t, thr'[t].restart, thr[t].ast),
           NEW l, l \in thr[t].cp =>
                    l \in cp \/ \E m \in net' : m.lock = l /\ m.type = "cp" /\ m.ast,
           Unfinished(t, l) => Unfinished(t, l)',
           \/ rc = thr[t].rc /\ (Unfinished(t, l)' => Unfinished(t, l))
           \/ Unfinished(t, thr[t].lock)'
    PROVE  Tells(t, l)
<1>1. /\ thr'[t].ctx = thr[t].ctx /\ thr'[t].lock = thr[t].lock /\ thr'[t].cp = cp
      /\ thr'[t].rc = rc /\ thr'[t].ast = thr[t].ast
  BY Zenon DEF Moves, Rest
<1>2. Enqueues(t, l)' <=> Enqueues(t, l)
  BY <1>1, Zenon DEF Enqueues
<1>3. Silent(t, l)' => Silent(t, l)
  <2>1. CASE rc = thr[t].rc /\ (Unfinished(t, l)' => Unfinished(t, l))
    BY <1>1, <1>2, <2>1, Zenon DEF Silent
  <2>2. CASE Unfinished(t, thr[t].lock)'
    BY <2>2, Zenon DEF Silent, Unfinished, Enqueues
  <2> QED
    BY <2>1, <2>2, Zenon
<1> QED
  BY <1>1, <1>2, <1>3, ZenonT(40) DEF Tells

\* The steps that keep all lists and messages.
LEMMA QuietCallbacks ==
    ASSUME CallbacksArrive, cl' = cl, granted' \subseteq Lock,
           granted' \subseteq granted, astSent' = astSent,
           \A l \in granted' : CancelReq(l) \in net => CancelReq(l) \in net',
           \A m \in net : m.type \in {"bl", "cp", "enqrep"} => m \in net',
           \A m \in net' \ net : m.type \notin {"cp", "enqrep"},
           NEW t \in Thread, \A u \in Thread : u # t => thr'[u] = thr[u],
           thr[t].bl \subseteq thr'[t].bl, \A l \in Lock : Tells(t, l)
    PROVE  CallbacksArrive'
<1> SUFFICES ASSUME NEW l \in granted' \cap astSent'
             PROVE  TellsOn(l)
  BY CallbacksOn, Zenon
<1>1. l \in Lock /\ l \in granted \cap astSent
  OBVIOUS
<1>2. \A u \in Thread : Tells(u, l) /\ (l \in thr[u].bl => BlAstComing(l)')
  <2>1. l \in thr[t].bl => BlAstComing(l)'
    BY Zenon DEF BlAstComing
  <2>2. Tells(t, l)
    BY <1>1, Zenon
  <2> QED
    BY <2>1, <2>2, StillTells, Zenon
<1> QED
  BY <1>1, <1>2, Zenon DEF TellsOn

-----------------------------------------------------------------------------
(* The steps of the server, one by one.                                    *)

Comm == EnqueuesSucceed /\ ClientsCooperate /\ CallbacksArrive

Early == {"hash", "policy", "bl", "blfin", "finish"}

\* One thread moves; nothing is granted, queued, called back or answered.
LEMMA QuietComm ==
    ASSUME Sound, Comm, cl' = cl, failed' = failed,
           tmr' = tmr \/ \E l \in Lock : AddWaiting(l) \/ CancelLock(l),
           granted' \subseteq granted, waiting' \subseteq waiting, astSent' = astSent,
           \A l \in granted' : CancelReq(l) \in net => CancelReq(l) \in net',
           \A m \in net : m.type \in {"bl", "cp", "enqrep"} => m \in net',
           \A m \in net' \ net : m.type \notin {"enq", "enqrep", "cp"},
           NEW t \in Thread, NEW pc, NEW bl, NEW out, NEW rc,
           Moves(t, pc, bl, thr[t].cp, out, thr[t].rescan, rc),
           Rest(t, thr'[t].restart, thr[t].ast),
           thr[t].bl \subseteq bl,
           (pc \in Early <=> thr[t].pc \in Early) \/ thr[t].rescan,
           rc = thr[t].rc \/ (rc # "error" /\ Unfinished(t, thr[t].lock)),
           thr[t].ctx = "enq" /\ rc = "error" => thr[t].rescan \/ pc \in {"hash", "policy", "bl", "blfin"}
    PROVE  Comm' /\ NoneEvicted'
<1>1. EnqueuesSucceed /\ ClientsCooperate /\ CallbacksArrive
  BY DEF Comm
<1>2. granted' \subseteq Lock
  BY SoundFacts, Zenon DEF SInv, ServerTypeOK
<1>3. NoneEvicted'
  BY EvictedKept, Zenon
<1>4. thr[t].ctx = "enq" /\ rc = "error" => ~thr[t].rescan
  BY <1>1, Zenon DEF EnqueuesSucceed
<1>5. EnqueuesSucceed'
  <2>1. \A m \in net' \ net : m.type \notin {"enq", "enqrep"}
    BY Zenon
  <2> QED
    BY <1>1, <1>4, <2>1, MovesEnqueues, Zenon
<1>6. ClientsCooperate'
  BY <1>1, <1>2, CooperateKept, Zenon
<1>7. CallbacksArrive'
  <2>1. \A l : Unfinished(t, l)' <=> Unfinished(t, l)
    BY Zenon DEF Unfinished, Enqueues, Moves, Early
  <2>2. \A l : Tells(t, l)
    <3>1. Unfinished(t, thr[t].lock)' \/ ~Unfinished(t, thr[t].lock)
      BY Zenon DEF Unfinished, Enqueues, Moves, Early
    <3> QED
      BY <2>1, <3>1, MovesTell, Zenon
  <2>3. \A m \in net' \ net : m.type \notin {"enqrep", "cp"}
    BY Zenon
  <2>4. /\ \A u \in Thread : u # t => thr'[u] = thr[u]
        /\ thr[t].bl \subseteq thr'[t].bl
    BY Zenon DEF Moves
  <2> QED
    BY <1>1, <1>2, <2>2, <2>3, <2>4, QuietCallbacks, Zenon
<1> QED
  BY <1>3, <1>5, <1>6, <1>7, Zenon DEF Comm

-----------------------------------------------------------------------------
(* The steps of the clients.                                               *)

Cooperates(l) ==
    /\ Known(l) /\ (cl[l].st = "enq" \/ ~cl[l].granted) => cl[l].ref
    /\ Known(l) /\ cl[l].cbpending /\ ~cl[l].ref => cl[l].canceling \/ cl[l].work # {}
    /\ l \in waiting => Known(l) /\ ~cl[l].granted
    /\ l \in granted /\ cl[l].st = "gone" => CancelReq(l) \in net

Arrives(l) ==
    l \in granted \cap astSent =>
        \/ cl[l].cbpending \/ CancelReq(l) \in net
        \/ BlAstComing(l) \/ ReplyComing(l) \/ CpAstComing(l)

\* A step of the client of l changes no other lock, and no message about one.
Touches(l) ==
    /\ \A k \in Lock : k # l => cl'[k] = cl[k]
    /\ \A m \in net' \cup net : m.lock # l => m \in net' /\ m \in net
    /\ \A m \in net' \ net : m.type # "enqrep"

\* The other locks do not notice.
LEMMA OthersArrive ==
    ASSUME UNCHANGED svars, NEW l, Touches(l), NEW k \in Lock, k # l, Arrives(k)
    PROVE  Arrives(k)'
<1>1. /\ granted' = granted /\ astSent' = astSent /\ thr' = thr
  BY DEF svars, queues, astState
<1>2. cl'[k] = cl[k]
  BY Zenon DEF Touches
<1>3. \A m \in net' \cup net : m.lock = k => m \in net' /\ m \in net
  BY Zenon DEF Touches
<1>4. CancelReq(k) \in net => CancelReq(k) \in net'
  <2>1. CancelReq(k).lock = k
    BY DEF CancelReq
  <2> QED
    BY <1>3, <2>1
<1>5. \A m : m.lock = k => (m \in net' <=> m \in net)
  BY <1>3
<1>6. \A u \in Thread : Unfinished(u, k)' <=> Unfinished(u, k)
  BY <1>1, Zenon DEF Unfinished, Enqueues
<1>7. \A u \in Thread : Enqueues(u, k)' <=> Enqueues(u, k)
  BY <1>1, Zenon DEF Enqueues
<1>8. BlAstComing(k) => BlAstComing(k)'
  BY <1>1, <1>2, <1>5, Zenon DEF BlAstComing
<1>9. ReplyComing(k) => ReplyComing(k)'
  BY <1>1, <1>5, <1>6, <1>7, Zenon DEF ReplyComing
<1>10. ToldSilently(k)' => ToldSilently(k)
  BY <1>1, <1>2, <1>5, <1>6, <1>7, Zenon DEF ToldSilently
<1>11. CpAstComing(k) => CpAstComing(k)'
  BY <1>1, <1>5, <1>10, Zenon DEF CpAstComing
<1> QED
  BY <1>1, <1>2, <1>4, <1>8, <1>9, <1>11, Zenon DEF Arrives

LEMMA OthersCooperate ==
    ASSUME UNCHANGED svars, NEW l, Touches(l), NEW k \in Lock, k # l, Cooperates(k)
    PROVE  Cooperates(k)'
<1>1. /\ granted' = granted /\ waiting' = waiting
  BY Zenon DEF svars, queues
<1>2. cl'[k] = cl[k]
  BY Zenon DEF Touches
<1>3. CancelReq(k) \in net => CancelReq(k) \in net'
  <2>1. CancelReq(k).lock = k
    BY DEF CancelReq
  <2>2. CancelReq(k) \in net => CancelReq(k) \in net' \cup net
    BY Zenon
  <2> QED
    BY <2>1, <2>2, Zenon DEF Touches
<1> QED
  BY <1>1, <1>2, <1>3, Zenon DEF Cooperates, Known

\* It is enough to look at the lock of the step.
LEMMA ClientComm ==
    ASSUME Sound, Comm, UNCHANGED svars, NEW l \in Lock, Touches(l),
           Unanswered(l)' => cl'[l].st = "enq", ~cl'[l].failed, ~cl'[l].local,
           Cooperates(l)', Arrives(l)'
    PROVE  Comm' /\ NoneEvicted'
<1>1. EnqueuesSucceed /\ (\A k \in Lock : Cooperates(k)) /\ \A k \in granted \cap astSent : Arrives(k)
  BY Zenon DEF Comm, ClientsCooperate, Cooperates, CallbacksArrive, Arrives
<1>2. /\ granted' = granted /\ astSent' = astSent /\ thr' = thr /\ tmr' = tmr /\ failed' = failed
  BY Zenon DEF svars, queues, astState, exports
<1>3. ClientsCooperate'
  <2>1. \A k \in Lock : Cooperates(k)'
    BY <1>1, OthersCooperate, Zenon
  <2> QED
    BY <2>1, Zenon DEF ClientsCooperate, Cooperates
<1>4. CallbacksArrive'
  <2>1. \A k \in granted \cap astSent : k \in Lock
    BY SoundFacts, Zenon DEF SInv, ServerTypeOK
  <2>2. \A k \in granted \cap astSent : Arrives(k)'
    BY <1>1, <2>1, OthersArrive, Zenon
  <2> QED
    BY <1>2, <2>2, Zenon DEF CallbacksArrive, Arrives
<1>5. NoneEvicted'
  <2>1. \A k \in Lock : k # l => cl'[k] = cl[k]
    BY Zenon DEF Touches
  <2> QED
    BY <1>2, <2>1, Zenon DEF Sound, NoneEvicted
<1>6. EnqueuesSucceed'
  <2>1. \A m \in net' : m.type = "enqrep" => m \in net
    BY Zenon DEF Touches
  <2>2. \A u \in Thread : \A k : Enqueues(u, k)' <=> Enqueues(u, k)
    BY <1>2, Zenon DEF Enqueues
  <2>3. \A k \in Lock : k # l /\ Unanswered(k)' => Unanswered(k)
    <3>1. \A k \in Lock : k # l /\ EnqReq(k) \in net' => EnqReq(k) \in net
      <4>1. \A k : EnqReq(k).lock = k
        BY Zenon DEF EnqReq
      <4> QED
        BY <4>1, Zenon DEF Touches
    <3> QED
      BY <2>1, <2>2, <3>1, Zenon DEF Unanswered
  <2>4. \A k \in Lock : Unanswered(k)' => cl'[k].st = "enq"
    BY <1>1, <2>3, Zenon DEF EnqueuesSucceed, Touches
  <2>5. \A t \in Thread : thr'[t].ctx = "enq" /\ thr'[t].rc = "error" =>
         ~thr'[t].rescan /\ thr'[t].pc \in {"hash", "policy", "bl", "blfin"}
    BY <1>1, <1>2, Zenon DEF EnqueuesSucceed
  <2>6. \A m \in net' : m.type = "enqrep" =>
         /\ m.rc # "error"
         /\ \A t \in Thread : ~Enqueues(t, m.lock)'
         /\ \A n \in net' : n.type = "enqrep" /\ n.lock = m.lock => n = m
    BY <1>1, <2>1, <2>2, Zenon DEF EnqueuesSucceed
  <2> QED
    BY <2>4, <2>5, <2>6, Zenon DEF EnqueuesSucceed
<1> QED
  BY <1>3, <1>4, <1>5, <1>6, Zenon DEF Comm

LEMMA SoundLock ==
    ASSUME Sound, NEW l \in Lock
    PROVE  /\ cl[l] \in ClientLock /\ ~cl[l].failed /\ ~cl[l].local
           /\ cl[l].granted \in BOOLEAN /\ cl[l].ref \in BOOLEAN
           /\ cl[l].cbpending \in BOOLEAN /\ cl[l].canceling \in BOOLEAN
BY SoundFacts, Zenon DEF Sound, NoneEvicted, CInv, ClientTypeOK, ClientLock

\* A step on a lock the client has, by which it forgets nothing and sends
\* nothing.
LEMMA QuietClient ==
    ASSUME Sound, Comm, UNCHANGED svars, NEW l \in Lock, NEW d,
           net' = net, cl' = [cl EXCEPT ![l] = d], Known(l),
           d.st = cl[l].st, d.granted = cl[l].granted,
           d.failed = cl[l].failed, d.local = cl[l].local,
           cl[l].cbpending => d.cbpending,
           d.st = "enq" \/ ~d.granted => d.ref,
           d.cbpending /\ ~d.ref => d.canceling \/ d.work # {},
           \A w \in cl[l].work : w[2] = "queued" => d.cbpending \/ w \in d.work
    PROVE  Comm' /\ NoneEvicted'
<1>1. cl'[l] = d /\ \A k \in Lock : k # l => cl'[k] = cl[k]
  BY SoundFacts, ClientChanged, Zenon
<1>2. Touches(l)
  BY <1>1, Zenon DEF Touches
<1>3. /\ granted' = granted /\ waiting' = waiting /\ astSent' = astSent /\ thr' = thr
  BY Zenon DEF svars, queues, astState
<1>4. Unanswered(l)' => cl'[l].st = "enq"
  <2>1. Unanswered(l)' => Unanswered(l)
    BY <1>3, Zenon DEF Unanswered, Enqueues
  <2> QED
    BY <1>1, <2>1, Zenon DEF Comm, EnqueuesSucceed
<1>5. ~cl'[l].failed /\ ~cl'[l].local
  BY <1>1, SoundLock, Zenon
<1>6. Cooperates(l)'
  <2>1. l \in waiting => ~cl[l].granted
    BY Zenon DEF Comm, ClientsCooperate
  <2>2. Known(l)' /\ cl'[l].st # "gone"
    <3>1. cl[l].st # "gone"
      BY Zenon DEF Known
    <3> QED
      BY <1>1, <3>1, Zenon DEF Known
  <2> QED
    BY <1>1, <1>3, <2>1, <2>2, Zenon DEF Cooperates
<1>7. Arrives(l)'
  <2>1. ToldSilently(l)' => ToldSilently(l)
    BY <1>1, <1>3, Zenon DEF ToldSilently, Enqueues, Unfinished
  <2>2. CpAstComing(l) => CpAstComing(l)'
    BY <1>3, <2>1, Zenon DEF CpAstComing
  <2>3. ReplyComing(l) => ReplyComing(l)'
    BY <1>3, Zenon DEF ReplyComing, Enqueues, Unfinished
  <2>4. BlAstComing(l) => BlAstComing(l)' \/ cl'[l].cbpending
    BY <1>1, <1>3, Zenon DEF BlAstComing
  <2>5. l \in granted \cap astSent =>
          \/ cl[l].cbpending \/ CancelReq(l) \in net
          \/ BlAstComing(l) \/ ReplyComing(l) \/ CpAstComing(l)
    BY Zenon DEF Comm, CallbacksArrive
  <2>6. cl[l].cbpending => cl'[l].cbpending
    BY <1>1, Zenon
  <2> QED
    BY <1>3, <2>2, <2>3, <2>4, <2>5, <2>6, Zenon DEF Arrives
<1> QED
  BY <1>2, <1>4, <1>5, <1>6, <1>7, ClientComm, Zenon

LEMMA WaitsInUse ==
    ASSUME Comm, NEW l \in Lock, Known(l), cl[l].st = "enq" \/ ~cl[l].granted
    PROVE  cl[l].ref
BY Zenon DEF Comm, ClientsCooperate

\* A client that answers an AST: nothing else that is under way is lost.
Answers(l, r, q) ==
    /\ r \in net /\ net' = (net \ {r}) \cup {q}
    /\ r.lock = l /\ q.lock = l /\ r.type \in {"bl", "cp"} /\ q.type = "astrep"

LEMMA AnswersOne ==
    ASSUME UNCHANGED svars, NEW l \in Lock, NEW r, NEW q, Answers(l, r, q),
           \A k \in Lock : k # l => cl'[k] = cl[k]
    PROVE  /\ Touches(l) /\ (Unanswered(l)' => Unanswered(l))
           /\ CancelReq(l) \in net => CancelReq(l) \in net'
           /\ ReplyComing(l) => ReplyComing(l)'
           /\ \A m \in net : m.type # r.type => m \in net'
           /\ \A m \in net' : m.type # "astrep" => m \in net
<1>1. thr' = thr
  BY Zenon DEF svars
<1>2. \A m \in net : m.lock # l \/ m.type # r.type => m \in net'
  BY Zenon DEF Answers
<1>3. \A m \in net' : m.lock # l \/ m.type # "astrep" => m \in net
  BY DEF Answers
<1>4. r.type # "enqrep" /\ r.type # "cancel" /\ r.type # "enq"
  BY Zenon DEF Answers
<1>5. Touches(l)
  BY <1>2, <1>3, Zenon DEF Touches
<1>6. Unanswered(l)' => Unanswered(l)
  <2>1. EnqReq(l).type # "astrep"
    BY Zenon DEF EnqReq
  <2>2. \A m \in net' : m.type = "enqrep" => m \in net
    BY <1>3, Zenon
  <2> QED
    BY <1>1, <1>3, <2>1, <2>2, Zenon DEF Unanswered, Enqueues
<1>7. CancelReq(l) \in net => CancelReq(l) \in net'
  <2>1. CancelReq(l).type # r.type
    BY <1>4, Zenon DEF CancelReq
  <2> QED
    BY <1>2, <2>1, Zenon
<1>8. ReplyComing(l) => ReplyComing(l)'
  BY <1>1, <1>2, <1>4, Zenon DEF ReplyComing, Enqueues, Unfinished
<1> QED
  BY <1>2, <1>3, <1>5, <1>6, <1>7, <1>8, Zenon

\* A client without the lock has cancelled it, and its CANCEL RPC is under way.
LEMMA GoneStays ==
    ASSUME Sound, Comm, UNCHANGED svars, NEW l \in Lock, ~Known(l), cl' = cl,
           CancelReq(l) \in net => CancelReq(l) \in net'
    PROVE  Cooperates(l)' /\ Arrives(l)'
<1>1. /\ granted' = granted /\ waiting' = waiting /\ astSent' = astSent
  BY Zenon DEF svars, queues, astState
<1>2. l \notin waiting /\ (l \in granted /\ cl[l].st = "gone" => CancelReq(l) \in net)
  BY Zenon DEF Comm, ClientsCooperate
<1>3. l \in granted => cl[l].st = "gone"
  <2>1. cl[l].st \in {"none", "enq", "held", "gone"}
    BY SoundLock, Zenon DEF ClientLock
  <2>2. cl[l].st = "none" => l \notin granted
    BY SoundFacts, Zenon DEF Fresh
  <2> QED
    BY <2>1, <2>2, Zenon DEF Known
<1>4. ~Known(l)'
  BY Zenon DEF Known
<1>5. Cooperates(l)'
  BY <1>1, <1>2, <1>4, Zenon DEF Cooperates
<1>6. Arrives(l)'
  BY <1>1, <1>2, <1>3, Zenon DEF Arrives
<1> QED
  BY <1>5, <1>6, Zenon

LEMMA ClientStepComm ==
    ASSUME Sound, Comm, QueuePlaces, UNCHANGED svars, NEW l \in Lock, ClientStep(l)
    PROVE  Comm' /\ NoneEvicted'
<1>1. ASSUME LockMatch(l)
      PROVE  Comm' /\ NoneEvicted'
  <2> USE <1>1
  <2>1. cl[l].st = "held" /\ net' = net /\ cl' = [cl EXCEPT ![l].ref = TRUE]
    BY Zenon DEF LockMatch
  <2> DEFINE d == [cl[l] EXCEPT !.ref = TRUE]
  <2>2. cl' = [cl EXCEPT ![l] = d]
    BY <2>1, Zenon
  <2>3. /\ d.st = cl[l].st /\ d.granted = cl[l].granted /\ d.failed = cl[l].failed
        /\ d.local = cl[l].local /\ d.cbpending = cl[l].cbpending /\ d.ref /\ d.work = cl[l].work
    BY SoundLock, Zenon DEF ClientLock
  <2> HIDE DEF d
  <2>4. Known(l)
    BY <2>1, Zenon DEF Known
  <2> QED
    BY <2>1, <2>2, <2>3, <2>4, QuietClient, Zenon
<1>2. ASSUME LockDecref(l)
      PROVE  Comm' /\ NoneEvicted'
  <2> USE <1>2
  <2>1. /\ cl[l].st = "held" /\ net' = net /\ cl[l].granted
        /\ cl' = [cl EXCEPT ![l] = DropLastRef(cl[l])]
    BY SoundLock, Zenon DEF LockDecref
  <2> DEFINE d == DropLastRef(cl[l])
  <2>2. /\ d.st = cl[l].st /\ d.granted = cl[l].granted /\ d.failed = cl[l].failed
        /\ d.local = cl[l].local /\ d.cbpending = cl[l].cbpending
        /\ d.work = IF cl[l].cbpending THEN cl[l].work \cup {<<{}, "queued">>} ELSE cl[l].work
    BY SoundLock, Zenon DEF ClientLock, DropLastRef
  <2>3. cl' = [cl EXCEPT ![l] = d]
    BY <2>1, Zenon
  <2> HIDE DEF d
  <2>4. Known(l) /\ d.st # "enq" /\ d.granted
    BY <2>1, <2>2, Zenon DEF Known
  <2>5. cl[l].work \subseteq d.work /\ (d.cbpending => d.work # {})
    BY <2>2, Zenon
  <2> QED
    BY <2>1, <2>2, <2>3, <2>4, <2>5, QuietClient, Zenon
<1>3. ASSUME CancelLru(l)
      PROVE  Comm' /\ NoneEvicted'
  <2> USE <1>3
  <2>1. /\ cl[l].st = "held" /\ net' = net /\ cl[l].granted /\ ~cl[l].canceling
        /\ cl' = [cl EXCEPT ![l] = StartCancel(cl[l], FALSE)]
    BY Zenon DEF CancelLru
  <2> DEFINE d == StartCancel(cl[l], FALSE)
  <2>2. /\ d.st = cl[l].st /\ d.granted = cl[l].granted /\ d.failed = cl[l].failed
        /\ d.local = (cl[l].local \/ FALSE) /\ d.cbpending /\ d.canceling
    BY <2>1, SoundLock, Zenon DEF ClientLock, StartCancel
  <2>3. cl' = [cl EXCEPT ![l] = d]
    BY <2>1, Zenon
  <2>4. cl[l].local \in BOOLEAN
    BY SoundLock, Zenon DEF ClientLock
  <2> HIDE DEF d
  <2>5. Known(l) /\ d.st # "enq" /\ d.granted /\ d.local = cl[l].local
    BY <2>1, <2>2, <2>4, Zenon DEF Known
  <2> QED
    BY <2>1, <2>2, <2>3, <2>5, QuietClient, Zenon
<1>4. ASSUME NEW b, HandleBlCallback(l, b)
      PROVE  Comm' /\ NoneEvicted'
  <2> USE <1>4
  <2> DEFINE d == [cl[l] EXCEPT
                     !.cancelBits = IF b # {} THEN b
                                    ELSE IF cl[l].cbpending THEN @ ELSE {},
                     !.cbpending = TRUE,
                     !.work = (@ \ {<<b, "queued">>})
                                \cup (IF cl[l].ref THEN {} ELSE {<<b, "ast">>})]
  <2>1. Known(l) /\ net' = net /\ cl' = [cl EXCEPT ![l] = d]
    BY Zenon DEF HandleBlCallback
  <2>2. /\ d.st = cl[l].st /\ d.granted = cl[l].granted /\ d.failed = cl[l].failed
        /\ d.local = cl[l].local /\ d.cbpending /\ d.ref = cl[l].ref
        /\ d.work = (cl[l].work \ {<<b, "queued">>})
                      \cup (IF cl[l].ref THEN {} ELSE {<<b, "ast">>})
    BY SoundLock, Zenon DEF ClientLock
  <2> HIDE DEF d
  <2>3. ~d.ref => d.work # {}
    BY <2>2, Zenon
  <2>4. d.st = "enq" \/ ~d.granted => d.ref
    BY <2>1, <2>2, WaitsInUse, Zenon
  <2> QED
    BY <2>1, <2>2, <2>3, <2>4, QuietClient, Zenon
<1>5. ASSUME NEW b, MdBlockingAst(l, b)
      PROVE  Comm' /\ NoneEvicted'
  <2> USE <1>5
  <2>1. PICK how : cl' = [cl EXCEPT ![l].work = (@ \ {<<b, "ast">>}) \cup {<<b, how>>}]
    BY Zenon DEF MdBlockingAst
  <2>2. Known(l) /\ net' = net
    BY DEF MdBlockingAst
  <2> DEFINE d == [cl[l] EXCEPT !.work = (@ \ {<<b, "ast">>}) \cup {<<b, how>>}]
  <2>3. cl' = [cl EXCEPT ![l] = d]
    BY <2>1
  <2>4. /\ d.st = cl[l].st /\ d.granted = cl[l].granted /\ d.failed = cl[l].failed
        /\ d.local = cl[l].local /\ d.cbpending = cl[l].cbpending /\ d.ref = cl[l].ref
        /\ d.work = (cl[l].work \ {<<b, "ast">>}) \cup {<<b, how>>}
    BY SoundLock, Zenon DEF ClientLock
  <2> HIDE DEF d
  <2>5. d.work # {} /\ \A w \in cl[l].work : w[2] = "queued" => w \in d.work
    <3>1. <<b, "ast">>[2] # "queued"
      BY Zenon
    <3>2. \A w \in cl[l].work : w # <<b, "ast">> => w \in d.work
      BY <2>4, Zenon
    <3>3. <<b, how>> \in d.work
      BY <2>4, Zenon
    <3> QED
      BY <3>1, <3>2, <3>3, Zenon
  <2>6. d.st = "enq" \/ ~d.granted => d.ref
    BY <2>2, <2>4, WaitsInUse, Zenon
  <2> QED
    BY <2>2, <2>3, <2>4, <2>5, <2>6, QuietClient, Zenon
<1>6. ASSUME NEW b, CliCancel(l, b)
      PROVE  Comm' /\ NoneEvicted'
  <2> USE <1>6
  <2> DEFINE e == [cl[l] EXCEPT !.work = @ \ {<<b, "cancel">>}]
             d == StartCancel(e, FALSE)
  <2>1. Known(l) /\ <<b, "cancel">> \in cl[l].work /\ net' = net /\ cl' = [cl EXCEPT ![l] = d]
    BY Zenon DEF CliCancel
  <2>2. e \in ClientLock
    <3>1. cl[l] \in ClientLock /\ cl[l].work \ {<<b, "cancel">>} \subseteq cl[l].work
      BY SoundLock, Zenon
    <3> QED
      BY <3>1, Zenon DEF ClientLock
  <2>3. /\ e.st = cl[l].st /\ e.granted = cl[l].granted /\ e.failed = cl[l].failed
        /\ e.local = cl[l].local /\ e.cbpending = cl[l].cbpending /\ e.ref = cl[l].ref
        /\ e.canceling = cl[l].canceling
    BY SoundLock, Zenon DEF ClientLock
  <2>4. ~cl[l].ref /\ cl[l].cbpending
    <3>1. <<b, "cancel">>[2] \in {"ast", "cancel"}
      OBVIOUS
    <3> QED
      BY <2>1, <3>1, SoundFacts, Zenon DEF CancelUnused
  <2> HIDE DEF e
  <2>5. /\ d.st = e.st /\ d.granted = e.granted /\ d.failed = e.failed /\ d.ref = e.ref
        /\ d.local = e.local \/ d.local = (e.local \/ FALSE)
        /\ d.canceling
        /\ d.cbpending = e.cbpending \/ d.cbpending
    BY <2>2, Zenon DEF ClientLock, StartCancel
  <2>6. d.local = e.local
    <3>1. e.local \in BOOLEAN
      BY <2>2, Zenon DEF ClientLock
    <3> QED
      BY <2>5, <3>1, Zenon
  <2> HIDE DEF d
  <2>7. d.cbpending
    BY <2>3, <2>4, <2>5, Zenon
  <2>8. d.st = "enq" \/ ~d.granted => d.ref
    BY <2>1, <2>3, <2>5, WaitsInUse, Zenon
  <2>9. d.st = cl[l].st /\ d.granted = cl[l].granted /\ d.failed = cl[l].failed /\ d.local = cl[l].local
    BY <2>3, <2>5, <2>6, Zenon
  <2> QED
    BY <2>1, <2>5, <2>7, <2>8, <2>9, QuietClient, Zenon
<1>7. ASSUME CliEnqueue(l)
      PROVE  Comm' /\ NoneEvicted'
  <2> USE <1>7
  <2> DEFINE d == [NewLock EXCEPT !.st = "enq", !.ref = TRUE, !.bits = ReqBits[l]]
  <2>1. cl[l].st = "none" /\ cl' = [cl EXCEPT ![l] = d] /\ net' = net \cup {EnqReq(l)}
    BY Zenon DEF CliEnqueue
  <2>2. d.st = "enq" /\ d.ref /\ ~d.granted /\ ~d.failed /\ ~d.local /\ ~d.cbpending
    BY DEF NewLock
  <2> HIDE DEF d
  <2>3. cl'[l] = d /\ \A k \in Lock : k # l => cl'[k] = cl[k]
    BY <2>1, SoundFacts, ClientChanged, Zenon
  <2>4. /\ granted' = granted /\ waiting' = waiting
    BY Zenon DEF svars, queues
  <2>5. l \notin granted \cup waiting
    BY <2>1, SoundFacts, Zenon DEF Fresh
  <2>6. Touches(l)
    <3>1. EnqReq(l).lock = l /\ EnqReq(l).type = "enq"
      BY DEF EnqReq
    <3>2. net' \ net \subseteq {EnqReq(l)} /\ net \subseteq net'
      BY <2>1
    <3> QED
      BY <2>3, <3>1, <3>2, Zenon DEF Touches
  <2>7. Cooperates(l)'
    BY <2>2, <2>3, <2>4, <2>5, Zenon DEF Cooperates
  <2>8. Arrives(l)'
    BY <2>4, <2>5, Zenon DEF Arrives
  <2> QED
    BY <2>2, <2>3, <2>6, <2>7, <2>8, ClientComm, Zenon
<1>8. ASSUME CliCancelLocal(l)
      PROVE  Comm' /\ NoneEvicted'
  <2> USE <1>8
  <2> DEFINE d == [NewLock EXCEPT !.st = "gone"]
  <2>1. /\ Known(l) /\ cl[l].canceling /\ cl' = [cl EXCEPT ![l] = d]
        /\ net' = net \cup {CancelReq(l)}
    BY SoundLock, Zenon DEF CliCancelLocal
  <2>2. d.st = "gone" /\ ~d.failed /\ ~d.local
    BY Zenon DEF NewLock
  <2> HIDE DEF d
  <2>3. cl'[l] = d /\ \A k \in Lock : k # l => cl'[k] = cl[k]
    BY <2>1, SoundFacts, ClientChanged, Zenon
  <2>4. /\ granted' = granted /\ waiting' = waiting /\ thr' = thr
    BY Zenon DEF svars, queues
  <2>5. ~cl[l].ref
    BY <2>1, SoundFacts, Zenon DEF CancelUnused
  <2>6. cl[l].st # "enq" /\ cl[l].granted
    BY <2>1, <2>5, WaitsInUse, Zenon
  <2>7. l \notin waiting
    BY <2>6, Zenon DEF Comm, ClientsCooperate
  <2>8. CancelReq(l).lock = l /\ CancelReq(l).type = "cancel" /\ CancelReq(l) # EnqReq(l)
    BY Zenon DEF CancelReq, EnqReq
  <2>9. net' \ net \subseteq {CancelReq(l)} /\ net \subseteq net' /\ CancelReq(l) \in net'
    BY <2>1, Zenon
  <2>10. Touches(l)
    BY <2>3, <2>8, <2>9, Zenon DEF Touches
  <2>11. ~Unanswered(l)'
    <3>1. ~Unanswered(l)
      BY <2>6, Zenon DEF Comm, EnqueuesSucceed
    <3>2. \A m \in net' : m.type = "enqrep" \/ m = EnqReq(l) => m \in net
      BY <2>8, <2>9, Zenon
    <3> QED
      BY <2>4, <3>1, <3>2, Zenon DEF Unanswered, Enqueues
  <2>12. Cooperates(l)'
    <3>1. ~Known(l)'
      BY <2>2, <2>3, Zenon DEF Known
    <3> QED
      BY <2>4, <2>7, <2>9, <3>1, Zenon DEF Cooperates
  <2>13. Arrives(l)'
    BY <2>9, Zenon DEF Arrives
  <2> QED
    BY <2>2, <2>3, <2>10, <2>11, <2>12, <2>13, ClientComm, Zenon
<1>9. ASSUME NEW rc \in EnqRc, NEW a \in BOOLEAN, CliEnqueueFini(l, rc, a)
      PROVE  Comm' /\ NoneEvicted'
  <2> USE <1>9
  <2>1. PICK r : r = EnqRep(l, rc, a)
    OBVIOUS
  <2>2. r.lock = l /\ r.type = "enqrep" /\ r.rc = rc /\ r.ast = a
    BY <2>1 DEF EnqRep
  <2>3. r \in net /\ net' = net \ {r}
    BY <2>1, Zenon DEF CliEnqueueFini
  <2>4. cl[l].st = "enq"
    BY <2>2, <2>3, Zenon DEF Comm, EnqueuesSucceed, Unanswered
  <2>5. /\ rc # "error" /\ \A t \in Thread : ~Enqueues(t, l)
        /\ \A n \in net : n.type = "enqrep" /\ n.lock = l => n = r
    BY <2>2, <2>3, Zenon DEF Comm, EnqueuesSucceed
  <2> DEFINE d == [cl[l] EXCEPT !.st = "held", !.cbpending = @ \/ a, !.blAst = @ \/ a,
                                !.granted = @ \/ rc = "granted"]
  <2>6. cl' = [cl EXCEPT ![l] = d]
    BY <2>4, <2>5, Zenon DEF CliEnqueueFini
  <2>7. /\ d.st = "held" /\ d.cbpending = (cl[l].cbpending \/ a) /\ d.ref = cl[l].ref
        /\ d.granted = (cl[l].granted \/ rc = "granted") /\ d.work = cl[l].work
        /\ d.failed = cl[l].failed /\ d.local = cl[l].local
    BY SoundLock, ZenonT(40) DEF ClientLock
  <2> HIDE DEF d
  <2>8. cl'[l] = d /\ \A k \in Lock : k # l => cl'[k] = cl[k]
    BY <2>6, SoundFacts, ClientChanged, Zenon
  <2>9. /\ granted' = granted /\ waiting' = waiting /\ astSent' = astSent /\ thr' = thr
    BY Zenon DEF svars, queues, astState
  <2>10. \A m : m \in net /\ m.type # "enqrep" => m \in net'
    BY <2>2, <2>3, Zenon
  <2>11. \A m \in net' : m \in net /\ m # r
    BY <2>3
  <2>12. Touches(l)
    <3>1. \A m \in net : m.lock # l => m \in net'
      BY <2>2, <2>3, Zenon
    <3>2. \A m \in net' \cup net : m \in net
      BY <2>11
    <3> QED
      BY <2>8, <2>11, <3>1, <3>2, Zenon DEF Touches
  <2>13. ~Unanswered(l)'
    <3>1. EnqReq(l) \notin net
      BY <2>2, <2>3, Zenon DEF Sound, ProtocolInv, EvictionInv, FreshUntouched, Fresh
    <3> QED
      BY <2>5, <2>9, <2>11, <3>1, Zenon DEF Unanswered, Enqueues
  <2>14. cl[l].ref
    BY <2>4, WaitsInUse, Zenon DEF Known
  <2>15. Cooperates(l)'
    <3>1. l \in waiting => ~d.granted
      <4>1. rc = "granted" => l \in granted \cup destroyed
        BY <2>2, <2>3, SoundFacts, Zenon DEF SeenGranted
      <4>2. l \in waiting => l \notin granted \cup destroyed
        BY SoundFacts, Zenon DEF QueuePlaces
      <4>3. l \in waiting => ~cl[l].granted
        BY Zenon DEF Comm, ClientsCooperate
      <4> QED
        BY <2>7, <4>1, <4>2, <4>3, Zenon
    <3>2. Known(l)' /\ cl'[l].st # "gone"
      BY <2>7, <2>8, Zenon DEF Known
    <3> QED
      BY <2>7, <2>8, <2>9, <2>14, <3>1, <3>2, Zenon DEF Cooperates
  <2>16. Arrives(l)'
    <3>1. l \in granted \cap astSent =>
            \/ cl[l].cbpending \/ CancelReq(l) \in net
            \/ BlAstComing(l) \/ ReplyComing(l) \/ CpAstComing(l)
      BY Zenon DEF Comm, CallbacksArrive
    <3>2. CancelReq(l) \in net => CancelReq(l) \in net'
      <4>1. CancelReq(l).type # "enqrep"
        BY Zenon DEF CancelReq
      <4> QED
        BY <2>10, <4>1, Zenon
    <3>3. BlAstComing(l) => BlAstComing(l)'
      <4>1. \A m \in net : m.type = "bl" => m \in net'
        BY <2>10, Zenon
      <4> QED
        BY <2>7, <2>8, <2>9, <4>1, Zenon DEF BlAstComing
    <3>4. ReplyComing(l) => d.cbpending
      BY <2>2, <2>5, <2>7, Zenon DEF ReplyComing
    <3>5. CpAstComing(l) => CpAstComing(l)' \/ d.cbpending
      <4>1. SUFFICES ASSUME CpAstComing(l), ~a
                     PROVE  CpAstComing(l)'
        BY <2>7, Zenon
      <4>2. \A m \in net : m.type = "cp" => m \in net'
        BY <2>10, Zenon
      <4>3. rc # "granted" /\ ~cl[l].granted
        BY <2>2, <2>3, <4>1, Zenon DEF CpAstComing, ToldSilently
      <4>4. ToldSilently(l)' => ToldSilently(l)
        BY <2>7, <2>8, <2>9, <2>11, <4>3, Zenon DEF ToldSilently, Enqueues, Unfinished
      <4> QED
        BY <2>9, <4>1, <4>2, <4>4, Zenon DEF CpAstComing
    <3>6. cl[l].cbpending => d.cbpending
      BY <2>7, Zenon
    <3> QED
      BY <2>8, <2>9, <3>1, <3>2, <3>3, <3>4, <3>5, <3>6, Zenon DEF Arrives
  <2> QED
    BY <2>7, <2>8, <2>12, <2>13, <2>15, <2>16, SoundLock, ClientComm, Zenon
<1>10. ASSUME NEW b, NEW t, RecvBlAst(l, b, t)
       PROVE  Comm' /\ NoneEvicted'
  <2> USE <1>10
  <2>1. PICK r : r = BlAst(l, b, t)
    BY Zenon
  <2>2. PICK q : q = AstRep(l, IF Stale(l) THEN "einval" ELSE "ok", t)
    BY Zenon
  <2>3. Answers(l, r, q)
    BY <2>1, <2>2, Zenon DEF RecvBlAst, Answers, BlAst, AstRep
  <2>4. Stale(l) <=> ~Known(l)
    BY SoundLock, Zenon DEF Stale
  <2>5. CASE Stale(l)
    <3>1. cl' = cl
      BY <2>5, Zenon DEF RecvBlAst
    <3>2. /\ Touches(l) /\ (Unanswered(l)' => Unanswered(l))
          /\ CancelReq(l) \in net => CancelReq(l) \in net'
      BY <2>3, <3>1, AnswersOne, Zenon
    <3>3. Unanswered(l)' => cl'[l].st = "enq"
      BY <3>1, <3>2, Zenon DEF Comm, EnqueuesSucceed
    <3>4. Cooperates(l)' /\ Arrives(l)'
      BY <2>4, <2>5, <3>1, <3>2, GoneStays, Zenon
    <3>5. ~cl'[l].failed /\ ~cl'[l].local
      BY <3>1, SoundLock, Zenon
    <3> QED
      BY <3>2, <3>3, <3>4, <3>5, ClientComm, Zenon
  <2>6. CASE ~Stale(l)
    <3> DEFINE d == [cl[l] EXCEPT !.blAst = TRUE, !.work = @ \cup {<<b, "queued">>}]
    <3>1. cl' = [cl EXCEPT ![l] = d]
      BY <2>6 DEF RecvBlAst
    <3>2. /\ d.st = cl[l].st /\ d.granted = cl[l].granted /\ d.ref = cl[l].ref
          /\ d.failed = cl[l].failed /\ d.local = cl[l].local
          /\ d.work = cl[l].work \cup {<<b, "queued">>}
      BY SoundLock, Zenon DEF ClientLock
    <3> HIDE DEF d
    <3>3. cl'[l] = d /\ \A k \in Lock : k # l => cl'[k] = cl[k]
      BY <3>1, SoundFacts, ClientChanged, Zenon
    <3>4. /\ Touches(l) /\ (Unanswered(l)' => Unanswered(l))
      BY <2>3, <3>3, AnswersOne, Zenon
    <3>5. Unanswered(l)' => cl'[l].st = "enq"
      BY <3>2, <3>3, <3>4, Zenon DEF Comm, EnqueuesSucceed
    <3>6. <<b, "queued">> \in d.work /\ <<b, "queued">>[2] = "queued"
      BY <3>2, Zenon
    <3>7. /\ granted' = granted /\ waiting' = waiting
      BY Zenon DEF svars, queues
    <3>8. Cooperates(l)'
      <4>1. Known(l)' /\ cl'[l].st # "gone"
        BY <2>4, <2>6, <3>2, <3>3, Zenon DEF Known
      <4>2. cl'[l].st = "enq" \/ ~cl'[l].granted => cl'[l].ref
        BY <2>4, <2>6, <3>2, <3>3, WaitsInUse, Zenon
      <4>3. l \in waiting => ~cl'[l].granted
        BY <3>2, <3>3, Zenon DEF Comm, ClientsCooperate
      <4> QED
        BY <3>3, <3>6, <3>7, <4>1, <4>2, <4>3, Zenon DEF Cooperates
    <3>9. Arrives(l)'
      BY <3>3, <3>6, Zenon DEF Arrives, BlAstComing
    <3> QED
      BY <3>2, <3>3, <3>4, <3>5, <3>8, <3>9, SoundLock, ClientComm, Zenon
  <2> QED
    BY <2>5, <2>6
<1>11. ASSUME NEW b,
              NEW a \in BOOLEAN, NEW t, RecvCpAst(l, b, a, t)
       PROVE  Comm' /\ NoneEvicted'
  <2> USE <1>11
  <2>1. PICK r : r = CpAst(l, b, a, t)
    BY Zenon
  <2>2. PICK q : q = AstRep(l, IF Known(l) THEN "ok" ELSE "einval", t)
    BY Zenon
  <2>3. Answers(l, r, q) /\ r.type = "cp" /\ r.ast = a /\ r.lock = l /\ r \in net
    BY <2>1, <2>2, Zenon DEF RecvCpAst, Answers, CpAst, AstRep
  <2>4. /\ granted' = granted /\ waiting' = waiting /\ astSent' = astSent /\ thr' = thr
    BY Zenon DEF svars, queues, astState
  <2>5. l \notin waiting
    <3>1. l \in granted \cup destroyed
      BY <2>3, SoundFacts, Zenon DEF SeenGranted
    <3> QED
      BY <3>1, SoundFacts, Zenon DEF QueuePlaces
  <2>6. CASE ~Known(l)
    <3>1. cl' = cl
      BY <2>6, Zenon DEF RecvCpAst
    <3>2. /\ Touches(l) /\ (Unanswered(l)' => Unanswered(l))
          /\ CancelReq(l) \in net => CancelReq(l) \in net'
      BY <2>3, <3>1, AnswersOne, Zenon
    <3>3. Unanswered(l)' => cl'[l].st = "enq"
      BY <3>1, <3>2, Zenon DEF Comm, EnqueuesSucceed
    <3>4. Cooperates(l)' /\ Arrives(l)'
      BY <2>6, <3>1, <3>2, GoneStays, Zenon
    <3>5. ~cl'[l].failed /\ ~cl'[l].local
      BY <3>1, SoundLock, Zenon
    <3> QED
      BY <3>2, <3>3, <3>4, <3>5, ClientComm, Zenon
  <2>7. ASSUME NEW d, cl'[l] = d, \A k \in Lock : k # l => cl'[k] = cl[k], Known(l),
               d.st = cl[l].st, d.granted, d.ref = cl[l].ref \/ d.ref, d.work = cl[l].work,
               d.failed = cl[l].failed, d.local = cl[l].local, d.canceling = cl[l].canceling,
               cl[l].cbpending => d.cbpending, d.cbpending => cl[l].cbpending \/ d.ref,
               d.cbpending \/ ~CpAstComing(l)
        PROVE  Comm' /\ NoneEvicted'
    <3>1. /\ Touches(l) /\ (Unanswered(l)' => Unanswered(l))
          /\ CancelReq(l) \in net => CancelReq(l) \in net'
          /\ ReplyComing(l) => ReplyComing(l)'
          /\ \A m \in net : m.type # r.type => m \in net'
      BY <2>3, <2>7, AnswersOne, Zenon
    <3>2. Unanswered(l)' => cl'[l].st = "enq"
      BY <2>7, <3>1, Zenon DEF Comm, EnqueuesSucceed
    <3>3. Cooperates(l)'
      <4>1. Known(l)' /\ cl'[l].st # "gone"
        BY <2>7, Zenon DEF Known
      <4>2. cl'[l].st = "enq" => cl'[l].ref
        BY <2>7, WaitsInUse, Zenon
      <4>3. cl'[l].cbpending /\ ~cl'[l].ref => cl'[l].canceling \/ cl'[l].work # {}
        BY <2>7, Zenon DEF Comm, ClientsCooperate
      <4> QED
        BY <2>4, <2>5, <2>7, <4>1, <4>2, <4>3, Zenon DEF Cooperates
    <3>4. Arrives(l)'
      <4>1. l \in granted \cap astSent =>
              \/ cl[l].cbpending \/ CancelReq(l) \in net
              \/ BlAstComing(l) \/ ReplyComing(l) \/ CpAstComing(l)
        BY Zenon DEF Comm, CallbacksArrive
      <4>2. BlAstComing(l) => BlAstComing(l)'
        <5>1. \A m \in net : m.type = "bl" => m \in net'
          BY <2>3, <3>1, Zenon
        <5> QED
          BY <2>4, <2>7, <5>1, Zenon DEF BlAstComing
      <4> QED
        BY <2>4, <2>7, <3>1, <4>1, <4>2, Zenon DEF Arrives
    <3> QED
      BY <2>7, <3>1, <3>2, <3>3, <3>4, SoundLock, ClientComm, Zenon
  <2>8. CASE Known(l) /\ cl[l].granted
    <3>1. cl' = cl
      BY <2>8, Zenon DEF RecvCpAst
    <3>2. ~CpAstComing(l)
      BY <2>8, Zenon DEF CpAstComing, ToldSilently
    <3> QED
      BY <2>7, <2>8, <3>1, <3>2, Zenon
  <2>9. CASE Known(l) /\ ~cl[l].granted
    <3> DEFINE d == [cl[l] EXCEPT !.granted = TRUE, !.bits = b, !.cbpending = @ \/ a,
                                  !.blAst = @ \/ a]
    <3>1. cl' = [cl EXCEPT ![l] = d]
      BY <2>9, Zenon DEF RecvCpAst
    <3>2. /\ d.st = cl[l].st /\ d.granted /\ d.ref = cl[l].ref /\ d.work = cl[l].work
          /\ d.failed = cl[l].failed /\ d.local = cl[l].local /\ d.canceling = cl[l].canceling
          /\ d.cbpending = (cl[l].cbpending \/ a)
      BY SoundLock, Zenon DEF ClientLock
    <3> HIDE DEF d
    <3>3. cl'[l] = d /\ \A k \in Lock : k # l => cl'[k] = cl[k]
      BY <3>1, SoundFacts, ClientChanged, Zenon
    <3>4. cl[l].ref
      BY <2>9, WaitsInUse, Zenon
    <3>5. ~a => ~CpAstComing(l)
      BY <2>3, Zenon DEF CpAstComing, ToldSilently
    <3> QED
      BY <2>7, <2>9, <3>2, <3>3, <3>4, <3>5, Zenon
  <2> QED
    BY <2>6, <2>8, <2>9, Zenon
<1>12. ~InterruptedCompletionWait(l)
  BY DEF InterruptedCompletionWait, Sound, NoFaults
<1>13. NeverConverted
  BY SoundFacts, Zenon
<1>14. \A b : ~CliDropbits(l, b)
  <2>1. \A b : <<b, "convert">>[2] = "convert"
    BY Zenon
  <2>2. \A b : <<b, "convert">> \notin cl[l].work
    BY <1>13, <2>1, Zenon DEF NeverConverted
  <2> QED
    BY <2>2, Zenon DEF CliDropbits
<1>15. \A rc, b : ~LockConvertInterpret(l, rc, b)
  <2>1. \A rc, b : ConvRep(l, rc, b).type = "convrep"
    BY Zenon DEF ConvRep
  <2>2. \A rc, b : ConvRep(l, rc, b) \notin net
    BY <1>13, <2>1, Zenon DEF NeverConverted
  <2> QED
    BY <2>2, Zenon DEF LockConvertInterpret
<1>16. CASE CliEnqueue(l) \/ LockMatch(l) \/ LockDecref(l) \/ CancelLru(l) \/ CliCancelLocal(l)
  BY <1>16, <1>7, <1>1, <1>2, <1>3, <1>8, Zenon
<1>17. CASE \E rc \in EnqRc, a \in BOOLEAN : CliEnqueueFini(l, rc, a)
  BY <1>17, <1>9, Zenon
<1>18. ASSUME NEW b \in SUBSET Bit, HandleBlCallback(l, b) \/ MdBlockingAst(l, b) \/ CliCancel(l, b)
      PROVE  Comm' /\ NoneEvicted'
  BY <1>18, <1>4, <1>5, <1>6, Zenon
<1>19. ASSUME NEW b \in SUBSET Bit, NEW t \in Thread,
             RecvBlAst(l, b, t) \/ \E a \in BOOLEAN : RecvCpAst(l, b, a, t)
      PROVE  Comm' /\ NoneEvicted'
  BY <1>19, <1>10, <1>11, Zenon
<1> QED
  BY <1>12, <1>14, <1>15, <1>16, <1>17, <1>18, <1>19, Zenon DEF ClientStep

-----------------------------------------------------------------------------
(* All steps.                                                              *)

\* No step of the server breaks the queue invariant.
LEMMA ServerNextComm ==
    ASSUME Sound, Comm, ServerQ, cl' = cl, ServerNext
    PROVE  Comm' /\ NoneEvicted' /\ ServerQ'
\* The lock hash, the end of a blocking AST and of a scan's blocking ASTs.
<1>1. ASSUME NEW t \in Thread, ExportAddLock(t)
      PROVE  Comm' /\ NoneEvicted'
  <2> USE <1>1
  <2>1. /\ SInv /\ thr[t].pc = "hash" /\ failed' = failed /\ tmr' = tmr /\ net' = net
        /\ granted' = granted /\ waiting' = waiting /\ astSent' = astSent
    BY SoundFacts, Zenon DEF ExportAddLock, queues, astState, exports
  <2>2. /\ Moves(t, "policy", thr[t].bl, thr[t].cp, thr[t].out, thr[t].rescan, thr[t].rc)
        /\ Rest(t, thr'[t].restart, thr[t].ast)
    BY <2>1, ExportAddLockMoves, GoOnRest, Zenon DEF ExportAddLock, Rest
  <2>3. "policy" \in Early /\ thr[t].pc \in Early
    BY <2>1, Zenon DEF Early
  <2> QED
    BY <2>1, <2>2, <2>3, QuietComm, Zenon
<1>2. ASSUME NEW t \in Thread, BlAstFini(t)
      PROVE  Comm' /\ NoneEvicted'
  <2> USE <1>2
  <2>1. /\ SInv /\ thr[t].pc = "blfin" /\ failed' = failed /\ tmr' = tmr /\ net' = net
        /\ granted' = granted /\ waiting' = waiting /\ astSent' = astSent
    BY SoundFacts, Zenon DEF BlAstFini, queues, exports
  <2>2. /\ Moves(t, "bl", thr[t].bl, thr[t].cp, thr[t].out, thr[t].rescan, thr[t].rc)
        /\ Rest(t, thr'[t].restart, thr[t].ast)
    BY <2>1, BlAstFiniMoves, GoOnRest, Zenon DEF BlAstFini, Rest
  <2>3. "bl" \in Early /\ thr[t].pc \in Early
    BY <2>1, Zenon DEF Early
  <2> QED
    BY <2>1, <2>2, <2>3, QuietComm, Zenon
<1>3. ASSUME NEW t \in Thread, ReprocessBlDone(t)
      PROVE  Comm' /\ NoneEvicted'
  <2> USE <1>3
  <2>1. PICK pc : pc = IF thr[t].restart THEN "reproc" ELSE "cp"
    OBVIOUS
  <2>2. /\ SInv /\ thr[t].rescan /\ failed' = failed /\ tmr' = tmr /\ net' = net
        /\ granted' = granted /\ waiting' = waiting /\ astSent' = astSent
    BY SoundFacts, Zenon DEF ReprocessBlDone, queues, astState, exports
  <2>3. Become(t, [thr[t] EXCEPT !.pc = pc, !.restart = FALSE])
    BY <2>1 DEF ReprocessBlDone
  <2>4. /\ Moves(t, pc, thr[t].bl, thr[t].cp, thr[t].out, thr[t].rescan, thr[t].rc)
        /\ Rest(t, thr'[t].restart, thr[t].ast)
    BY <2>2, <2>3, ScanBlDoneMoves, ScanRest, Zenon DEF Rest
  <2> QED
    BY <2>2, <2>4, QuietComm, Zenon
\* The answer to an AST.
<1>4. ASSUME NEW t \in Thread, NEW c \in Lock, NEW rc, AstReply(t, c, rc)
      PROVE  Comm' /\ NoneEvicted'
  <2> USE <1>4
  <2>1. PICK b : b = (thr[t].restart \/ (rc = "einval" /\ c \in thr[t].out))
    BY Zenon
  <2>2. /\ SInv /\ failed' = failed /\ net' = net \ {AstRep(c, rc, t)} /\ astSent' = astSent
        /\ CancelLock(c) \/ UNCHANGED <<granted, waiting, tmr>>
    BY SoundFacts, Zenon DEF AstReply, astState, exports
  <2>3. granted' \subseteq granted /\ waiting' \subseteq waiting
    BY <2>2, Zenon DEF CancelLock
  <2>4. Become(t, [thr[t] EXCEPT !.out = @ \ {c}, !.restart = b])
    BY <2>1, Zenon DEF AstReply
  <2>5. /\ Moves(t, thr[t].pc, thr[t].bl, thr[t].cp, thr[t].out \ {c}, thr[t].rescan, thr[t].rc)
        /\ Rest(t, thr'[t].restart, thr[t].ast)
    BY <2>2, <2>4, AnsweredMoves, NotedRest, Zenon DEF Rest
  <2>6. AstRep(c, rc, t).type = "astrep" /\ \A l : CancelReq(l).type = "cancel"
    BY Zenon DEF AstRep, CancelReq
  <2>7. /\ \A l \in granted' : CancelReq(l) \in net => CancelReq(l) \in net'
        /\ \A m \in net : m.type \in {"bl", "cp", "enqrep"} => m \in net'
        /\ \A m \in net' \ net : m.type \notin {"enq", "enqrep", "cp"}
    BY <2>2, <2>6, Zenon
  <2>8. tmr' = tmr \/ \E l \in Lock : AddWaiting(l) \/ CancelLock(l)
    BY <2>2, Zenon
  <2>9. thr[t].ctx = "enq" /\ thr[t].rc = "error" =>
          thr[t].rescan \/ thr[t].pc \in {"hash", "policy", "bl", "blfin"}
    BY Zenon DEF Comm, EnqueuesSucceed
  <2> QED
    BY <2>2, <2>3, <2>5, <2>7, <2>8, <2>9, QuietComm, Zenon
\* A cancel.
<1>5. ASSUME NEW t \in Thread, NEW l \in Lock, HandleCancel(t, l)
      PROVE  Comm' /\ NoneEvicted'
  <2> USE <1>5
  <2>1. /\ SInv /\ failed' = failed /\ net' = net \ {CancelReq(l)} /\ astSent' = astSent
        /\ thr[t] = Idle
    BY SoundFacts, Zenon DEF HandleCancel, astState, exports
  <2>2. thr[t].ctx = "none" /\ thr[t].pc \notin Early /\ "reproc" \notin Early
    BY <2>1, IdleFields DEF Early
  <2>3. CancelReq(l).type = "cancel" /\ \A k : CancelReq(k).lock = k
    BY Zenon DEF CancelReq
  <2>4. /\ \A m \in net : m.type \in {"bl", "cp", "enqrep"} => m \in net'
        /\ \A m \in net' \ net : m.type \notin {"enq", "enqrep", "cp"}
        /\ \A k : k # l /\ CancelReq(k) \in net => CancelReq(k) \in net'
    BY <2>1, <2>3
  <2>5. CASE CancelLock(l) /\ Goto(t, "reproc")
    <3>1. /\ Moves(t, "reproc", thr[t].bl, thr[t].cp, thr[t].out, thr[t].rescan, thr[t].rc)
          /\ Rest(t, thr'[t].restart, thr[t].ast)
      BY <2>1, <2>5, GotoMoves, GoOnRest, Zenon DEF Rest
    <3>2. granted' \subseteq granted /\ waiting' \subseteq waiting /\ l \notin granted'
      BY <2>5, Zenon DEF CancelLock
    <3> QED
      BY <2>1, <2>2, <2>4, <2>5, <3>1, <3>2, QuietComm, Zenon
  <2>6. CASE l \notin Live /\ UNCHANGED <<granted, waiting, destroyed, tmr, thr>>
    <3>1. /\ Moves(t, thr[t].pc, thr[t].bl, thr[t].cp, thr[t].out, thr[t].rescan, thr[t].rc)
          /\ Rest(t, thr'[t].restart, thr[t].ast)
      BY <2>6, Zenon DEF Moves, Rest
    <3>2. l \notin granted'
      BY <2>6, SoundFacts, Zenon DEF Live, SInv, LocksCreated
    <3> QED
      BY <2>1, <2>2, <2>4, <2>6, <3>1, <3>2, QuietComm, Zenon
  <2>7. Owner[l] \notin failed
    BY SoundFacts, Zenon DEF Alive
  <2> QED
    BY <2>5, <2>6, <2>7, Zenon DEF HandleCancel
\* An enqueue is taken up.
<1>6. ASSUME NEW t \in Thread, NEW l \in Lock, HandleEnqueue(t, l)
      PROVE  Comm' /\ NoneEvicted'
  <2> USE <1>6
  <2>1. /\ EnqueuesSucceed /\ ClientsCooperate /\ CallbacksArrive /\ SInv /\ Owner[l] \notin failed
        /\ granted \subseteq Lock
    BY SoundFacts, Zenon DEF Comm, Alive, SInv, ServerTypeOK
  <2>2. /\ failed' = failed /\ tmr' = tmr /\ granted' = granted /\ waiting' = waiting
        /\ astSent' = astSent /\ net' = net \ {EnqReq(l)} /\ thr[t] = Idle
    BY Zenon DEF HandleEnqueue, queues, astState, exports
  <2>3. /\ \A u \in Thread : u # t => thr'[u] = thr[u]
        /\ thr'[t].pc = "hash" /\ thr'[t].ctx = "enq" /\ thr'[t].rescan = FALSE
    BY <2>1, HandleEnqueueMoves, Zenon
  <2>4. EnqReq(l).type = "enq" /\ \A k : CancelReq(k).type = "cancel"
    BY Zenon DEF EnqReq, CancelReq
  <2>5. /\ \A k \in granted' : CancelReq(k) \in net => CancelReq(k) \in net'
        /\ \A m \in net : m.type \in {"bl", "cp", "enqrep"} => m \in net'
        /\ \A m \in net' \ net : m.type \notin {"cp", "enqrep"}
    BY <2>2, <2>4, Zenon
  <2>6. thr[t].bl = {} /\ thr[t].cp = {} /\ thr[t].ctx = "none"
    BY <2>2, IdleFields
  <2>7. \A k : Tells(t, k)
    BY <2>3, <2>6, Zenon DEF Tells, Silent, Unfinished, Enqueues
  <2>8. NoneEvicted' /\ EnqueuesSucceed' /\ ClientsCooperate'
    BY <2>1, <2>2, <2>5, EvictedKept, HandleEnqueueEnqueues, CooperateKept, Zenon
  <2>9. CallbacksArrive'
    BY <2>1, <2>2, <2>3, <2>5, <2>6, <2>7, QuietCallbacks, Zenon
  <2> QED
    BY <2>8, <2>9, Zenon DEF Comm
\* A blocking AST is on the network before it is off the work list.
<1>7. ASSUME NEW t \in Thread, NEW c \in Lock, BlAstSend(t, c)
      PROVE  Comm' /\ NoneEvicted'
  <2> USE <1>7
  <2>1. /\ EnqueuesSucceed /\ ClientsCooperate /\ CallbacksArrive /\ SInv /\ Owner[c] \notin failed
        /\ granted \subseteq Lock /\ granted \cap destroyed = {}
    BY SoundFacts, Zenon DEF Comm, Alive, SInv, ServerTypeOK
  <2>2. /\ failed' = failed /\ granted' = granted /\ waiting' = waiting /\ astSent' = astSent
        /\ thr[t].pc = "bl" /\ c \in thr[t].bl /\ (tmr' = tmr \/ AddWaiting(c))
    BY Zenon DEF BlAstSend, queues, exports
  <2>3. PICK m : m = BlAst(c, bits[blocking[c]], t)
    BY Zenon
  <2>4. m.type = "bl" /\ m.lock = c
    BY <2>3, Zenon DEF BlAst
  <2>5. blocking[c] # NoLock
    BY <2>2, SoundFacts, Zenon DEF WorkListed
  <2>6. net' \in {net, net \cup {m}} /\ (c \in granted => net' = net \cup {m})
    BY <2>1, <2>3, <2>5, Zenon DEF BlAstSend
  <2>7. PICK o : Become(t, [thr[t] EXCEPT !.pc = "blfin", !.bl = @ \ {c}, !.cur = c, !.out = o])
    BY Zenon DEF BlAstSend
  <2>8. /\ Moves(t, "blfin", thr[t].bl \ {c}, thr[t].cp, o, thr[t].rescan, thr[t].rc)
        /\ Rest(t, thr'[t].restart, thr[t].ast)
    BY <2>1, <2>7, BlAstSendMoves, GoOnRest, Zenon DEF Rest
  <2>9. /\ \A k \in granted' : CancelReq(k) \in net => CancelReq(k) \in net'
        /\ \A n \in net : n \in net'
        /\ \A n \in net' \ net : n.type \notin {"enq", "cp", "enqrep"}
    BY <2>4, <2>6, Zenon
  <2>10. NoneEvicted' /\ ClientsCooperate'
    BY <2>1, <2>2, <2>9, EvictedKept, CooperateKept, Zenon
  <2>11. EnqueuesSucceed'
    <3>1. thr[t].ctx = "enq" /\ thr[t].rc = "error" => ~thr[t].rescan
      BY <2>1, Zenon DEF EnqueuesSucceed
    <3>2. \A n \in net' \ net : n.type \notin {"enq", "enqrep"}
      BY <2>9, Zenon
    <3> QED
      BY <2>1, <2>8, <3>1, <3>2, MovesEnqueues, Zenon
  <2>12. CallbacksArrive'
    <3> SUFFICES ASSUME NEW l \in granted' \cap astSent'
                 PROVE  TellsOn(l)
      BY <2>1, <2>2, CallbacksOn, Zenon
    <3>1. Unfinished(t, l)' <=> Unfinished(t, l)
      BY <2>2, <2>8, Zenon DEF Unfinished, Enqueues, Moves
    <3>2. Tells(t, l)
      BY <2>8, <3>1, MovesTell, Zenon
    <3>3. l \in thr[t].bl => BlAstComing(l)'
      <4>1. CASE l = c
        BY <2>2, <2>4, <2>6, <4>1, Zenon DEF BlAstComing
      <4>2. CASE l # c
        <5>1. thr'[t].bl = thr[t].bl \ {c}
          BY <2>8, Zenon DEF Moves
        <5> QED
          BY <4>2, <5>1, Zenon DEF BlAstComing
      <4> QED
        BY <4>1, <4>2, Zenon
    <3>4. \A u \in Thread : Tells(u, l) /\ (l \in thr[u].bl => BlAstComing(l)')
      BY <2>8, <3>2, <3>3, StillTells, Zenon DEF Moves
    <3> QED
      BY <2>2, <2>9, <3>4, Zenon DEF TellsOn
  <2> QED
    BY <2>10, <2>11, <2>12, Zenon DEF Comm
\* A completion AST says whether its lock has been called back.
<1>8. ASSUME NEW t \in Thread, NEW c \in Lock, CpAstSend(t, c)
      PROVE  Comm' /\ NoneEvicted'
  <2> USE <1>8
  <2>1. /\ EnqueuesSucceed /\ ClientsCooperate /\ CallbacksArrive /\ SInv /\ Owner[c] \notin failed
        /\ granted \subseteq Lock
    BY SoundFacts, Zenon DEF Comm, Alive, SInv, ServerTypeOK
  <2>2. /\ failed' = failed /\ granted' = granted /\ waiting' = waiting /\ astSent' = astSent
        /\ thr[t].pc = "cp" /\ c \in thr[t].cp /\ (tmr' = tmr \/ AddWaiting(c))
    BY Zenon DEF CpAstSend, queues, astState, exports
  <2>3. PICK m : m = CpAst(c, bits[c], c \in astSent, t)
    OBVIOUS
  <2>4. m.type = "cp" /\ m.lock = c /\ m.ast = (c \in astSent)
    BY <2>3, Zenon DEF CpAst
  <2>5. net' = net \cup {m}
    BY <2>1, <2>3, Zenon DEF CpAstSend
  <2>6. PICK o : Become(t, [thr[t] EXCEPT !.cp = @ \ {c}, !.out = o])
    BY Zenon DEF CpAstSend
  <2>7. /\ Moves(t, thr[t].pc, thr[t].bl, thr[t].cp \ {c}, o, thr[t].rescan, thr[t].rc)
        /\ Rest(t, thr'[t].restart, thr[t].ast)
    BY <2>1, <2>6, CpAstSendMoves, GoOnRest, Zenon DEF Rest
  <2>8. /\ \A k \in granted' : CancelReq(k) \in net => CancelReq(k) \in net'
        /\ \A n \in net : n \in net'
        /\ \A n \in net' \ net : n = m
    BY <2>5, Zenon
  <2>9. NoneEvicted' /\ ClientsCooperate'
    BY <2>1, <2>2, <2>8, EvictedKept, CooperateKept, Zenon
  <2>10. EnqueuesSucceed'
    <3>1. ~(thr[t].ctx = "enq" /\ thr[t].rc = "error")
      BY <2>1, <2>2, Zenon DEF EnqueuesSucceed
    <3>2. \A n \in net' \ net : n.type \notin {"enq", "enqrep"}
      BY <2>4, <2>8, Zenon
    <3> QED
      BY <2>1, <2>7, <3>1, <3>2, MovesEnqueues, Zenon
  <2>11. CallbacksArrive'
    <3> SUFFICES ASSUME NEW l \in granted' \cap astSent'
                 PROVE  TellsOn(l)
      BY <2>1, <2>2, CallbacksOn, Zenon
    <3>1. Unfinished(t, l)' <=> Unfinished(t, l)
      BY <2>2, <2>7, Zenon DEF Unfinished, Enqueues, Moves
    <3>2. \A n \in net' \ net : n.lock = l => n.ast
      BY <2>2, <2>4, <2>8, Zenon
    <3>3. l \in thr[t].cp => l \in thr[t].cp \ {c} \/ \E n \in net' : n.lock = l /\ n.type = "cp" /\ n.ast
      BY <2>2, <2>4, <2>5, Zenon
    <3>4. Tells(t, l)
      BY <2>7, <3>1, <3>3, MovesTell
    <3>5. l \in thr[t].bl => BlAstComing(l)'
      BY <2>7, Zenon DEF BlAstComing, Moves
    <3>6. \A u \in Thread : Tells(u, l) /\ (l \in thr[u].bl => BlAstComing(l)')
      BY <2>7, <3>4, <3>5, StillTells, Zenon DEF Moves
    <3> QED
      BY <2>2, <2>8, <3>2, <3>6, Zenon DEF TellsOn
  <2> QED
    BY <2>9, <2>10, <2>11, Zenon DEF Comm
\* The reply of an enqueue carries what its thread noted.
<1>9. ASSUME NEW t \in Thread, CpDone(t)
      PROVE  Comm' /\ NoneEvicted'
  <2> USE <1>9
  <2>1. /\ EnqueuesSucceed /\ ClientsCooperate /\ CallbacksArrive /\ SInv /\ granted \subseteq Lock
        /\ ThreadPhase(thr[t]) /\ thr[t].ctx # "conv" /\ thr[t].ctx \in {"none", "enq", "conv"}
    BY SoundFacts, ThreadTyped, Zenon DEF Comm, SInv, ServerTypeOK, NeverConverted, ThreadState
  <2>2. /\ failed' = failed /\ granted' = granted /\ waiting' = waiting /\ astSent' = astSent
        /\ tmr' = tmr /\ thr[t].pc = "cp" /\ thr[t].cp = {}
    BY Zenon DEF CpDone, AstWorkDone, queues, astState, exports
  <2>3. thr[t].bl = {}
    BY <2>1, <2>2, Zenon DEF ThreadPhase
  <2>4. EnqueuesSucceed'
    BY <2>1, CpDoneEnqueues, Zenon
  <2>5. PICK l : l = thr[t].lock
    BY Zenon
  <2>6. PICK r : r = EnqRep(l, thr[t].rc, thr[t].ast)
    BY Zenon
  <2>7. r.type = "enqrep" /\ r.lock = l /\ r.rc = thr[t].rc /\ r.ast = thr[t].ast
    BY <2>6, Zenon DEF EnqRep
  <2>8. CASE thr[t].restart
    <3>1. /\ Moves(t, "reproc", thr[t].bl, thr[t].cp, thr[t].out, thr[t].rescan, thr[t].rc)
          /\ Rest(t, thr'[t].restart, thr[t].ast)
      BY <2>1, <2>8, GotoMoves, GoOnRest, Zenon DEF CpDone, Rest
    <3>2. "reproc" \notin Early /\ thr[t].pc \notin Early /\ net' = net
      BY <2>2, <2>8, Zenon DEF Early, CpDone
    <3>3. ~(thr[t].ctx = "enq" /\ thr[t].rc = "error")
      BY <2>1, <2>2, Zenon DEF EnqueuesSucceed
    <3> QED
      BY <2>2, <3>1, <3>2, <3>3, QuietComm, Zenon
  <2>9. CASE ~thr[t].restart
    <3>1. thr'[t] = Idle /\ \A u \in Thread : u # t => thr'[u] = thr[u]
      BY <2>1, <2>9, BecomeThread, Zenon DEF CpDone
    <3>2. thr'[t].ctx = "none"
      BY <3>1, IdleFields
    <3>3. \/ net' = net /\ thr[t].ctx # "enq"
          \/ thr[t].ctx = "enq" /\ net' = net \cup {r}
      BY <2>1, <2>5, <2>6, <2>9, Zenon DEF CpDone, Reply
    <3>4. \A n \in net : n \in net'
      BY <3>3, Zenon
    <3>5. NoneEvicted' /\ ClientsCooperate'
      BY <2>1, <2>2, <3>4, EvictedKept, CooperateKept, Zenon
    <3>6. \A k : Enqueues(t, k) => k = l /\ net' = net \cup {r} /\ ~Unfinished(t, k)
      BY <2>2, <2>5, <3>3, Zenon DEF Enqueues, Unfinished
    <3>7. CallbacksArrive'
      <4> SUFFICES ASSUME NEW k \in granted' \cap astSent', ~ReplyComing(k)', ~CpAstComing(k)',
                          ~BlAstComing(k)'
                   PROVE  TellsOn(k)
        BY <2>1, <2>2, CallbacksOn, Zenon
      <4>1. ~(Enqueues(t, k) /\ thr[t].ast)
        <5>1. SUFFICES ASSUME Enqueues(t, k), thr[t].ast PROVE FALSE
          BY Zenon
        <5>2. r \in net' /\ r.lock = k /\ r.type = "enqrep" /\ r.ast
          BY <2>7, <3>6, <5>1, Zenon
        <5> QED
          BY <5>2, Zenon DEF ReplyComing
      <4>2. Tells(t, k)
        BY <2>2, <3>2, <3>6, <4>1, Zenon DEF Tells, Silent, Enqueues
      <4>3. \A u \in Thread : Tells(u, k) /\ (k \in thr[u].bl => BlAstComing(k)')
        BY <2>3, <3>1, <4>2, StillTells, Zenon
      <4>4. \A m \in net' \ net : m.lock = k =>
              /\ m.type = "cp" => m.ast
              /\ m.type = "enqrep" /\ m.rc = "granted" => m.ast \/ ToldSilently(k)
        <5> SUFFICES ASSUME r \in net' \ net, l = k, thr[t].rc = "granted", ~thr[t].ast
                     PROVE  ToldSilently(k)
          BY <2>7, <3>3, Zenon
        <5>1. Enqueues(t, k) /\ ~Unfinished(t, k)
          BY <2>2, <2>5, <3>3, Zenon DEF Enqueues, Unfinished
        <5> QED
          BY <5>1, Zenon DEF ToldSilently
      <4> QED
        BY <2>2, <3>4, <4>3, <4>4, Zenon DEF TellsOn
    <3> QED
      BY <2>4, <3>5, <3>7, Zenon DEF Comm
  <2> QED
    BY <2>8, <2>9, Zenon
\* Before the reply the thread looks whether its lock has been called back.
<1>10. ASSUME NEW t \in Thread, EnqueueFinish(t)
       PROVE  Comm' /\ NoneEvicted'
  <2> USE <1>10
  <2>1. /\ EnqueuesSucceed /\ ClientsCooperate /\ CallbacksArrive /\ SInv /\ granted \subseteq Lock
    BY SoundFacts, Zenon DEF Comm, SInv, ServerTypeOK
  <2>2. /\ thr[t].pc = "finish" /\ thr[t].ctx = "enq" /\ ~thr[t].rescan
        /\ SameQueues /\ failed' = failed /\ net' = net
        /\ tmr' = tmr \/ AddWaiting(thr[t].lock)
    BY <2>1, EnqueueFinishes, Zenon
  <2>3. PICK pc \in {"cp", "reproc"} :
          Moves(t, pc, thr[t].bl, thr[t].cp, thr[t].out, thr[t].rescan, thr[t].rc)
    BY <2>1, EnqueueFinishes, Zenon
  <2>4. PICK l : l = thr[t].lock
    BY Zenon
  <2>5. /\ thr'[t].ast = (l \in astSent) /\ thr'[t].lock = l /\ thr'[t].ctx = "enq"
        /\ thr'[t].bl = thr[t].bl /\ thr'[t].cp = thr[t].cp
        /\ \A u \in Thread : u # t => thr'[u] = thr[u]
    BY <2>1, <2>2, <2>3, <2>4, EnqueueFinishes, Zenon DEF Rest, Moves
  <2>6. l \in Lock /\ ~(thr[t].ctx = "enq" /\ thr[t].rc = "error")
    BY <2>1, <2>2, <2>4, EnqueueLives, Zenon DEF EnqueuesSucceed
  <2>7. /\ granted' = granted /\ waiting' = waiting /\ astSent' = astSent
    BY <2>2, Zenon DEF SameQueues
  <2>8. NoneEvicted' /\ ClientsCooperate' /\ EnqueuesSucceed'
    BY <2>1, <2>2, <2>3, <2>4, <2>6, <2>7, EvictedKept, CooperateKept, MovesEnqueues, Zenon
  <2>9. CallbacksArrive'
    <3> SUFFICES ASSUME NEW k \in granted' \cap astSent'
                 PROVE  TellsOn(k)
      BY <2>1, <2>7, CallbacksOn, Zenon
    <3>1. Tells(t, k)
      <4>1. Enqueues(t, k) => Enqueues(t, k)' /\ thr'[t].ast
        BY <2>4, <2>5, <2>7, Zenon DEF Enqueues
      <4>2. ~Silent(t, k)'
        BY <2>5, <2>7, Zenon DEF Silent, Enqueues
      <4> QED
        BY <2>5, <4>1, <4>2, Zenon DEF Tells
    <3>2. \A u \in Thread : Tells(u, k) /\ (k \in thr[u].bl => BlAstComing(k)')
      BY <2>5, <3>1, StillTells, Zenon DEF BlAstComing
    <3> QED
      BY <2>2, <2>7, <3>2, Zenon DEF TellsOn
  <2> QED
    BY <2>8, <2>9, Zenon DEF Comm
\* What is granted at once the reply will tell of; what is called back gets its
\* blocking AST from the thread that asks for it.
<1>11. ASSUME QueuePlaces, NEW t \in Thread, LockEnqueue(t) \/ EnqueueBlDone(t)
       PROVE  Comm' /\ NoneEvicted'
  <2> USE <1>11
  <2>1. /\ EnqueuesSucceed /\ ClientsCooperate /\ CallbacksArrive /\ SInv /\ granted \subseteq Lock
    BY SoundFacts, Zenon DEF Comm, SInv, ServerTypeOK
  <2>2. CASE ~Policy(t, thr[t].lock)
    <3>1. /\ thr[t].pc = "bl" /\ ~thr[t].rescan /\ failed' = failed /\ net' = net /\ tmr' = tmr
          /\ SameQueues /\ ThreadPhase(thr[t])
          /\ Rest(t, thr'[t].restart, thr[t].ast)
      BY <2>1, <2>2, EnqueueSteps, SoundFacts, Zenon DEF Rest
    <3>2. PICK rc \in {"blocked", "granted"} :
            Moves(t, "finish", thr[t].bl, thr[t].cp, thr[t].out, thr[t].rescan, rc)
      BY <2>1, <2>2, EnqueueSteps, Zenon
    <3>3. Unfinished(t, thr[t].lock) /\ "finish" \in Early /\ thr[t].pc \in Early
      BY <3>1, Zenon DEF Unfinished, Enqueues, ThreadPhase, Early
    <3>4. granted' = granted /\ waiting' = waiting /\ astSent' = astSent
      BY <3>1, Zenon DEF SameQueues
    <3> QED
      BY <3>1, <3>2, <3>3, <3>4, QuietComm, Zenon
  <2>3. CASE Policy(t, thr[t].lock)
    <3>1. PICK l : l = thr[t].lock
      BY Zenon
    <3>2. /\ l \in Lock /\ Unfinished(t, l) /\ thr[t].bl = {} /\ thr[t].ctx = "enq"
          /\ l \notin granted \cup destroyed /\ Policy(t, l)
      BY <2>1, <2>3, <3>1, PolicyLock, Zenon
    <3>3. failed' = failed /\ tmr' = tmr /\ net' = net
      BY <3>2, Zenon DEF Policy, exports
    <3>4. cl[l].st = "enq" /\ ~cl[l].granted
      <4>1. cl[l].st = "enq"
        BY <2>1, <3>1, <3>2, EnqueueLives, Zenon
      <4>2. ~SeenGranted(l)
        BY <3>2, SoundFacts, Zenon
      <4> QED
        BY <3>2, <4>1, <4>2, Zenon DEF SeenGranted, Held, Sound, NoneEvicted
    <3>5. granted' \subseteq granted \cup {l} /\ waiting' \subseteq waiting \cup {l}
      <4>1. \/ granted' = granted \cup {l} /\ waiting' = waiting \ {l}
            \/ granted' = granted /\ waiting' = waiting \cup {l}
        BY <2>1, <3>2, PolicyEffect, Zenon
      <4> QED
        BY <4>1, Zenon
    <3>6. PICK pc \in {"bl", "finish"} : \E N, rc :
            /\ Moves(t, pc, N, thr[t].cp, thr[t].out, FALSE, rc)
            /\ astSent' \ astSent \subseteq N /\ astSent \subseteq astSent'
            /\ pc = "finish" => rc = "granted"
            /\ pc = "bl" => rc = thr[t].rc /\ granted' = granted
      BY <2>1, <3>2, PolicyEffect, ZenonT(40)
    <3>7. PICK N, rc :
            /\ Moves(t, pc, N, thr[t].cp, thr[t].out, FALSE, rc)
            /\ astSent' \ astSent \subseteq N /\ astSent \subseteq astSent'
            /\ pc = "finish" => rc = "granted"
            /\ pc = "bl" => rc = thr[t].rc /\ granted' = granted
      BY <3>6, Zenon
    <3>8. Rest(t, thr'[t].restart, thr[t].ast)
      <4>1. ProcessEnqueue(t, l)
        BY <3>2, Zenon DEF Policy
      <4> QED
        BY <2>1, <4>1, GoOnRest, ScanRest, Zenon DEF ProcessEnqueue, Rest
    <3>9. Unfinished(t, l)'
      BY <3>1, <3>2, <3>7, Zenon DEF Unfinished, Enqueues, Moves
    <3>10. NoneEvicted'
      BY <3>3, EvictedKept, Zenon
    <3>11. ClientsCooperate'
      BY <2>1, <3>2, <3>3, <3>4, <3>5, CooperateKept, Zenon DEF Known
    <3>12. EnqueuesSucceed'
      BY <2>1, <3>3, <3>7, MovesEnqueues, Zenon
    <3>13. CallbacksArrive'
      <4> SUFFICES ASSUME NEW k \in granted' \cap astSent', ~ReplyComing(k)', ~BlAstComing(k)',
                          ~CpAstComing(k)'
                   PROVE  TellsOn(k)
        BY <2>1, <3>2, <3>5, CallbacksOn, Zenon
      <4>1. k \in astSent
        <5>1. k \notin thr'[t].bl
          BY Zenon DEF BlAstComing
        <5> QED
          BY <3>7, <5>1, Zenon DEF Moves
      <4>2. k \in granted
        <5>1. k # l
          BY <3>9, Zenon DEF ReplyComing, Unfinished
        <5> QED
          BY <3>5, <5>1, Zenon
      <4>3. Tells(t, k)
        BY <3>1, <3>2, <3>7, <3>8, <3>9, MovesTell, ZenonT(40) DEF Unfinished, Enqueues, Moves
      <4>4. \A u \in Thread : Tells(u, k) /\ (k \in thr[u].bl => BlAstComing(k)')
        BY <3>2, <3>7, <4>3, StillTells, Zenon DEF Moves
      <4> QED
        BY <3>3, <4>1, <4>2, <4>4, Zenon DEF TellsOn
    <3> QED
      BY <3>10, <3>11, <3>12, <3>13, Zenon DEF Comm
  <2> QED
    BY <2>2, <2>3, Zenon
\* A scan grants a lock no client has seen granted, and will tell it.
<1>12. ASSUME QueuePlaces, NEW t \in Thread, Reprocess(t)
       PROVE  Comm' /\ NoneEvicted'
  <2> USE <1>12
  <2>1. /\ EnqueuesSucceed /\ ClientsCooperate /\ CallbacksArrive /\ SInv /\ granted \subseteq Lock
        /\ waiting \subseteq Lock /\ waiting \cap destroyed = {} /\ granted \cap waiting = {}
        /\ Grantable \subseteq waiting
    BY SoundFacts, Zenon DEF Comm, SInv, ServerTypeOK, QueuePlaces, Grantable
  <2>2. /\ failed' = failed /\ tmr' = tmr /\ net' = net /\ thr[t].pc = "reproc"
        /\ granted' = granted \cup Grantable /\ waiting' = waiting \ Grantable
    BY Zenon DEF Reprocess, exports
  <2>3. thr[t].bl = {}
    BY <2>2, SoundFacts, Zenon DEF ThreadPhase
  <2>4. PICK pc \in {"bl", "cp"} : \E N :
          /\ Moves(t, pc, N, thr[t].cp \cup Grantable, thr[t].out, TRUE, thr[t].rc)
          /\ Rest(t, thr'[t].restart, thr[t].ast)
          /\ astSent' = astSent \cup N
    <3>1. CASE /\ Become(t, [thr[t] EXCEPT !.pc = "cp", !.rescan = TRUE, !.restart = FALSE,
                               !.cp = @ \cup Grantable])
               /\ astSent' = astSent
      <4>1. /\ Moves(t, "cp", thr[t].bl, thr[t].cp \cup Grantable, thr[t].out, TRUE, thr[t].rc)
            /\ Rest(t, thr'[t].restart, thr[t].ast)
        BY <2>1, <3>1, ScanEndMoves, ScanRest, Zenon DEF Rest
      <4> QED
        BY <2>3, <3>1, <4>1, Zenon
    <3>2. ASSUME NEW l \in FirstBlocked, NEW N, N = ToCallBack(Conflicts(l, granted \cup Grantable)),
                 AddBlWork(N, l),
                 Become(t, [thr[t] EXCEPT !.pc = "bl", !.bl = N, !.rescan = TRUE,
                               !.restart = FALSE, !.cp = @ \cup Grantable])
          PROVE  /\ Moves(t, "bl", N, thr[t].cp \cup Grantable, thr[t].out, TRUE, thr[t].rc)
                 /\ Rest(t, thr'[t].restart, thr[t].ast)
                 /\ astSent' = astSent \cup N
      <4>1. Moves(t, "bl", N, thr[t].cp \cup Grantable, thr[t].out, TRUE, thr[t].rc)
        BY <2>1, <3>2, ScanBlockMoves, Zenon
      <4>2. Rest(t, FALSE, thr[t].ast)
        BY <2>1, <3>2, ScanRest, Zenon
      <4> QED
        BY <3>2, <4>1, <4>2, Zenon DEF AddBlWork, Rest
    <3> QED
      BY <3>1, <3>2, Zenon DEF Reprocess
  <2>5. PICK N : /\ Moves(t, pc, N, thr[t].cp \cup Grantable, thr[t].out, TRUE, thr[t].rc)
                 /\ Rest(t, thr'[t].restart, thr[t].ast)
                 /\ astSent' = astSent \cup N
    BY <2>4, Zenon
  <2>6. NoneEvicted'
    BY <2>2, EvictedKept, Zenon
  <2>7. \A l \in Grantable : Known(l) /\ ~cl[l].granted /\ ~SeenGranted(l) /\ l \in Lock
    BY <2>1, SoundFacts, Zenon DEF ClientsCooperate
  <2>8. ClientsCooperate'
    <3>1. \A l \in granted' \ granted : cl[l].st # "gone"
      BY <2>2, <2>7, Zenon DEF Known
    <3> QED
      BY <2>1, <2>2, <3>1, CooperateKept, Zenon
  <2>9. EnqueuesSucceed'
    <3>1. ~(thr[t].ctx = "enq" /\ thr[t].rc = "error")
      BY <2>1, <2>2, Zenon DEF EnqueuesSucceed
    <3> QED
      BY <2>1, <2>2, <2>5, <3>1, MovesEnqueues, Zenon
  <2>10. \A k : ~Unfinished(t, k) /\ ~Unfinished(t, k)'
    BY <2>2, <2>5, Zenon DEF Unfinished, Moves
  <2>11. \A k : Tells(t, k)
    <3>1. \A k : k \in thr[t].cp => k \in thr[t].cp \cup Grantable
      BY Zenon
    <3> QED
      BY <2>5, <2>10, <3>1, MovesTell, Zenon
  <2>12. \A k : \A u \in Thread : Tells(u, k) /\ (k \in thr[u].bl => BlAstComing(k)')
    BY <2>3, <2>5, <2>11, StillTells, Zenon DEF Moves
  <2>13. CallbacksArrive'
    <3> SUFFICES ASSUME NEW k \in granted' \cap astSent', ~ReplyComing(k)', ~BlAstComing(k)',
                        ~CpAstComing(k)'
                 PROVE  TellsOn(k)
      BY <2>1, <2>2, CallbacksOn, Zenon
    <3>1. k \in astSent
      <4>1. k \notin thr'[t].bl
        BY Zenon DEF BlAstComing
      <4> QED
        BY <2>5, <4>1, Zenon DEF Moves
    <3>2. k \notin Grantable
      <4>1. SUFFICES ASSUME k \in Grantable PROVE FALSE
        OBVIOUS
      <4>2. k \in thr'[t].cp
        BY <2>5, <4>1, Zenon DEF Moves
      <4>3. ~ToldSilently(k)'
        <5>1. ~cl'[k].granted /\ ~SeenGranted(k)
          BY <2>7, <4>1, Zenon
        <5>2. \A u \in Thread : ~Silent(u, k)'
          BY <2>12, <5>1, Zenon DEF Tells, Silent, SeenGranted
        <5>3. ~\E m \in net' : /\ m.lock = k
                              /\ \/ m.type = "cp" /\ ~m.ast
                                 \/ m.type = "enqrep" /\ m.rc = "granted" /\ ~m.ast
          BY <2>2, <5>1, Zenon DEF SeenGranted
        <5> QED
          BY <5>1, <5>2, <5>3, Zenon DEF ToldSilently, Silent
      <4> QED
        BY <4>2, <4>3, Zenon DEF CpAstComing
    <3> QED
      BY <2>2, <2>12, <3>1, <3>2, Zenon DEF TellsOn
  <2> QED
    BY <2>6, <2>8, <2>9, <2>13, Zenon DEF Comm
<1>13. EnqueuesSucceed /\ ClientsCooperate /\ QueuePlaces
  BY Zenon DEF Comm, ServerQ
<1>14. ASSUME NEW t \in Thread, \/ ExportAddLock(t) \/ BlAstFini(t) \/ ReprocessBlDone(t) \/ CpDone(t)
      PROVE  Comm' /\ NoneEvicted'
  BY <1>14, <1>1, <1>2, <1>3, <1>9, Zenon
<1>15. ASSUME NEW t \in Thread, \/ LockEnqueue(t) \/ EnqueueBlDone(t) \/ EnqueueFinish(t) \/ Reprocess(t)
      PROVE  Comm' /\ NoneEvicted'
  BY <1>13, <1>15, <1>11, <1>10, <1>12, Zenon
<1>16. ASSUME NEW t \in Thread, NEW l \in Lock, BlAstSend(t, l) \/ CpAstSend(t, l)
      PROVE  Comm' /\ NoneEvicted'
  BY <1>13, <1>16, <1>7, <1>8, Zenon
<1>17. ASSUME NEW t \in Thread, NEW l \in Lock, HandleEnqueue(t, l) \/ HandleCancel(t, l)
      PROVE  Comm' /\ NoneEvicted'
  BY <1>13, <1>17, <1>6, <1>5, Zenon
<1>18. ASSUME NEW t \in Thread, NEW l \in Lock, NEW rc \in AstRc, AstReply(t, l, rc)
      PROVE  Comm' /\ NoneEvicted'
  BY <1>13, <1>18, <1>4, Zenon
<1>19. Comm' /\ NoneEvicted'
  BY <1>14, <1>15, <1>16, <1>17, <1>18, NoEviction, Zenon
     DEF ServerNext, ServerWork, ThreadStep, HandleRequest, AstAnswered
<1> QED
  BY <1>13, <1>19, ServerNextQueue, Zenon

\* No step of the server or of a client breaks the queue invariant.
LEMMA NextKeepsQueue == IndInv /\ ProtocolInv /\ QueueInv /\ [Next]_vars => QueueInv'
<1> SUFFICES ASSUME IndInv, ProtocolInv, QueueInv, [Next]_vars, NoFaults
             PROVE  Comm' /\ NoneEvicted' /\ ServerQ'
  BY Zenon DEF QueueInv, Comm, ServerQ
<1>1. Sound /\ Comm /\ ServerQ /\ QueuePlaces /\ SInv
  <2>1. Sound /\ Comm /\ ServerQ /\ QueuePlaces
    BY Zenon DEF QueueInv, Sound, Comm, ServerQ, IndInv, TypeInv, QInv
  <2> QED
    BY <2>1, SoundFacts, Zenon
<1>2. CASE ServerNext /\ UNCHANGED cvars
  <2>1. cl' = cl
    BY <1>2 DEF cvars
  <2> QED
    BY <1>1, <1>2, <2>1, ServerNextComm, Zenon
<1>3. ASSUME NEW l \in Lock, ClientStep(l), UNCHANGED svars
      PROVE  Comm' /\ NoneEvicted' /\ ServerQ'
  BY <1>1, <1>3, ClientStepComm, StillQuiet, Zenon
<1>4. CASE UNCHANGED vars
  <2>1. UNCHANGED svars /\ cl' = cl /\ net' = net
    BY <1>4 DEF vars, cvars
  <2>2. ServerQ'
    BY <1>1, <2>1, StillQuiet, Zenon
  <2>3. thr' = thr /\ granted' = granted /\ waiting' = waiting /\ astSent' = astSent
        /\ tmr' = tmr /\ failed' = failed
    BY <2>1 DEF svars, queues, astState, exports
  <2>4. NoneEvicted'
    BY <1>1, <2>1, <2>3, Zenon DEF Sound, NoneEvicted
  <2>5. EnqueuesSucceed' /\ ClientsCooperate'
    BY <1>1, <2>1, <2>3, Zenon
       DEF Comm, EnqueuesSucceed, Unanswered, Enqueues, ClientsCooperate, Known
  <2>6. CallbacksArrive'
    <3>1. \A l : ToldSilently(l)' => ToldSilently(l)
      BY <2>1, <2>3, Zenon DEF ToldSilently, Enqueues, Unfinished
    <3>2. \A l : CpAstComing(l) => CpAstComing(l)'
      BY <2>1, <2>3, <3>1, Zenon DEF CpAstComing
    <3>3. \A l : ReplyComing(l) => ReplyComing(l)'
      BY <2>1, <2>3, Zenon DEF ReplyComing, Enqueues, Unfinished
    <3>4. \A l : BlAstComing(l) => BlAstComing(l)'
      BY <2>1, <2>3, Zenon DEF BlAstComing
    <3> QED
      BY <1>1, <2>1, <2>3, <3>2, <3>3, <3>4, Zenon DEF Comm, CallbacksArrive
  <2> QED
    BY <2>2, <2>4, <2>5, <2>6, Zenon DEF Comm
<1> QED
  BY <1>1, <1>2, <1>3, <1>4, NoEviction, Zenon DEF Next

\* At the start nothing is queued.
LEMMA InitQueue == Init => QueueInv
<1> SUFFICES ASSUME Init, NoFaults
             PROVE  NoneEvicted /\ EnqueuesSucceed /\ ClientsCooperate /\ ServerQ /\ CallbacksArrive
  BY Zenon DEF QueueInv, ServerQ
<1>1. /\ granted = {} /\ waiting = {} /\ cbpending = {} /\ failed = {} /\ net = {}
      /\ \A l \in Lock : cl[l] = NewLock /\ tmr[l] = "off"
      /\ \A t \in Thread : thr[t] = Idle
  BY Zenon DEF Init, ServerInit, ClientInit
<1>2. /\ NewLock.st = "none" /\ ~NewLock.failed /\ ~NewLock.local
  BY Zenon DEF NewLock
<1>3. \A t \in Thread : thr[t].pc = "idle" /\ thr[t].bl = {} /\ thr[t].ctx = "none"
  BY <1>1, IdleRests, Zenon
<1>4. NoneEvicted
  BY <1>1, <1>2, Zenon DEF NoneEvicted
<1>5. EnqueuesSucceed
  BY <1>1, <1>3, Zenon DEF EnqueuesSucceed, Unanswered, Enqueues
<1>6. ClientsCooperate /\ CallbacksArrive
  BY <1>1, <1>2, Zenon DEF ClientsCooperate, CallbacksArrive, Known
<1>7. ServerQ
  BY <1>1, <1>3, Zenon DEF ServerQ, QueuePlaces, HeadBlocked, Head, CallsForWaiter, BlockersCalledBack
<1> QED
  BY <1>4, <1>5, <1>6, <1>7
=============================================================================

---------------------------- MODULE ExactlyOnce ----------------------------
(***************************************************************************)
(* What the recovery protocol promises, without messages, connections or   *)
(* restarts: an operation never takes effect twice; once it has been       *)
(* acknowledged its effect stays, unless its client is evicted; before     *)
(* that a crash may undo it.                                               *)
(***************************************************************************)
EXTENDS Integers

CONSTANTS
  Clients,    \* the clients
  Ops         \* what identifies an operation of a client

VARIABLES
  effect,     \* <<client, operation, n>>: the operation has taken effect for the n-th time
  acked,      \* [Clients -> the operations acknowledged to it]
  member      \* the clients that were not told that they were evicted

vars == <<effect, acked, member>>

Init ==
  /\ effect = {}
  /\ acked = [c \in Clients |-> {}]
  /\ member = Clients

\* Effects are lost: of operations nobody was told of, or of clients that are evicted.
Lose ==
  /\ effect' \subseteq effect
  /\ member' \subseteq member
  /\ \A e \in effect \ effect' : e[2] \in acked[e[1]] => e[1] \notin member'
  /\ UNCHANGED acked

Perform(c, x) ==
  /\ <<c, x, 1>> \notin effect
  /\ effect' = effect \cup {<<c, x, 1>>}
  /\ UNCHANGED <<acked, member>>

Acknowledge(c, x) ==
  /\ <<c, x, 1>> \in effect
  /\ acked' = [acked EXCEPT ![c] = @ \cup {x}]
  /\ UNCHANGED <<effect, member>>

Next ==
  \/ Lose
  \/ \E c \in Clients, x \in Ops : Perform(c, x) \/ Acknowledge(c, x)

Spec == Init /\ [][Next]_vars
=============================================================================

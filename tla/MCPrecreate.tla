---------------------------- MODULE MCPrecreate ----------------------------
(* ObjectPrecreate for TLC. *)
EXTENDS ObjectPrecreate, TLC

CONSTANTS t1, t2

CreatorSymmetry == Permutations(Creator)

\* InUseKept and IdsUnique without their exceptions, which the code does not keep:
\* the OST destroys no object in use (ofd_orphans_destroy), and no id is handed out
\* that is in use (osp_precreate_get_fid).
InUseAlwaysKept == [][Destroyed \intersect InUse = {}]_vars

IdsAlwaysUnique ==
  [][\A t \in Creator : creator[t].pc = "reserved" /\ creator'[t].pc = "taken"
                          => creator'[t].id \notin InUse]_vars

=============================================================================

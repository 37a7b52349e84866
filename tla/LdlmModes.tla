----------------------------- MODULE LdlmModes -----------------------------
(***************************************************************************)
(* The lock modes of the Lustre distributed lock manager (LDLM), their     *)
(* compatibility matrix, and when two inodebits (IBITS) locks on one       *)
(* resource conflict.                                                      *)
(***************************************************************************)

LdlmMode == {"EX", "PW", "PR", "CW", "CR", "NL", "GROUP", "COS"}

\* LCK_COMPAT_*: the modes an existing lock of the given mode tolerates.
LckCompat ==
    [EX    |-> {"NL"},
     PW    |-> {"NL", "CR"},
     PR    |-> {"NL", "CR", "PR"},
     CW    |-> {"NL", "CR", "CW"},
     CR    |-> {"NL", "CR", "PR", "CW", "PW"},
     NL    |-> {"NL", "CR", "PR", "CW", "PW", "EX", "GROUP"},
     GROUP |-> {"NL", "GROUP"},
     COS   |-> {"COS"}]

LockmodeCompat(exist, new) == new \in LckCompat[exist]

\* Two IBITS locks exclude each other when they share a bit and their modes
\* are not compatible.
InodebitsConflict(mode1, bits1, mode2, bits2) ==
    /\ ~LockmodeCompat(mode1, mode2)
    /\ bits1 \cap bits2 # {}
=============================================================================

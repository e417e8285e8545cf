------------------------- MODULE MCTaskGuardRestart -------------------------
(* One restart under three workers of one call each. *)
EXTENDS TaskGuardRestart, TLC

CONSTANTS w1, w2, w3, search

MCOps == {search}
MCBudgets == [o \in MCOps |-> 1]

MCSymmetry == Permutations(Workers)
=============================================================================

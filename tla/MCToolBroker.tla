---------------------------- MODULE MCToolBroker ----------------------------
(* Two or three hooks and an operator over a ledger with one unit of search. *)
EXTENDS ToolBroker, TLC

CONSTANTS h1, h2, h3, operator, search, followup

MCOps == {search, followup}
MCBudgetedOps == {search}
MCBudgets == [o \in MCBudgetedOps |-> 1]
MCWorkers == Hooks \cup {operator}
MCSymmetry == Permutations(Hooks)
=============================================================================

---------------------------- MODULE BudgetPool ----------------------------
(***************************************************************************)
(* What the budget ledger promises its users, with no file, lock, chain or *)
(* process in sight: a pool of units per operation. A unit is charged      *)
(* while the run is open and the operation has one left; each charge is    *)
(* resolved at most once, by keeping the unit or by refunding it.          *)
(* TaskGuard is shown to implement this specification.                     *)
(***************************************************************************)
EXTENDS Naturals, FiniteSets

CONSTANTS BudgetedOps, Budgets, Tickets

VARIABLES
  open,      \* the run still admits charges
  issued,    \* tickets handed out so far, each for one charge
  charged,   \* charged[o]: tickets that hold a unit of o
  pending    \* tickets whose outcome is not known yet

poolVars == <<open, issued, charged, pending>>

Init ==
  /\ open = TRUE
  /\ issued = {}
  /\ charged = [o \in BudgetedOps |-> {}]
  /\ pending = {}

Charge(o, t) ==
  /\ open
  /\ Cardinality(charged[o]) < Budgets[o]
  /\ t \notin issued
  /\ issued'  = issued \cup {t}
  /\ charged' = [charged EXCEPT ![o] = @ \cup {t}]
  /\ pending' = pending \cup {t}
  /\ UNCHANGED open

Keep(t) ==
  /\ t \in pending
  /\ pending' = pending \ {t}
  /\ UNCHANGED <<open, issued, charged>>

Refund(o, t) ==
  /\ t \in pending \cap charged[o]
  /\ pending' = pending \ {t}
  /\ charged' = [charged EXCEPT ![o] = @ \ {t}]
  /\ UNCHANGED <<open, issued>>

Close ==
  /\ open
  /\ open' = FALSE
  /\ UNCHANGED <<issued, charged, pending>>

Next ==
  \/ \E o \in BudgetedOps, t \in Tickets : Charge(o, t) \/ Refund(o, t)
  \/ \E t \in Tickets : Keep(t)
  \/ Close

Spec == Init /\ [][Next]_poolVars
=============================================================================

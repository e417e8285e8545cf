--------------------------- MODULE TaskGuardPool ---------------------------
(* The refinement mapping from the ledger to the pool of units it implements. *)
EXTENDS TaskGuard

CONSTANT Tickets   \* positions of the chain: Nat, or a bound no behaviour reaches

\* The reservations of ledger s, and those it has no outcome of.
Issued(s) == {n \in 1..Len(s.events) : s.events[n].kind = "RESERVED"}

Pending(s) ==
  {n \in Issued(s) :
     ~\E m \in 1..Len(s.events) :
        s.events[m].kind \in Outcomes /\ s.events[m].res = <<s.run, n>>}

Pool == INSTANCE BudgetPool WITH
  open    <- file.status = "OPEN",
  issued  <- Issued(file),
  charged <- [o \in BudgetedOps |-> Held(file, o)],
  pending <- Pending(file)

\* The ledger, with its processes, lock and crashes, is a pool of units: every
\* rename of a saved copy is one charge, refund, keep or close of BudgetPool, or
\* concerns no unit, and nothing else changes what the pool's users see.
ImplementsPool == Pool!Spec
=============================================================================

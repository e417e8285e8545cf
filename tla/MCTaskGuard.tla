---------------------------- MODULE MCTaskGuard ----------------------------
(* Small instances of TaskGuard: one budgeted operation and one that is not.   *)
(* Liveness is checked as well, so the three workers are told apart; instead,  *)
(* they begin in a fixed order, each when the one before it has left its first *)
(* wait for the lock. Nothing is lost by that: workers differ in name only,    *)
(* and Begin(w) changes what is w's own, which nobody reads, so it may as well *)
(* come just before the step that ends the wait. A process that dies outside a *)
(* call is one that makes no further call.                                     *)
EXTENDS TaskGuardPool, TLC

CONSTANTS w1, w2, w3, search, deploy

MCOps == {search, deploy}
MCBudgetedOps == {search}
MCBudgets1 == [o \in MCBudgetedOps |-> 1]
MCTickets == 2..7   \* every call of three workers appends at most two events

HasWaited(w) == calls[w] > 0 /\ ~(step[w] = "acquire" /\ phase[w] # "commit")
MayBegin(w) == (w = w2 => HasWaited(w1)) /\ (w = w3 => HasWaited(w2))

MCNext == \E w \in Workers :
  \/ MayBegin(w) /\ CallGuarded(w)
  \/ MayBegin(w) /\ CallClose(w)
  \/ MayBegin(w) /\ CallJournal(w)
  \/ Acquire(w) \/ LockTimeout(w)
  \/ Mutate(w) \/ Save(w) \/ Unlock(w)
  \/ Perform(w) \/ LeaveBody(w)
  \/ step[w] # "idle" /\ Crash(w)

MCSpec == Init /\ [][MCNext]_vars /\ Fairness
=============================================================================

CONSTANTS
  w1 = w1
  w2 = w2
  w3 = w3
  search = search
  Workers = {w1, w2, w3}
  NoWorker = NoWorker
  NoOp = NoOp
  Ops <- MCOps
  BudgetedOps <- MCOps
  Budgets <- MCBudgets
  MaxCalls = 1
  MaxStarts = 1
SYMMETRY MCSymmetry
SPECIFICATION RestartSpec
INVARIANT BudgetNeverExceeded
CHECK_DEADLOCK FALSE

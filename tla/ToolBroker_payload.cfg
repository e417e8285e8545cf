CONSTANTS
  h1 = h1
  h2 = h2
  h3 = h3
  operator = operator
  search = search
  followup = followup
  Hooks = {h1, h2}
  Workers <- MCWorkers
  NoWorker = NoWorker
  NoOp = NoOp
  Ops <- MCOps
  BudgetedOps <- MCBudgetedOps
  Budgets <- MCBudgets
  WriteTool = WriteTool
  OtherTool = OtherTool
  MaxCalls = 2
SPECIFICATION BSpec
INVARIANT ExecutedWithinBudget
CHECK_DEADLOCK FALSE

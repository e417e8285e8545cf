CONSTANTS
  w1 = w1
  w2 = w2
  w3 = w3
  search = search
  deploy = deploy
  Workers = {w1, w2, w3}
  NoWorker = NoWorker
  NoOp = NoOp
  Ops <- MCOps
  BudgetedOps <- MCBudgetedOps
  Budgets <- MCBudgets1
  MaxCalls = 1
  Tickets <- MCTickets
SPECIFICATION MCSpec
INVARIANTS
  TypeOK
  BudgetNeverExceeded
  FileAttests
  RunsUnderReservation
  SettledOnce
  NoReservationAfterClose
PROPERTIES
  ChainGrowsByOne
  ImplementsPool
  LockIsFreed
  ReservationIsSettled
CHECK_DEADLOCK FALSE

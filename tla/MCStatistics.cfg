CONSTANTS
  Callers = {c1, c2}
  Broker = broker
  Retries = 2
  MaxElapsed = 1
  MaxOrders = 1
  MaxActions = 2
  MaxReports = 2
SYMMETRY Symmetry
SPECIFICATION Spec
INVARIANTS ReportsBalance FewCountsAreLost
CHECK_DEADLOCK FALSE

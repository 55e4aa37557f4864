SPECIFICATION Spec
CONSTANTS
  m_max_statistics = 2
  m_sliding_window_statistics = 2
  MaxTime = 2
  Consumers = {c1, c2}
  Second = 1
  DefaultRate = 2
  DefaultPeriod = 1
  Rates = {0, 1, 4}
  Periods = {2}
  Costs = {1, 3}
  MaxDebt = 0
  MaxSettings = 1
  MaxStored = 4
INVARIANTS
  TokensNotOverdrawn
  PaysItsCost
  ReportedInOrder
PROPERTIES
  ConsumerReturns
CHECK_DEADLOCK FALSE

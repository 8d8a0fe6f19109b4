SPECIFICATION Spec
CONSTANTS
  r1 = r1
  r2 = r2
  r3 = r3
  t1 = t1
  w1 = w1
  w2 = w2
  Entries = {1, 2, 3, 4}
  Cost <- MCCost
  Allowance <- MCAllowance
  Late = {1, 2, 3, 4}
  FirstPlans = {"starter", "pro"}
  Reconcilers = {r1, r2, r3}
  Retriers = {}
  Workers = {}
  RetryLimit = 1
  MaxFaults = 0
CHECK_DEADLOCK FALSE
INVARIANTS
  RowsMatchOverage

SPECIFICATION FairSpec
CONSTANTS
  r1 = r1
  r2 = r2
  r3 = r3
  t1 = t1
  w1 = w1
  w2 = w2
  Entries = {1}
  Cost <- MCOneCost
  Allowance <- MCAllowance
  Late = {}
  FirstPlans = {"pro"}
  Reconcilers = {r1, r2}
  Retriers = {t1}
  Workers = {w1, w2}
  RetryLimit = 1
  MaxFaults = 3
CHECK_DEADLOCK FALSE
INVARIANTS
  MeterInv
  BilledOnce
  OneSender
PROPERTIES
  SentIsFinal
  SubmissionsSettle

SPECIFICATION FairSpec
CONSTANTS
  e1 = e1
  c1 = c1
  c2 = c2
  p1 = p1
  w1 = w1
  w2 = w2
  NoDelivery = NoDelivery
  Events = {e1}
  Calls = {c1, c2}
  Endpoints = {p1}
  Workers = {w1, w2}
  RetryLimit = 2
  MaxChanges = 2
  MaxFaults = 2
CHECK_DEADLOCK FALSE
INVARIANTS
  DeliveryInv
  DeletionCancels
  RecordMatchesEndpoint
PROPERTIES
  SettledIsFinal
  DeliveriesSettle

SPECIFICATION FairSpec
CONSTANTS
  starter = starter
  pro = pro
  h1 = h1
  h2 = h2
  NoPlan = NoPlan
  Plans = {starter, pro}
  Handlers = {h1, h2}
  Upgrades = {pro}
  Outcomes = {"active", "canceled"}
  MaxChanges = 3
  MaxFaults = 1
CHECK_DEADLOCK FALSE
INVARIANTS
  SyncInv
  PaidIsServed
PROPERTIES
  EventsSettle

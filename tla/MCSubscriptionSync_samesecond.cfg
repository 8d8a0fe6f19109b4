SPECIFICATION Spec
CONSTANTS
  starter = starter
  pro = pro
  h1 = h1
  h2 = h2
  NoPlan = NoPlan
  Plans = {starter, pro}
  Handlers = {h1, h2}
  Upgrades = {pro}
  Outcomes = {"active", "past_due", "canceled"}
  MaxChanges = 3
  MaxFaults = 0
CHECK_DEADLOCK FALSE
INVARIANTS
  RowConverges

SPECIFICATION Spec
CONSTANTS
  r1 = r1
  r2 = r2
  Requests = {r1, r2}
  NoRequest = NoRequest
  Plans = {"free", "starter", "pro"}
  Included <- MCIncluded
  Overage <- MCOverage
  Reservation = 2
  Costs = {0, 1, 3}
  LastPeriod = 1
  MaxFaults = 0
INVARIANTS
  DenialAfterGrant

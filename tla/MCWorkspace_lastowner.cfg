SPECIFICATION Spec
CONSTANTS
  Users = {u1, u2}
  Plans = {"free", "starter"}
  SeatLimit <- Seats
  TeamCalls = {c1, c2}
  NoUser = NoUser
  MaxTeamCalls = 2
  Keys = {k1}
  NoKey = NoKey
  KeyCalls = {m1}
  MaxKeyCalls = 0
  Requests = {q1}
  Conversations = {x1}
  NoConversation = NoConversation
  RequestLimit <- MonthlyRequests
  PerMinute = 1
  Minute = 1
  Month = 2
  MaxTime = 0
  MaxEdits = 0
  MaxWork = 3
  MaxBusy = 1
INVARIANT
  OwnerKept
CHECK_DEADLOCK FALSE

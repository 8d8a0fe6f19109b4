SPECIFICATION Spec
CONSTANTS
  Users = {u1, u2, u3}
  Plans = {"free", "starter"}
  SeatLimit <- Seats
  TeamCalls = {c1, c2}
  NoUser = NoUser
  MaxTeamCalls = 4
  Keys = {k1, k2, k3}
  NoKey = NoKey
  KeyCalls = {m1, m2}
  MaxKeyCalls = 4
  Requests = {q1, q2, q3}
  Conversations = {x1, x2}
  NoConversation = NoConversation
  RequestLimit <- MonthlyRequests
  PerMinute = 1
  Minute = 1
  Month = 2
  MaxTime = 3
  MaxEdits = 1
  MaxWork = 5
  MaxBusy = 1
SYMMETRY Symmetric
INVARIANTS
  TypeOK
  SeatExcessIsRaced
  OneActiveKey
  QuotaHolds
  ConversationsAreWhole
PROPERTY
  RevocationIsFinal
CHECK_DEADLOCK FALSE

SPECIFICATION FairSpec
CONSTANTS
  f1 = f1
  f2 = f2
  f3 = f3
  c1 = c1
  c2 = c2
  c3 = c3
  w1 = w1
  w2 = w2
  j1 = j1
  j2 = j2
  j3 = j3
  Nobody = Nobody
  Files = {f1}
  Calls = {c1, c2}
  Workers = {w1, w2}
  Jobs = {j1, j2}
  Sizes = {1, 2}
  Plans = {"free"}
  FileLimit <- MCFileLimit
  ByteLimit <- MCByteLimit
  RetryLimit = 1
  MaxPuts = 2
  MaxFaults = 1
CHECK_DEADLOCK FALSE
INVARIANTS
  TypeOK
  IndexFollowsStatus
  IndexIsValidated
  UploadNotForgotten
  JobsFollowCompletion
PROPERTIES
  DeletedIsFinal
  ProcessingEnds

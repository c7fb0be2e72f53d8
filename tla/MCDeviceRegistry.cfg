SPECIFICATION FairSpec
CONSTANTS
  Requests = {r1, r2}
  Tokens = {t1, t2}
  Users = {u1, u2}
  NoUser = NoUser
  UUIDs = {x1}
  NoUUID = NoUUID
  NoOne = NoOne
  Inputs <- AttributedInputs
INVARIANTS TypeOK OneActivePerPhysicalDevice
PROPERTIES Answered StaleOnlyWithSuccessor

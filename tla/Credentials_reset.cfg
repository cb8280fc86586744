SPECIFICATION Spec
CONSTANTS
  Users = {u1}
  Subs = {s1, s2}
  Tokens = {p1, p2}
  Resets = {k1}
  Requests = {r1, r2}
  Ops <- OpsLocking
  NameChanges = FALSE
  MAX_ACTIVE_PER_USER = 1
  MaxEpoch = 3
  NoUser = NoUser
  NoSub = NoSub
  NoToken = NoToken
  NoReset = NoReset
  NoReq = NoReq
SYMMETRY Symmetry
INVARIANTS TypeOK NoWayBack SessionsOfBinding SomeAuthMethod TokenCap NoLockCycle
PROPERTIES EpochMovesWithBinding ResetSingleUse

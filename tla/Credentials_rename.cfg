SPECIFICATION Spec
CONSTANTS
  Users = {u1}
  Subs = {s1, s2}
  Tokens = {}
  Resets = {}
  Requests = {r1, r2}
  Ops <- OpsRename
  NameChanges = TRUE
  MAX_ACTIVE_PER_USER = 1
  MaxEpoch = 2
  NoUser = NoUser
  NoSub = NoSub
  NoToken = NoToken
  NoReset = NoReset
  NoReq = NoReq
SYMMETRY Symmetry
INVARIANTS SessionsOfBinding

SPECIFICATION FairSpec
CONSTANTS
  Users = {u1, u2}
  Subs = {s1}
  Tokens = {p1}
  Resets = {k1}
  Requests = {r1, r2}
  Ops <- OpsAccounts
  NameChanges = TRUE
  MAX_ACTIVE_PER_USER = 1
  MaxEpoch = 1
  NoUser = NoUser
  NoSub = NoSub
  NoToken = NoToken
  NoReset = NoReset
  NoReq = NoReq
INVARIANTS CredentialsOfLiveUsers
PROPERTIES RequestsEnd
CHECK_DEADLOCK FALSE

------------------------- MODULE CredentialsProofs -------------------------
(***************************************************************************)
(* Proofs about Credentials, for every set of users, identities, tokens    *)
(* and requests.                                                           *)
(*                                                                         *)
(* The properties of Credentials speak of committed rows.  What makes them *)
(* hold is what every request in flight knows, so the inductive invariant  *)
(* is mostly about requests.  RowInv holds of every instance; TenureInv    *)
(* adds who holds what, and needs Google names that do not change (see     *)
(* google_login_update_name).                                              *)
(***************************************************************************)
EXTENDS Credentials, FiniteSetTheorems, TLAPS

----------------------------------------------------------------------------
\* The row lock and what it protects.

\* A request with record q is between lock_user and its commit.
Holds(q) ==
  q.pc \in {"locked", "counted"} \/ (q.pc = "swept" /\ q.op = "google")

\* The shape of a request: which operation is at which step, with which inputs.
ShapeOK(q) ==
  /\ q.pc # "idle" => q.op \in AllOps /\ q.user \in Users
  /\ q.pc = "idle" => q.op = "none"
  /\ q.pc = "locked" => q.op \in LockOps
  /\ q.pc = "counted" => q.op = "mint"
  /\ q.pc = "swept" => q.op \in {"google", "delete"}
  /\ q.op = "google" => q.sub \in Subs
  /\ (q.pats # {} \/ q.resets # {}) => q.pc = "swept"
  /\ q.op \in {"revoke", "admin_revoke"} => q.pc = "read" /\ q.tok \in Tokens
  /\ q.op = "reset_confirm" => q.rtok \in Resets
  /\ \A t \in q.pats : pat[t].state # "absent" /\ pat[t].owner = q.user
  /\ \A t \in q.resets : reset[t].state # "absent" /\ reset[t].owner = q.user
  /\ q.tok # NoToken => pat[q.tok].state # "absent" /\ pat[q.tok].owner = q.user
  /\ q.rtok # NoReset => reset[q.rtok].state # "absent" /\ reset[q.rtok].owner = q.user

\* What the re-validation of r established still holds when its write happens.
HeldOK(r, q) ==
  Holds(q) =>
    /\ lock[q.user] = r
    /\ Live(q.user)
    /\ q.op = "reset_confirm" => reset[q.rtok].state \in {"unused", "expired"}
    /\ q.op = "unbind" => password[q.user] # NoPassword /\ google_sub[q.user] # NoSub
    /\ q.op = "google" => google_sub[q.user] = NoSub
    /\ q.pc = "swept" => /\ ActivePats(q.user) \subseteq q.pats
                         /\ UnusedResets(q.user) \subseteq q.resets

\* A row of api_tokens or password_reset_tokens has an owner.
OwnerInv ==
  /\ \A t \in Tokens : pat[t].state # "absent" <=> pat[t].owner \in Users
  /\ \A t \in Resets : reset[t].state # "absent" <=> reset[t].owner \in Users

\* A users row that is locked is locked by a request that works on it.
LockInv ==
  \A u \in Users : lock[u] # NoReq => Holds(req[lock[u]]) /\ req[lock[u]].user = u

RowInv ==
  /\ TypeOK
  /\ OwnerInv
  /\ LockInv
  /\ \A r \in Requests : ShapeOK(req[r]) /\ HeldOK(r, req[r])
  /\ SomeAuthMethod
  /\ CredentialsOfLiveUsers

\* Action formulas: a child row keeps its identity, and nobody else's commit is
\* visible in row v.
ChildrenStay ==
  /\ \A t \in Tokens : pat[t].state # "absent" =>
       /\ pat'[t].state # "absent"
       /\ pat'[t].owner = pat[t].owner /\ pat'[t].tenure = pat[t].tenure
  /\ \A t \in Resets : reset[t].state # "absent" =>
       /\ reset'[t].state # "absent"
       /\ reset'[t].owner = reset[t].owner /\ reset'[t].tenure = reset[t].tenure

Untouched(v) ==
  /\ status'[v] = status[v] /\ password'[v] = password[v]
  /\ google_sub'[v] = google_sub[v]
  /\ session_epoch'[v] = session_epoch[v] /\ tenure'[v] = tenure[v]
  /\ \A t \in Tokens :
       (pat'[t].owner = v /\ pat'[t].state \in {"active", "expired"}) =>
         pat[t].owner = v /\ pat[t].state \in {"active", "expired"}
  /\ \A t \in Resets :
       (reset'[t].owner = v /\ reset'[t].state \in {"unused", "expired"}) =>
         reset[t].owner = v /\ reset[t].state \in {"unused", "expired"}
  /\ \A t \in Resets :
       (reset[t].owner = v /\ reset[t].state \in {"unused", "expired"}) =>
         reset'[t].state \in {"unused", "expired"}

----------------------------------------------------------------------------
\* The idle record, and the shared beginning and end of a request, are well typed.
LEMMA IdleReqType == IdleReq \in Req /\ ShapeOK(IdleReq) /\ ~Holds(IdleReq)
  BY DEF IdleReq, Req, ShapeOK, Holds

LEMMA EndType ==
  ASSUME TypeOK, NEW r \in Requests, End(r)
  PROVE  req' \in [Requests -> Req] /\ lock' \in [Users -> Requests \cup {NoReq}]
  BY IdleReqType DEF TypeOK, End

LEMMA BeginType ==
  ASSUME TypeOK, NEW r \in Requests, NEW rec \in Req, Begin(r, rec)
  PROVE  TypeOK'
  BY DEF TypeOK, Begin, row

\* Each step keeps every variable in its type.
LEMMA TypeStep == RowInv /\ [Next]_vars => TypeOK'
<1> SUFFICES ASSUME RowInv, [Next]_vars PROVE TypeOK'
  OBVIOUS
<1> USE ConstantsAssumption
<1> TypeOK
  BY DEF RowInv
<1>1. ASSUME NEW u \in Users, post_register(u) PROVE TypeOK'
  BY <1>1 DEF TypeOK, post_register, JwtFor, Jwt
<1>2. ASSUME NEW u \in Users, post_token(u) PROVE TypeOK'
  BY <1>2 DEF TypeOK, post_token, JwtFor, Jwt, row, NoPassword
<1>3. ASSUME NEW t \in Tokens, ExpirePat(t) PROVE TypeOK'
  BY <1>3, SMTT(30) DEF TypeOK, ExpirePat, row, Pat, PatState
<1>4. ASSUME NEW t \in Resets, ExpireReset(t) PROVE TypeOK'
  BY <1>4 DEF TypeOK, ExpireReset, row, Reset, ResetState
<1>5. ASSUME NEW r \in Requests, Start(r) PROVE TypeOK'
  <2>1. ASSUME NEW op \in {"patch_me", "mint"}, NEW j \in jwts, AuthenticateJwt(r, op, j)
        PROVE TypeOK'
    BY <2>1, BeginType, ZenonT(60) DEF TypeOK, AuthenticateJwt, IdleReq, Req, Jwt, AllOps
  <2>2. ASSUME NEW op \in {"patch_me", "mint"}, NEW t \in Tokens, AuthenticatePat(r, op, t)
        PROVE TypeOK'
    BY <2>2, BeginType, ZenonT(60) DEF TypeOK, AuthenticatePat, IdleReq, Req, Pat, AllOps
  <2>3. ASSUME NEW u \in Users, issue_reset_token_read(r, u) PROVE TypeOK'
    BY <2>3, BeginType, ZenonT(60) DEF TypeOK, issue_reset_token_read, IdleReq, Req, AllOps
  <2>4. ASSUME NEW t \in Resets, confirm_reset_read(r, t) PROVE TypeOK'
    BY <2>4, BeginType DEF TypeOK, confirm_reset_read, IdleReq, Req, Reset, AllOps
  <2>5. ASSUME NEW u \in Users, google_login(r, u) PROVE TypeOK'
    BY <2>5 DEF TypeOK, google_login, JwtFor, Jwt, row
  <2>6. ASSUME NEW u \in Users, google_login_read(r, u) PROVE TypeOK'
    BY <2>6, BeginType, ZenonT(60) DEF TypeOK, google_login_read, IdleReq, Req, AllOps
  <2>7. ASSUME NEW u \in Users, NEW s \in Subs, google_bind_read(r, u, s) PROVE TypeOK'
    BY <2>7, BeginType DEF TypeOK, google_bind_read, IdleReq, Req, AllOps
  <2>8. ASSUME NEW u \in Users, NEW s \in Subs, google_create(r, u, s) PROVE TypeOK'
    BY <2>8 DEF TypeOK, google_create, JwtFor, Jwt
  <2>9. ASSUME NEW u \in Users, unbind_begin(r, u) PROVE TypeOK'
    BY <2>9, BeginType DEF TypeOK, unbind_begin, IdleReq, Req, AllOps
  <2>10. ASSUME NEW u \in Users, hard_delete(r, u) PROVE TypeOK'
    BY <2>10, BeginType DEF TypeOK, hard_delete, IdleReq, Req, AllOps
  <2>11. ASSUME NEW op \in {"revoke", "admin_revoke"}, NEW t \in Tokens, revoke_read(r, op, t)
         PROVE TypeOK'
    BY <2>11, BeginType DEF TypeOK, revoke_read, IdleReq, Req, Pat, AllOps
  <2> QED
    BY <1>5, <2>1, <2>2, <2>3, <2>4, <2>5, <2>6, <2>7, <2>8, <2>9, <2>10, <2>11 DEF Start
<1>6. ASSUME NEW r \in Requests, Step(r) PROVE TypeOK'
  <2> DEFINE q == req[r]
  <2>0. q \in Req /\ ShapeOK(q)
    BY DEF TypeOK, RowInv
  <2>a. q.pc # "idle" => q.user \in Users
    BY <2>0 DEF ShapeOK
  <2>b. /\ q.ses \in Nat /\ q.tenure \in Nat
        /\ q.sub \in Subs \cup {NoSub} /\ q.pats \subseteq Tokens /\ q.resets \subseteq Resets
    BY <2>0 DEF Req
  <2>1. CASE LockAndGoOn(r)
    BY <2>1, <2>0 DEF TypeOK, LockAndGoOn, lock_user, row, Req
  <2>2. CASE LockAndGiveUp(r)
    BY <2>2, EndType DEF TypeOK, LockAndGiveUp, row
  <2>3. CASE LockAndLogin(r)
    BY <2>3, <2>a, <2>b, EndType DEF TypeOK, LockAndLogin, lock_user, JwtFor, Jwt, row
  <2>4. CASE patch_me(r)
    BY <2>4, <2>b, EndType DEF TypeOK, patch_me
  <2>5. CASE mint_count(r)
    BY <2>5, <2>0, ZenonT(60) DEF TypeOK, mint_count, row, Req
  <2>6. CASE mint_refused(r)
    BY <2>6, EndType DEF TypeOK, mint_refused, row
  <2>7. ASSUME NEW t \in Tokens, mint(r, t) PROVE TypeOK'
    BY <2>7, <2>a, <2>b, EndType DEF TypeOK, mint, row, Pat, PatState
  <2>8. ASSUME NEW t \in Resets, issue_reset_token(r, t) PROVE TypeOK'
    BY <2>8, <2>a, <2>b, EndType DEF TypeOK, issue_reset_token, Holding, row, Reset, ResetState
  <2>9. CASE confirm_reset(r)
    <3>1. reset' \in [Resets -> Reset]
      BY <2>9, <2>0 DEF TypeOK, confirm_reset, Holding, ShapeOK, Reset, ResetState
    <3> QED
      BY <2>9, <3>1, <2>b, EndType DEF TypeOK, confirm_reset
  <2>10. CASE bind_google_identity(r)
    BY <2>10, <2>0, ZenonT(60) DEF TypeOK, bind_google_identity, ActivePats, UnusedResets, row, Req
  <2>11. CASE bind_google_identity_conflict(r)
    BY <2>11, EndType DEF TypeOK, bind_google_identity_conflict, row
  <2>12. CASE bind_google_identity_commit(r)
    <3>1. q.user \in Users
      BY <2>12, <2>a DEF bind_google_identity_commit
    <3>2. jwts' \subseteq Jwt
      BY <2>12, <3>1, <2>b DEF TypeOK, bind_google_identity_commit, JwtFor, Jwt
    <3>3. pat' \in [Tokens -> Pat] /\ reset' \in [Resets -> Reset]
      BY <2>12, SMTT(30) DEF TypeOK, bind_google_identity_commit, Pat, PatState, Reset, ResetState
    <3> QED
      BY <2>12, <3>1, <3>2, <3>3, <2>b, EndType DEF TypeOK, bind_google_identity_commit
  <2>13. CASE unbind_google_identity(r)
    BY <2>13, <2>a, EndType DEF TypeOK, unbind_google_identity, Holding
  <2>14. CASE google_login_update_name(r)
    BY <2>14, <2>a, <2>b, EndType DEF TypeOK, google_login_update_name, JwtFor, Jwt, row
  <2>15. CASE hard_delete_commit(r)
    <3>1. pat' \in [Tokens -> Pat] /\ reset' \in [Resets -> Reset]
      BY <2>15 DEF TypeOK, hard_delete_commit, DeleteRow, Pat, PatState, Reset, ResetState
    <3> QED
      BY <2>15, <3>1, EndType DEF TypeOK, hard_delete_commit, DeleteRow
  <2>16. CASE revoke(r)
    <3>1. q.tok \in Tokens
      BY <2>16, <2>0 DEF revoke, ShapeOK
    <3>2. pat' \in [Tokens -> Pat]
      BY <2>16, <3>1 DEF TypeOK, revoke, Pat, PatState
    <3>3. revokeEvents' \in [Tokens -> Nat]
      BY <2>16, <3>1 DEF TypeOK, revoke
    <3> QED
      BY <2>16, <3>2, <3>3, EndType DEF TypeOK, revoke, row
  <2> QED
    BY <1>6, <2>1, <2>2, <2>3, <2>4, <2>5, <2>6, <2>7, <2>8, <2>9, <2>10, <2>11, <2>12,
       <2>13, <2>14, <2>15, <2>16 DEF Step
<1>7. ASSUME NEW r \in Requests, Abort(r) PROVE TypeOK'
  BY <1>7, EndType DEF TypeOK, Abort, row
<1>8. CASE UNCHANGED vars
  BY <1>8, SMTT(30) DEF TypeOK, vars
<1> QED
  BY <1>1, <1>2, <1>3, <1>4, <1>5, <1>6, <1>7, <1>8 DEF Next

----------------------------------------------------------------------------
\* Requests that start write no row.
LEMMA StartFrame ==
  ASSUME NEW r \in Requests, Start(r)
  PROVE  /\ UNCHANGED <<pat, reset, lock, revokeEvents, session_epoch, tenure, password>>
         /\ req[r].pc = "idle"
         /\ \/ UNCHANGED <<status, google_sub>>
            \/ \E u \in Users, s \in Subs : google_create(r, u, s)
  BY ZenonT(60) DEF Start, AuthenticateJwt, AuthenticatePat, issue_reset_token_read, confirm_reset_read,
         google_login, google_login_read, google_bind_read, google_create, unbind_begin,
         hard_delete, revoke_read, Begin, row

\* The steps that end a request without writing a row.
QuietStep(r) ==
  \/ LockAndGoOn(r) \/ LockAndGiveUp(r) \/ LockAndLogin(r) \/ mint_count(r) \/ mint_refused(r)
  \/ bind_google_identity(r) \/ bind_google_identity_conflict(r)
  \/ google_login_update_name(r) \/ Abort(r)

LEMMA QuietFrame ==
  ASSUME NEW r \in Requests, QuietStep(r)
  PROVE  UNCHANGED <<row, pat, reset, revokeEvents>>
  BY DEF QuietStep, LockAndGoOn, LockAndGiveUp, LockAndLogin, mint_count, mint_refused,
         bind_google_identity, bind_google_identity_conflict, google_login_update_name, Abort

\* A token or a reset link keeps its owner and the holder it came from.
LEMMA ChildrenStayStep == RowInv /\ [Next]_vars => ChildrenStay
<1> SUFFICES ASSUME RowInv, [Next]_vars PROVE ChildrenStay
  OBVIOUS
<1> USE DEF ChildrenStay
<1> TypeOK
  BY DEF RowInv
<1>0. ASSUME UNCHANGED <<pat, reset>> PROVE ChildrenStay
  BY <1>0
<1>1. ASSUME NEW u \in Users, post_register(u) \/ post_token(u) PROVE ChildrenStay
  BY <1>0, <1>1 DEF post_register, post_token
<1>3. ASSUME NEW t \in Tokens, ExpirePat(t) PROVE ChildrenStay
  BY <1>3 DEF TypeOK, Pat, ExpirePat
<1>4. ASSUME NEW t \in Resets, ExpireReset(t) PROVE ChildrenStay
  BY <1>4 DEF TypeOK, Reset, ExpireReset
<1>5. ASSUME NEW r \in Requests, Start(r) PROVE ChildrenStay
  BY <1>0, <1>5, StartFrame
<1>6. ASSUME NEW r \in Requests, QuietStep(r) PROVE ChildrenStay
  BY <1>0, <1>6, QuietFrame
<1>7. ASSUME NEW r \in Requests, Step(r) PROVE ChildrenStay
  <2>1. CASE patch_me(r) \/ unbind_google_identity(r)
    BY <1>0, <2>1 DEF patch_me, unbind_google_identity
  <2>2. ASSUME NEW t \in Tokens, mint(r, t) PROVE ChildrenStay
    BY <2>2 DEF TypeOK, mint
  <2>3. ASSUME NEW t \in Resets, issue_reset_token(r, t) PROVE ChildrenStay
    BY <2>3 DEF TypeOK, issue_reset_token
  <2>4. CASE confirm_reset(r)
    BY <2>4 DEF TypeOK, Reset, confirm_reset
  <2>5. CASE bind_google_identity_commit(r)
    BY <2>5 DEF TypeOK, Pat, Reset, bind_google_identity_commit
  <2>6. CASE hard_delete_commit(r)
    BY <2>6 DEF TypeOK, Pat, Reset, hard_delete_commit, DeleteRow
  <2>7. CASE revoke(r)
    BY <2>7 DEF TypeOK, Pat, revoke
  <2> QED
    BY <1>7, <1>6, <2>1, <2>2, <2>3, <2>4, <2>5, <2>6, <2>7 DEF Step, QuietStep
<1>8. ASSUME NEW r \in Requests, Abort(r) PROVE ChildrenStay
  BY <1>8, <1>6 DEF QuietStep
<1>9. CASE UNCHANGED vars
  BY <1>0, <1>9 DEF vars
<1> QED
  BY <1>1, <1>3, <1>4, <1>5, <1>7, <1>8, <1>9 DEF Next

\* The users row lock protects its holder: while p is between lock_user and its
\* commit, no step of another request changes the row it locked, brings a token or
\* a reset link of that user to life, or uses up or deletes one of its reset links.
LEMMA RowLockProtects ==
  ASSUME RowInv, [Next]_vars, NEW p \in Requests, Holds(req[p]), req'[p] = req[p]
  PROVE  Untouched(req[p].user)
<1> DEFINE v == req[p].user
<1> USE ConstantsAssumption
<1>a. TypeOK /\ v \in Users /\ lock[v] = p /\ lock[v] # NoReq /\ Live(v)
  BY DEF RowInv, ShapeOK, HeldOK, Holds
<1>b. \A r \in Requests \ {p} : Holds(req[r]) => req[r].user # v
  BY <1>a DEF RowInv, HeldOK
<1>c. \A r \in Requests : req'[r] = IdleReq => r # p
  BY DEF Holds, IdleReq
<1>d. \A r \in Requests : End(r) => r # p
  BY <1>a, <1>c DEF End, TypeOK
<1> HIDE DEF v
<1>0. ASSUME UNCHANGED <<row, pat, reset>> PROVE Untouched(v)
  BY <1>0 DEF Untouched, row
<1>1. ASSUME NEW u \in Users, post_register(u) \/ post_token(u) PROVE Untouched(v)
  BY <1>1, <1>a DEF post_register, post_token, Untouched, row, Live, TypeOK
<1>3. ASSUME NEW t \in Tokens, ExpirePat(t) PROVE Untouched(v)
  BY <1>3, <1>a DEF TypeOK, Pat, ExpirePat, Untouched, row
<1>4. ASSUME NEW t \in Resets, ExpireReset(t) PROVE Untouched(v)
  BY <1>4, <1>a DEF TypeOK, Reset, ExpireReset, Untouched, row
<1>5. ASSUME NEW r \in Requests, Start(r) PROVE Untouched(v)
  <2>1. ASSUME NEW u \in Users, NEW s \in Subs, google_create(r, u, s) PROVE Untouched(v)
    BY <2>1, <1>a DEF google_create, Untouched, Live, TypeOK
  <2> QED
    BY <2>1, <1>0, <1>5, StartFrame DEF row
<1>6. ASSUME NEW r \in Requests, QuietStep(r) PROVE Untouched(v)
  BY <1>0, <1>6, QuietFrame
<1>7. ASSUME NEW r \in Requests, Step(r) PROVE Untouched(v)
  <2>0. ShapeOK(req[r]) /\ HeldOK(r, req[r])
    BY DEF RowInv
  <2>1. CASE patch_me(r)
    BY <2>1, <1>a, <1>b, <1>d DEF patch_me, Holding, Holds, Untouched, TypeOK
  <2>2. ASSUME NEW t \in Tokens, mint(r, t) PROVE Untouched(v)
    BY <2>2, <1>a, <1>b, <1>d DEF mint, Holds, Untouched, TypeOK, row
  <2>3. ASSUME NEW t \in Resets, issue_reset_token(r, t) PROVE Untouched(v)
    BY <2>3, <1>a, <1>b, <1>d DEF issue_reset_token, Holding, Holds, Untouched, TypeOK, row
  <2>4. CASE confirm_reset(r)
    <3>1. r # p /\ req[r].user # v /\ req[r].rtok \in Resets /\ reset[req[r].rtok].owner # v
      BY <2>4, <2>0, <1>b, <1>d, <1>a DEF confirm_reset, Holding, Holds, ShapeOK
    <3> QED
      BY <2>4, <3>1, <1>a DEF confirm_reset, Untouched, TypeOK, Reset
  <2>5. CASE bind_google_identity_commit(r)
    <3>1. /\ r # p /\ req[r].user # v
          /\ \A t \in req[r].pats : pat[t].owner # v
          /\ \A t \in req[r].resets : reset[t].owner # v
      BY <2>5, <2>0, <1>b, <1>d DEF bind_google_identity_commit, Holds, ShapeOK
    <3> QED
      BY <2>5, <3>1, <1>a DEF bind_google_identity_commit, Untouched, TypeOK, Pat, Reset
  <2>6. CASE unbind_google_identity(r)
    BY <2>6, <1>a, <1>b, <1>d DEF unbind_google_identity, Holding, Holds, Untouched, TypeOK
  <2>7. CASE hard_delete_commit(r)
    <3>1. req[r].user # v
      BY <2>7, <1>a DEF hard_delete_commit, DeleteRow
    <3> QED
      BY <2>7, <3>1, <1>a DEF hard_delete_commit, DeleteRow, Untouched, TypeOK, Pat, Reset
  <2>8. CASE revoke(r)
    BY <2>8, <1>a DEF revoke, Untouched, TypeOK, Pat, row
  <2> QED
    BY <1>7, <1>6, <2>1, <2>2, <2>3, <2>4, <2>5, <2>6, <2>7, <2>8 DEF Step, QuietStep
<1>8. ASSUME NEW r \in Requests, Abort(r) PROVE Untouched(v)
  BY <1>8, <1>6 DEF QuietStep
<1>9. ASSUME UNCHANGED vars PROVE Untouched(v)
  BY <1>0, <1>9 DEF vars, row
<1> QED
  BY <1>1, <1>3, <1>4, <1>5, <1>7, <1>8, <1>9 DEF Next, v

----------------------------------------------------------------------------
\* The parts of RowInv, one lemma each.

\* What is known of a request that does not move stays known.
LEMMA ShapeFrame ==
  ASSUME RowInv, [Next]_vars, NEW p \in Requests, req'[p] = req[p]
  PROVE  ShapeOK(req[p])'
<1>1. ChildrenStay
  BY ChildrenStayStep
<1>2. req[p] \in Req /\ ShapeOK(req[p])
  BY DEF RowInv, TypeOK
<1> QED
  BY <1>1, <1>2 DEF ShapeOK, ChildrenStay, Req

\* Only one request moves.
Moves(r) == \A p \in Requests \ {r} : req'[p] = req[p]

LEMMA BeginMoves ==
  ASSUME TypeOK, NEW r \in Requests, NEW rec, Begin(r, rec)
  PROVE  Moves(r) /\ req'[r] = rec /\ UNCHANGED <<row, pat, reset, jwts, lock, revokeEvents>>
  BY DEF TypeOK, Begin, Moves

LEMMA EndMoves ==
  ASSUME TypeOK, NEW r \in Requests, End(r)
  PROVE  Moves(r) /\ req'[r] = IdleReq
  BY DEF TypeOK, End, Moves

LEMMA BeginShape ==
  ASSUME RowInv, [Next]_vars, NEW p \in Requests, NEW r \in Requests, NEW rec, Begin(r, rec),
         ShapeOK(rec)
  PROVE  ShapeOK(req[p])'
<1>1. TypeOK
  BY DEF RowInv
<1>2. Moves(r) /\ req'[r] = rec /\ UNCHANGED <<pat, reset>>
  BY <1>1, BeginMoves
<1>3. CASE p = r
  BY <1>2, <1>3 DEF ShapeOK
<1>4. CASE p # r
  BY <1>2, <1>4, ShapeFrame DEF Moves
<1> QED
  BY <1>3, <1>4

LEMMA ShapeStep ==
  ASSUME RowInv, [Next]_vars, NEW p \in Requests
  PROVE  ShapeOK(req[p])'
<1> USE ConstantsAssumption
<1>a. TypeOK /\ OwnerInv
  BY DEF RowInv
<1>b. (req'[p] = req[p]) => ShapeOK(req[p])'
  BY ShapeFrame
<1>c. req'[p] = IdleReq => ShapeOK(req[p])'
  BY DEF IdleReq, ShapeOK
<1>d. ASSUME NEW r \in Requests, End(r) PROVE ShapeOK(req[p])'
  BY <1>a, <1>b, <1>c, <1>d, EndMoves DEF Moves
<1>1. ASSUME NEW u \in Users, post_register(u) \/ post_token(u) PROVE ShapeOK(req[p])'
  BY <1>1, <1>b DEF post_register, post_token
<1>2. ASSUME NEW t \in Tokens, ExpirePat(t) PROVE ShapeOK(req[p])'
  BY <1>2, <1>b DEF ExpirePat
<1>3. ASSUME NEW t \in Resets, ExpireReset(t) PROVE ShapeOK(req[p])'
  BY <1>3, <1>b DEF ExpireReset
<1>4. ASSUME NEW r \in Requests, Start(r) PROVE ShapeOK(req[p])'
  <2>1. ASSUME NEW op \in {"patch_me", "mint"}, NEW j \in jwts, AuthenticateJwt(r, op, j)
        PROVE ShapeOK(req[p])'
    <3> DEFINE rec == [IdleReq EXCEPT !.op = op, !.pc = "read", !.user = j.user,
                                     !.ses = j.ses, !.tenure = j.tenure]
    <3>1. ShapeOK(rec)
      BY <2>1, <1>a DEF AuthenticateJwt, TypeOK, Jwt, ShapeOK, IdleReq, AllOps, LockOps
    <3> HIDE DEF rec
    <3>2. Begin(r, rec)
      BY <2>1 DEF AuthenticateJwt, rec
    <3> QED
      BY <3>1, <3>2, BeginShape
  <2>2. ASSUME NEW op \in {"patch_me", "mint"}, NEW t \in Tokens, AuthenticatePat(r, op, t)
        PROVE ShapeOK(req[p])'
    <3> DEFINE rec == [IdleReq EXCEPT !.op = op, !.pc = "read", !.user = pat[t].owner,
                                     !.tok = t, !.tenure = pat[t].tenure]
    <3>1. ShapeOK(rec)
      BY <2>2, <1>a DEF AuthenticatePat, OwnerInv, ShapeOK, IdleReq, AllOps, LockOps
    <3> HIDE DEF rec
    <3>2. Begin(r, rec)
      BY <2>2 DEF AuthenticatePat, rec
    <3> QED
      BY <3>1, <3>2, BeginShape
  <2>3. ASSUME NEW u \in Users, issue_reset_token_read(r, u) PROVE ShapeOK(req[p])'
    <3> DEFINE rec == [IdleReq EXCEPT !.op = "reset_request", !.pc = "read", !.user = u,
                                     !.ses = session_epoch[u], !.tenure = tenure[u]]
    <3>1. ShapeOK(rec)
      BY <2>3, <1>a DEF issue_reset_token_read, ShapeOK, IdleReq, AllOps, LockOps
    <3> HIDE DEF rec
    <3>2. Begin(r, rec)
      BY <2>3 DEF issue_reset_token_read, rec
    <3> QED
      BY <3>1, <3>2, BeginShape
  <2>4. ASSUME NEW t \in Resets, confirm_reset_read(r, t) PROVE ShapeOK(req[p])'
    <3> DEFINE rec == [IdleReq EXCEPT !.op = "reset_confirm", !.pc = "read",
                                     !.user = reset[t].owner, !.rtok = t,
                                     !.tenure = reset[t].tenure]
    <3>1. ShapeOK(rec)
      BY <2>4, <1>a DEF confirm_reset_read, OwnerInv, ShapeOK, IdleReq, AllOps, LockOps
    <3> HIDE DEF rec
    <3>2. Begin(r, rec)
      BY <2>4 DEF confirm_reset_read, rec
    <3> QED
      BY <3>1, <3>2, BeginShape
  <2>5. ASSUME NEW u \in Users, google_login(r, u) PROVE ShapeOK(req[p])'
    BY <2>5, <1>b DEF google_login
  <2>6. ASSUME NEW u \in Users, google_login_read(r, u) PROVE ShapeOK(req[p])'
    <3> DEFINE rec == [IdleReq EXCEPT !.op = "google", !.pc = "renaming", !.user = u,
                                     !.tenure = tenure[u], !.sub = google_sub[u]]
    <3>1. ShapeOK(rec)
      BY <2>6, <1>a DEF google_login_read, TypeOK, ShapeOK, IdleReq, AllOps, LockOps
    <3> HIDE DEF rec
    <3>2. Begin(r, rec)
      BY <2>6 DEF google_login_read, rec
    <3> QED
      BY <3>1, <3>2, BeginShape
  <2>7. ASSUME NEW u \in Users, NEW s \in Subs, google_bind_read(r, u, s) PROVE ShapeOK(req[p])'
    <3> DEFINE rec == [IdleReq EXCEPT !.op = "google", !.pc = "read", !.user = u, !.sub = s]
    <3>1. ShapeOK(rec)
      BY <2>7, <1>a DEF google_bind_read, ShapeOK, IdleReq, AllOps, LockOps
    <3> HIDE DEF rec
    <3>2. Begin(r, rec)
      BY <2>7 DEF google_bind_read, rec
    <3> QED
      BY <3>1, <3>2, BeginShape
  <2>8. ASSUME NEW u \in Users, NEW s \in Subs, google_create(r, u, s) PROVE ShapeOK(req[p])'
    BY <2>8, <1>b DEF google_create
  <2>9. ASSUME NEW u \in Users, unbind_begin(r, u) PROVE ShapeOK(req[p])'
    <3> DEFINE rec == [IdleReq EXCEPT !.op = "unbind", !.pc = "read", !.user = u]
    <3>1. ShapeOK(rec)
      BY <2>9, <1>a DEF unbind_begin, ShapeOK, IdleReq, AllOps, LockOps
    <3> HIDE DEF rec
    <3>2. Begin(r, rec)
      BY <2>9 DEF unbind_begin, rec
    <3> QED
      BY <3>1, <3>2, BeginShape
  <2>10. ASSUME NEW u \in Users, hard_delete(r, u) PROVE ShapeOK(req[p])'
    <3> DEFINE ps == {t \in Tokens : pat[t].owner = u /\ pat[t].state # "deleted"}
               rs == {t \in Resets : reset[t].owner = u /\ reset[t].state # "deleted"}
               rec == [IdleReq EXCEPT !.op = "delete", !.pc = "swept", !.user = u,
                                      !.pats = ps, !.resets = rs]
    <3>1. ShapeOK(rec)
      BY <2>10, <1>a DEF hard_delete, OwnerInv, ShapeOK, IdleReq, AllOps, LockOps
    <3>2. Begin(r, rec)
      BY <2>10 DEF hard_delete
    <3> HIDE DEF rec
    <3> QED
      BY <3>1, <3>2, BeginShape
  <2>11. ASSUME NEW op \in {"revoke", "admin_revoke"}, NEW t \in Tokens, revoke_read(r, op, t)
         PROVE ShapeOK(req[p])'
    <3> DEFINE rec == [IdleReq EXCEPT !.op = op, !.pc = "read", !.user = pat[t].owner,
                                     !.tok = t]
    <3>1. ShapeOK(rec)
      BY <2>11, <1>a DEF revoke_read, OwnerInv, is_active, ShapeOK, IdleReq, AllOps, LockOps
    <3> HIDE DEF rec
    <3>2. Begin(r, rec)
      BY <2>11, SMTT(30) DEF revoke_read, rec
    <3> QED
      BY <3>1, <3>2, BeginShape
  <2> QED
    BY <1>4, <2>1, <2>2, <2>3, <2>4, <2>5, <2>6, <2>7, <2>8, <2>9, <2>10, <2>11 DEF Start
<1>5. ASSUME NEW r \in Requests, Step(r) PROVE ShapeOK(req[p])'
  <2>0. req[p] \in Req /\ ShapeOK(req[p])
    BY DEF RowInv, TypeOK
  <2>1. CASE LockAndGoOn(r)
    <3>1. CASE p = r
      <4>1. req'[p] = [req[p] EXCEPT !.pc = "locked"] /\ UNCHANGED <<pat, reset>>
        BY <2>1, <3>1, <1>a DEF LockAndGoOn, TypeOK
      <4>2. req[p].pc = "read" /\ req[p].op \in LockOps
        BY <2>1, <3>1 DEF LockAndGoOn, lock_user
      <4> QED
        BY <2>0, <4>1, <4>2 DEF ShapeOK, Req, LockOps
    <3>2. CASE p # r
      BY <2>1, <3>2, <1>a, <1>b DEF LockAndGoOn, TypeOK
    <3> QED
      BY <3>1, <3>2
  <2>2. CASE mint_count(r)
    BY <2>0, <2>2, <1>a, <1>b, SMTT(30) DEF mint_count, Holding, TypeOK, ShapeOK, Req
  <2>3. CASE bind_google_identity(r)
    BY <2>0, <2>3, <1>a, <1>b, ZenonT(60)
       DEF bind_google_identity, Holding, ActivePats, UnusedResets, is_active, TypeOK, ShapeOK, Req
  <2> QED
    BY <1>5, <1>d, <2>1, <2>2, <2>3
       DEF Step, LockAndGiveUp, LockAndLogin, patch_me, mint_refused, mint, issue_reset_token,
           confirm_reset, bind_google_identity_conflict, bind_google_identity_commit,
           unbind_google_identity, google_login_update_name, hard_delete_commit, DeleteRow, revoke
<1>6. ASSUME NEW r \in Requests, Abort(r) PROVE ShapeOK(req[p])'
  BY <1>6, <1>d DEF Abort
<1>7. CASE UNCHANGED vars
  BY <1>7, <1>b DEF vars
<1> QED
  BY <1>1, <1>2, <1>3, <1>4, <1>5, <1>6, <1>7 DEF Next

\* How a step moves the requests: none, one begins, one ends, or one goes on.
LEMMA Kinds ==
  ASSUME TypeOK, [Next]_vars
  PROVE  \/ UNCHANGED <<req, lock>>
         \/ \E r \in Requests : /\ req[r].pc = "idle" /\ Moves(r)
                                /\ ~Holds(req'[r]) /\ UNCHANGED lock
         \/ \E r \in Requests : End(r)
         \/ \E r \in Requests : LockAndGoOn(r) \/ mint_count(r) \/ bind_google_identity(r)
<1> DEFINE Beginning == \E r \in Requests : /\ req[r].pc = "idle" /\ Moves(r)
                                            /\ ~Holds(req'[r]) /\ UNCHANGED lock
           Idling == UNCHANGED <<req, lock>>
<1>1. ASSUME NEW u \in Users, post_register(u) \/ post_token(u) PROVE Idling
  BY <1>1 DEF post_register, post_token
<1>2. ASSUME NEW t \in Tokens, ExpirePat(t) PROVE Idling
  BY <1>2 DEF ExpirePat
<1>3. ASSUME NEW t \in Resets, ExpireReset(t) PROVE Idling
  BY <1>3 DEF ExpireReset
<1>4. ASSUME NEW r \in Requests, Start(r) PROVE Idling \/ Beginning
  <2>0. ASSUME NEW rec, Begin(r, rec), ~Holds(rec) PROVE Beginning
    <3>1. req[r].pc = "idle" /\ Moves(r) /\ req'[r] = rec /\ UNCHANGED lock
      BY <2>0, BeginMoves DEF Begin
    <3> QED
      BY <2>0, <3>1
  <2> HIDE DEF Beginning
  <2>1. ASSUME NEW op \in {"patch_me", "mint"}, NEW j \in jwts, AuthenticateJwt(r, op, j)
        PROVE Beginning
    BY <2>0, <2>1 DEF AuthenticateJwt, IdleReq, Holds
  <2>2. ASSUME NEW op \in {"patch_me", "mint"}, NEW t \in Tokens, AuthenticatePat(r, op, t)
        PROVE Beginning
    BY <2>0, <2>2 DEF AuthenticatePat, IdleReq, Holds
  <2>3. ASSUME NEW u \in Users, issue_reset_token_read(r, u) PROVE Beginning
    BY <2>0, <2>3 DEF issue_reset_token_read, IdleReq, Holds
  <2>4. ASSUME NEW t \in Resets, confirm_reset_read(r, t) PROVE Beginning
    BY <2>0, <2>4 DEF confirm_reset_read, IdleReq, Holds
  <2>5. ASSUME NEW u \in Users, google_login(r, u) PROVE Idling
    BY <2>5 DEF google_login
  <2>6. ASSUME NEW u \in Users, google_login_read(r, u) PROVE Beginning
    BY <2>0, <2>6 DEF google_login_read, IdleReq, Holds
  <2>7. ASSUME NEW u \in Users, NEW s \in Subs, google_bind_read(r, u, s) PROVE Beginning
    BY <2>0, <2>7 DEF google_bind_read, IdleReq, Holds
  <2>8. ASSUME NEW u \in Users, NEW s \in Subs, google_create(r, u, s) PROVE Idling
    BY <2>8 DEF google_create
  <2>9. ASSUME NEW u \in Users, unbind_begin(r, u) PROVE Beginning
    BY <2>0, <2>9 DEF unbind_begin, IdleReq, Holds
  <2>10. ASSUME NEW u \in Users, hard_delete(r, u) PROVE Beginning
    BY <2>0, <2>10 DEF hard_delete, IdleReq, Holds
  <2>11. ASSUME NEW op \in {"revoke", "admin_revoke"}, NEW t \in Tokens, revoke_read(r, op, t)
         PROVE Beginning
    BY <2>0, <2>11 DEF revoke_read, IdleReq, Holds
  <2> QED
    BY <1>4, <2>1, <2>2, <2>3, <2>4, <2>5, <2>6, <2>7, <2>8, <2>9, <2>10, <2>11 DEF Start
<1>5. ASSUME NEW r \in Requests, Step(r) \/ Abort(r)
      PROVE End(r) \/ LockAndGoOn(r) \/ mint_count(r) \/ bind_google_identity(r)
  BY <1>5
     DEF Step, LockAndGiveUp, LockAndLogin, patch_me, mint_refused, mint, issue_reset_token,
         confirm_reset, bind_google_identity_conflict, bind_google_identity_commit,
         unbind_google_identity, google_login_update_name, hard_delete_commit, DeleteRow,
         revoke, Abort
<1>6. ASSUME UNCHANGED vars PROVE Idling
  BY <1>6 DEF vars
<1> HIDE DEF Beginning, Idling
<1>7. \/ Idling \/ Beginning
      \/ \E r \in Requests : End(r)
      \/ \E r \in Requests : LockAndGoOn(r) \/ mint_count(r) \/ bind_google_identity(r)
  BY <1>1, <1>2, <1>3, <1>4, <1>5, <1>6 DEF Next
<1> QED
  BY <1>7 DEF Idling, Beginning

\* The steps of a request that goes on.
LEMMA GoOnMoves ==
  ASSUME TypeOK, NEW r \in Requests,
         LockAndGoOn(r) \/ mint_count(r) \/ bind_google_identity(r)
  PROVE  /\ Moves(r)
         /\ UNCHANGED <<row, pat, reset>>
         /\ req'[r].user = req[r].user /\ req'[r].op = req[r].op /\ req'[r].rtok = req[r].rtok
         /\ req'[r].tok = req[r].tok /\ req'[r].ses = req[r].ses
         /\ req'[r].tenure = req[r].tenure
  BY DEF TypeOK, Req, LockAndGoOn, mint_count, bind_google_identity, Moves

LEMMA LockStep == RowInv /\ [Next]_vars => LockInv'
<1> SUFFICES ASSUME RowInv, [Next]_vars, NEW u \in Users, lock'[u] # NoReq
             PROVE  Holds(req'[lock'[u]]) /\ req'[lock'[u]].user = u
  BY DEF LockInv
<1> USE ConstantsAssumption
<1>a. TypeOK /\ lock \in [Users -> Requests \cup {NoReq}]
  BY DEF RowInv, TypeOK
<1>b. ASSUME lock[u] # NoReq
      PROVE  lock[u] \in Requests /\ Holds(req[lock[u]]) /\ req[lock[u]].user = u
  BY <1>a, <1>b DEF RowInv, LockInv
<1>1. CASE UNCHANGED <<req, lock>>
  BY <1>1, <1>b
<1>2. ASSUME NEW r \in Requests, req[r].pc = "idle", Moves(r), UNCHANGED lock
      PROVE  Holds(req'[lock'[u]]) /\ req'[lock'[u]].user = u
  BY <1>2, <1>b DEF Moves, Holds
<1>3. ASSUME NEW r \in Requests, End(r)
      PROVE  Holds(req'[lock'[u]]) /\ req'[lock'[u]].user = u
  BY <1>3, <1>a, <1>b, EndMoves DEF Moves, End
<1>4. ASSUME NEW r \in Requests, LockAndGoOn(r)
      PROVE  Holds(req'[lock'[u]]) /\ req'[lock'[u]].user = u
  <2>1. Moves(r) /\ req'[r].pc = "locked" /\ req'[r].user = req[r].user
    BY <1>a, <1>4 DEF LockAndGoOn, TypeOK, Req, Moves
  <2>2. lock[req[r].user] = NoReq /\ lock' = [lock EXCEPT ![req[r].user] = r]
    BY <1>4 DEF LockAndGoOn, lock_user
  <2>3. ~Holds(req[r])
    BY <1>4 DEF LockAndGoOn, lock_user, Holds
  <2> QED
    BY <1>a, <1>b, <2>1, <2>2, <2>3 DEF Moves, Holds
<1>5. ASSUME NEW r \in Requests, mint_count(r) \/ bind_google_identity(r)
      PROVE  Holds(req'[lock'[u]]) /\ req'[lock'[u]].user = u
  <2>1. Moves(r) /\ Holds(req'[r]) /\ req'[r].user = req[r].user /\ UNCHANGED lock
    BY <1>a, <1>5 DEF mint_count, bind_google_identity, Holding, TypeOK, Req, Moves, Holds
  <2> QED
    BY <1>b, <2>1 DEF Moves
<1> QED
  BY <1>a, <1>1, <1>2, <1>3, <1>4, <1>5, Kinds

\* A lock that is held stays held while its holder does not move.
LEMMA LockStays ==
  ASSUME RowInv, [Next]_vars, NEW p \in Requests, Holds(req[p]), req'[p] = req[p]
  PROVE  lock'[req[p].user] = p
<1> USE ConstantsAssumption
<1>a. TypeOK /\ req[p].user \in Users /\ lock[req[p].user] = p
  BY DEF RowInv, ShapeOK, HeldOK, Holds
<1>1. ASSUME NEW r \in Requests, End(r) PROVE lock'[req[p].user] = p
  <2>1. r # p
    BY <1>1, <1>a, EndMoves DEF Holds, IdleReq
  <2> QED
    BY <1>1, <2>1, <1>a DEF End, TypeOK
<1>2. ASSUME NEW r \in Requests, LockAndGoOn(r) PROVE lock'[req[p].user] = p
  BY <1>2, <1>a DEF LockAndGoOn, lock_user, TypeOK
<1>3. ASSUME NEW r \in Requests, mint_count(r) \/ bind_google_identity(r)
      PROVE lock'[req[p].user] = p
  BY <1>3, <1>a DEF mint_count, bind_google_identity
<1> QED
  BY <1>a, <1>1, <1>2, <1>3, Kinds

LEMMA HeldStep ==
  ASSUME RowInv, [Next]_vars, NEW p \in Requests
  PROVE  HeldOK(p, req[p])'
<1> USE ConstantsAssumption
<1>a. TypeOK /\ ShapeOK(req[p]) /\ HeldOK(p, req[p]) /\ req[p] \in Req
  BY DEF RowInv, TypeOK
<1>b. ASSUME req'[p] = req[p] PROVE HeldOK(p, req[p])'
  <2> SUFFICES ASSUME Holds(req[p]) PROVE HeldOK(p, req[p])'
    BY <1>b DEF HeldOK
  <2>1. Untouched(req[p].user) /\ lock'[req[p].user] = p
    BY <1>b, RowLockProtects, LockStays
  <2>2. req[p].op = "reset_confirm" => req[p].rtok \in Resets /\ reset[req[p].rtok].owner = req[p].user
    BY <1>a DEF ShapeOK
  <2>3. /\ ActivePats(req[p].user)' \subseteq ActivePats(req[p].user)
        /\ UnusedResets(req[p].user)' \subseteq UnusedResets(req[p].user)
    BY <1>b, <2>1 DEF ActivePats, UnusedResets, is_active, Untouched
  <2> QED
    BY <1>a, <1>b, <2>1, <2>2, <2>3 DEF HeldOK, Untouched, Live
<1>1. CASE UNCHANGED <<req, lock>>
  BY <1>1, <1>b
<1>2. ASSUME NEW r \in Requests, Moves(r), ~Holds(req'[r]) PROVE HeldOK(p, req[p])'
  BY <1>2, <1>b DEF Moves, HeldOK
<1>3. ASSUME NEW r \in Requests, End(r) PROVE HeldOK(p, req[p])'
  BY <1>2, <1>3, <1>a, EndMoves DEF IdleReq, Holds
<1>4. ASSUME NEW r \in Requests, LockAndGoOn(r) PROVE HeldOK(p, req[p])'
  <2>1. CASE p # r
    BY <1>4, <2>1, <1>a, <1>b, GoOnMoves DEF Moves
  <2>2. CASE p = r
    <3>1. /\ UNCHANGED <<row, pat, reset>>
          /\ req'[p].pc = "locked" /\ req'[p].user = req[p].user
          /\ req'[p].op = req[p].op /\ req'[p].rtok = req[p].rtok
      BY <1>4, <2>2, <1>a, GoOnMoves DEF LockAndGoOn, TypeOK
    <3>2. Revalidates(p) /\ Live(req[p].user) /\ req[p].user \in Users
      BY <1>4, <2>2, <1>a DEF LockAndGoOn, lock_user, ShapeOK
    <3>3. lock'[req[p].user] = p
      BY <1>4, <2>2, <3>2, <1>a DEF LockAndGoOn, TypeOK
    <3>4. req[p].op = "reset_confirm" => reset[req[p].rtok].state = "unused"
      BY <3>2 DEF Revalidates, LoadValidToken
    <3>5. req[p].op = "unbind" =>
            password[req[p].user] # NoPassword /\ google_sub[req[p].user] # NoSub
      BY <3>2 DEF Revalidates, Unbindable
    <3>6. req[p].op = "google" => google_sub[req[p].user] = NoSub
      BY <3>2 DEF Revalidates, Bindable
    <3> QED
      BY <3>1, <3>2, <3>3, <3>4, <3>5, <3>6 DEF HeldOK, Live, row
  <2> QED
    BY <2>1, <2>2
<1>5. ASSUME NEW r \in Requests, mint_count(r) PROVE HeldOK(p, req[p])'
  <2>1. CASE p # r
    BY <1>5, <2>1, <1>a, <1>b, GoOnMoves DEF Moves
  <2>2. CASE p = r
    <3>1. /\ UNCHANGED <<row, lock>> /\ Holds(req[p]) /\ req[p].op = "mint"
          /\ req'[p].pc = "counted" /\ req'[p].user = req[p].user /\ req'[p].op = "mint"
      BY <1>5, <2>2, <1>a, GoOnMoves DEF mint_count, Holding, Holds, TypeOK
    <3> QED
      BY <3>1, <1>a DEF HeldOK, Live, row
  <2> QED
    BY <2>1, <2>2
<1>6. ASSUME NEW r \in Requests, bind_google_identity(r) PROVE HeldOK(p, req[p])'
  <2>1. CASE p # r
    BY <1>6, <2>1, <1>a, <1>b, GoOnMoves DEF Moves
  <2>2. CASE p = r
    <3>1. /\ UNCHANGED <<row, pat, reset, lock>> /\ Holds(req[p]) /\ req[p].op = "google"
          /\ req'[p].pc = "swept" /\ req'[p].user = req[p].user /\ req'[p].op = "google"
          /\ req'[p].pats = ActivePats(req[p].user) /\ req'[p].resets = UnusedResets(req[p].user)
      BY <1>6, <2>2, <1>a DEF bind_google_identity, Holding, Holds, TypeOK, Req
    <3> QED
      BY <3>1, <1>a DEF HeldOK, Live, row, ActivePats, UnusedResets, is_active
  <2> QED
    BY <2>1, <2>2
<1> QED
  BY <1>a, <1>1, <1>2, <1>3, <1>4, <1>5, <1>6, Kinds

\* Rows that appear have an owner who exists.
LEMMA OwnerStep == RowInv /\ [Next]_vars => OwnerInv'
<1> SUFFICES ASSUME RowInv, [Next]_vars PROVE OwnerInv'
  OBVIOUS
<1> USE ConstantsAssumption DEF OwnerInv
<1>a. TypeOK /\ OwnerInv
  BY DEF RowInv
<1>0. ASSUME UNCHANGED <<pat, reset>> PROVE OwnerInv'
  BY <1>0, <1>a
<1>1. ASSUME NEW u \in Users, post_register(u) \/ post_token(u) PROVE OwnerInv'
  BY <1>0, <1>1 DEF post_register, post_token
<1>2. ASSUME NEW t \in Tokens, ExpirePat(t) PROVE OwnerInv'
  BY <1>2, <1>a DEF TypeOK, Pat, ExpirePat
<1>3. ASSUME NEW t \in Resets, ExpireReset(t) PROVE OwnerInv'
  BY <1>3, <1>a DEF TypeOK, Reset, ExpireReset
<1>4. ASSUME NEW r \in Requests, Start(r) PROVE OwnerInv'
  BY <1>0, <1>4, StartFrame
<1>5. ASSUME NEW r \in Requests, QuietStep(r) PROVE OwnerInv'
  BY <1>0, <1>5, QuietFrame
<1>6. ASSUME NEW r \in Requests, Step(r) PROVE OwnerInv'
  <2>0. ShapeOK(req[r])
    BY DEF RowInv
  <2>1. CASE patch_me(r) \/ unbind_google_identity(r)
    BY <1>0, <2>1 DEF patch_me, unbind_google_identity
  <2>2. ASSUME NEW t \in Tokens, mint(r, t) PROVE OwnerInv'
    BY <2>0, <2>2, <1>a DEF TypeOK, mint, ShapeOK
  <2>3. ASSUME NEW t \in Resets, issue_reset_token(r, t) PROVE OwnerInv'
    BY <2>0, <2>3, <1>a DEF TypeOK, issue_reset_token, Holding, ShapeOK
  <2>4. CASE confirm_reset(r)
    BY <2>0, <2>4, <1>a DEF TypeOK, Reset, confirm_reset, Holding, ShapeOK
  <2>5. CASE bind_google_identity_commit(r)
    BY <2>0, <2>5, <1>a DEF TypeOK, Pat, Reset, bind_google_identity_commit, ShapeOK
  <2>6. CASE hard_delete_commit(r)
    BY <2>0, <2>6, <1>a DEF TypeOK, Pat, Reset, hard_delete_commit, DeleteRow, ShapeOK
  <2>7. CASE revoke(r)
    BY <2>0, <2>7, <1>a DEF TypeOK, Pat, revoke, ShapeOK
  <2> QED
    BY <1>6, <1>5, <2>1, <2>2, <2>3, <2>4, <2>5, <2>6, <2>7 DEF Step, QuietStep
<1>7. ASSUME NEW r \in Requests, Abort(r) PROVE OwnerInv'
  BY <1>7, <1>5 DEF QuietStep
<1>8. CASE UNCHANGED vars
  BY <1>0, <1>8 DEF vars
<1> QED
  BY <1>1, <1>2, <1>3, <1>4, <1>6, <1>7, <1>8 DEF Next

LEMMA AuthMethodStep == RowInv /\ [Next]_vars => SomeAuthMethod'
<1> SUFFICES ASSUME RowInv, [Next]_vars PROVE SomeAuthMethod'
  OBVIOUS
<1> USE ConstantsAssumption DEF SomeAuthMethod, Live, NoPassword
<1>a. TypeOK /\ SomeAuthMethod
  BY DEF RowInv
<1>0. ASSUME UNCHANGED row PROVE SomeAuthMethod'
  BY <1>0, <1>a DEF row
<1>1. ASSUME NEW u \in Users, post_register(u) \/ post_token(u) PROVE SomeAuthMethod'
  BY <1>0, <1>1, <1>a DEF post_register, post_token, TypeOK
<1>2. ASSUME NEW t \in Tokens, ExpirePat(t) PROVE SomeAuthMethod'
  BY <1>0, <1>2 DEF ExpirePat
<1>3. ASSUME NEW t \in Resets, ExpireReset(t) PROVE SomeAuthMethod'
  BY <1>0, <1>3 DEF ExpireReset
<1>4. ASSUME NEW r \in Requests, Start(r) PROVE SomeAuthMethod'
  <2>1. ASSUME NEW u \in Users, NEW s \in Subs, google_create(r, u, s) PROVE SomeAuthMethod'
    BY <2>1, <1>a DEF google_create, TypeOK
  <2> QED
    BY <2>1, <1>0, <1>4, StartFrame DEF row
<1>5. ASSUME NEW r \in Requests, QuietStep(r) PROVE SomeAuthMethod'
  BY <1>0, <1>5, QuietFrame
<1>6. ASSUME NEW r \in Requests, Step(r) PROVE SomeAuthMethod'
  <2>0. ShapeOK(req[r]) /\ HeldOK(r, req[r]) /\ req[r] \in Req
    BY DEF RowInv, TypeOK
  <2>1. CASE (\E t \in Tokens : mint(r, t)) \/ revoke(r) \/ \E t \in Resets : issue_reset_token(r, t)
    BY <1>0, <2>1 DEF mint, revoke, issue_reset_token
  <2>2. CASE patch_me(r) \/ confirm_reset(r)
    BY <2>0, <2>2, <1>a DEF patch_me, confirm_reset, TypeOK, Req
  <2>3. CASE bind_google_identity_commit(r)
    BY <2>0, <2>3, <1>a DEF bind_google_identity_commit, ShapeOK, TypeOK
  <2>4. CASE unbind_google_identity(r)
    BY <2>0, <2>4, <1>a DEF unbind_google_identity, Holding, HeldOK, Holds, TypeOK
  <2>5. CASE hard_delete_commit(r)
    BY <2>5, <1>a DEF hard_delete_commit, DeleteRow, TypeOK
  <2> QED
    BY <1>6, <1>5, <2>1, <2>2, <2>3, <2>4, <2>5 DEF Step, QuietStep
<1>7. ASSUME NEW r \in Requests, Abort(r) PROVE SomeAuthMethod'
  BY <1>7, <1>5 DEF QuietStep
<1>8. CASE UNCHANGED vars
  BY <1>0, <1>8 DEF vars, row
<1> QED
  BY <1>1, <1>2, <1>3, <1>4, <1>6, <1>7, <1>8 DEF Next

LEMMA LiveUsersStep == RowInv /\ [Next]_vars => CredentialsOfLiveUsers'
<1> SUFFICES ASSUME RowInv, [Next]_vars PROVE CredentialsOfLiveUsers'
  OBVIOUS
<1> USE ConstantsAssumption DEF CredentialsOfLiveUsers, Live, is_active
<1>a. TypeOK /\ OwnerInv /\ CredentialsOfLiveUsers
  BY DEF RowInv
<1>0. ASSUME UNCHANGED <<status, pat, reset>> PROVE CredentialsOfLiveUsers'
  BY <1>0, <1>a
<1>1. ASSUME NEW u \in Users, post_register(u) \/ post_token(u) PROVE CredentialsOfLiveUsers'
  BY <1>0, <1>1, <1>a DEF post_register, post_token, TypeOK, OwnerInv, row
<1>2. ASSUME NEW t \in Tokens, ExpirePat(t) PROVE CredentialsOfLiveUsers'
  BY <1>2, <1>a DEF ExpirePat, TypeOK, Pat, row
<1>3. ASSUME NEW t \in Resets, ExpireReset(t) PROVE CredentialsOfLiveUsers'
  BY <1>3, <1>a DEF ExpireReset, TypeOK, Reset, row
<1>4. ASSUME NEW r \in Requests, Start(r) PROVE CredentialsOfLiveUsers'
  <2>1. ASSUME NEW u \in Users, NEW s \in Subs, google_create(r, u, s)
        PROVE CredentialsOfLiveUsers'
    BY <2>1, <1>a DEF google_create, TypeOK, OwnerInv
  <2> QED
    BY <2>1, <1>0, <1>4, StartFrame
<1>5. ASSUME NEW r \in Requests, QuietStep(r) PROVE CredentialsOfLiveUsers'
  BY <1>0, <1>5, QuietFrame DEF row
<1>6. ASSUME NEW r \in Requests, Step(r) PROVE CredentialsOfLiveUsers'
  <2>0. ShapeOK(req[r]) /\ HeldOK(r, req[r])
    BY DEF RowInv
  <2>1. CASE patch_me(r) \/ unbind_google_identity(r)
    BY <1>0, <2>1 DEF patch_me, unbind_google_identity
  <2>2. ASSUME NEW t \in Tokens, mint(r, t) PROVE CredentialsOfLiveUsers'
    BY <2>0, <2>2, <1>a DEF mint, HeldOK, Holds, TypeOK, row
  <2>3. ASSUME NEW t \in Resets, issue_reset_token(r, t) PROVE CredentialsOfLiveUsers'
    BY <2>0, <2>3, <1>a DEF issue_reset_token, Holding, HeldOK, Holds, TypeOK, row
  <2>4. CASE confirm_reset(r)
    BY <2>4, <1>a DEF confirm_reset, TypeOK, Reset
  <2>5. CASE bind_google_identity_commit(r)
    BY <2>5, <1>a DEF bind_google_identity_commit, TypeOK, Pat, Reset
  <2>6. CASE hard_delete_commit(r)
    BY <2>6, <1>a DEF hard_delete_commit, DeleteRow, TypeOK, Pat, Reset
  <2>7. CASE revoke(r)
    BY <2>7, <1>a DEF revoke, TypeOK, Pat, row
  <2> QED
    BY <1>6, <1>5, <2>1, <2>2, <2>3, <2>4, <2>5, <2>6, <2>7 DEF Step, QuietStep
<1>7. ASSUME NEW r \in Requests, Abort(r) PROVE CredentialsOfLiveUsers'
  BY <1>7, <1>5 DEF QuietStep
<1>8. CASE UNCHANGED vars
  BY <1>0, <1>8 DEF vars
<1> QED
  BY <1>1, <1>2, <1>3, <1>4, <1>6, <1>7, <1>8 DEF Next

LEMMA RowInvInit == Init => RowInv
<1> SUFFICES ASSUME Init PROVE RowInv
  OBVIOUS
<1> USE ConstantsAssumption DEF Init
<1>1. TypeOK
  BY IdleReqType DEF TypeOK, Pat, PatState, Reset, ResetState, NoPassword
<1>2. OwnerInv /\ LockInv
  BY DEF OwnerInv, LockInv
<1>3. \A r \in Requests : ShapeOK(req[r]) /\ HeldOK(r, req[r])
  BY IdleReqType DEF HeldOK
<1>4. SomeAuthMethod /\ CredentialsOfLiveUsers
  BY DEF SomeAuthMethod, CredentialsOfLiveUsers, Live, is_active
<1> QED
  BY <1>1, <1>2, <1>3, <1>4 DEF RowInv

LEMMA RowInvStep == RowInv /\ [Next]_vars => RowInv'
  BY TypeStep, OwnerStep, LockStep, ShapeStep, HeldStep, AuthMethodStep, LiveUsersStep DEF RowInv

\* The inductive invariant about rows, locks and requests in flight.
THEOREM RowInvariant == Spec => []RowInv
<1>1. RowInv /\ [Next]_vars => RowInv'
  BY RowInvStep
<1> QED
  BY <1>1, RowInvInit, PTL DEF Spec

\* Every variable keeps its type.
THEOREM TypeCorrect == Spec => []TypeOK
<1>1. RowInv => TypeOK
  BY DEF RowInv
<1> QED
  BY <1>1, RowInvariant, PTL

\* ck_users_auth_method: an unbind never leaves a row nobody can authenticate as,
\* whatever a concurrent bind, reset or password change does.
THEOREM AuthMethodStays == Spec => []SomeAuthMethod
<1>1. RowInv => SomeAuthMethod
  BY DEF RowInv
<1> QED
  BY <1>1, RowInvariant, PTL

\* hard_delete leaves no live token and no live reset link behind, those inserted
\* while it ran included.
THEOREM DeletionComplete == Spec => []CredentialsOfLiveUsers
<1>1. RowInv => CredentialsOfLiveUsers
  BY DEF RowInv
<1> QED
  BY <1>1, RowInvariant, PTL

\* confirm_reset: a reset link sets a password at most once, and not after a bind
\* has deleted it.
THEOREM ResetLinksAreSingleUse == Spec => ResetSingleUse
<1>1. ASSUME RowInv, [Next]_vars, NEW r \in Requests, confirm_reset(r)
      PROVE  reset[req[r].rtok].state \in {"unused", "expired"}
  BY <1>1 DEF RowInv, HeldOK, confirm_reset, Holding, Holds
<1>2. RowInv /\ [Next]_vars =>
        [\A r \in Requests :
           confirm_reset(r) => reset[req[r].rtok].state \in {"unused", "expired"}]_vars
  BY <1>1
<1> QED
  BY <1>2, RowInvariant, PTL DEF Spec, ResetSingleUse

\* What a step may do to the epochs.
EpochStep ==
  \A u \in Users : google_sub'[u] = google_sub[u] => session_epoch'[u] = session_epoch[u]

LEMMA EpochMoves == RowInv /\ Next => EpochStep
<1> SUFFICES ASSUME RowInv, Next PROVE EpochStep
  OBVIOUS
<1> USE ConstantsAssumption DEF EpochStep
<1>a. TypeOK
  BY DEF RowInv
<1>0. ASSUME UNCHANGED session_epoch PROVE EpochStep
  BY <1>0
<1>1. ASSUME NEW r \in Requests, bind_google_identity_commit(r) PROVE EpochStep
  <2>1. req[r].user \in Users /\ google_sub[req[r].user] = NoSub /\ req[r].sub \in Subs
    BY <1>1 DEF RowInv, bind_google_identity_commit, ShapeOK, HeldOK, Holds
  <2> QED
    BY <1>1, <1>a, <2>1 DEF bind_google_identity_commit, TypeOK
<1>2. ASSUME NEW r \in Requests, unbind_google_identity(r) PROVE EpochStep
  <2>1. google_sub[req[r].user] # NoSub
    BY <1>2 DEF RowInv, unbind_google_identity, Holding, HeldOK, Holds
  <2> QED
    BY <1>2, <1>a, <2>1 DEF unbind_google_identity, TypeOK
<1>3. ASSUME NEW r \in Requests, Start(r) PROVE EpochStep
  BY <1>3, <1>0, StartFrame
<1>4. ASSUME NEW r \in Requests, Step(r) \/ Abort(r) PROVE EpochStep
  BY <1>0, <1>1, <1>2, <1>4, QuietFrame
     DEF Step, QuietStep, row, patch_me, mint, issue_reset_token, confirm_reset,
         hard_delete_commit, DeleteRow, revoke
<1> QED
  BY <1>0, <1>3, <1>4 DEF Next, post_register, post_token, ExpirePat, ExpireReset, row

\* bind_google_identity and unbind_google_identity move the epoch only when they
\* change the binding: a callback repeated for the identity already on the row does
\* not end the session the first one started.
THEOREM EpochMovesOnlyWithBinding == Spec => EpochMovesWithBinding
<1>1. RowInv /\ [Next]_vars => [EpochStep]_vars
  BY EpochMoves
<1> QED
  BY <1>1, RowInvariant, PTL DEF Spec, EpochMovesWithBinding, EpochStep

----------------------------------------------------------------------------
\* The cap on active tokens.

\* A mint that has counted still has room: the count is of the committed rows, and
\* the row lock keeps every other mint of that user out until this one commits.
CapInv ==
  /\ \A u \in Users : IsFiniteSet(ActivePats(u))
  /\ TokenCap
  /\ \A r \in Requests :
       req[r].pc = "counted" => Cardinality(ActivePats(req[r].user)) < MAX_ACTIVE_PER_USER

\* Only a mint for u brings a token of u to life, and it brings one.
LEMMA PatsGrowByMint ==
  ASSUME RowInv, [Next]_vars, NEW u \in Users
  PROVE  \/ ActivePats(u)' \subseteq ActivePats(u)
         \/ \E r \in Requests, t \in Tokens :
              /\ req[r].pc = "counted" /\ req[r].user = u
              /\ ActivePats(u)' \subseteq ActivePats(u) \cup {t}
<1> DEFINE Shrinks == ActivePats(u)' \subseteq ActivePats(u)
<1> USE DEF ActivePats, is_active
<1>a. TypeOK
  BY DEF RowInv
<1>0. ASSUME UNCHANGED pat PROVE Shrinks
  BY <1>0
<1>1. ASSUME NEW v \in Users, post_register(v) \/ post_token(v) PROVE Shrinks
  BY <1>0, <1>1 DEF post_register, post_token
<1>2. ASSUME NEW t \in Tokens, ExpirePat(t) PROVE Shrinks
  BY <1>2, <1>a DEF ExpirePat, TypeOK, Pat
<1>3. ASSUME NEW t \in Resets, ExpireReset(t) PROVE Shrinks
  BY <1>0, <1>3 DEF ExpireReset
<1>4. ASSUME NEW r \in Requests, Start(r) PROVE Shrinks
  BY <1>0, <1>4, StartFrame
<1>5. ASSUME NEW r \in Requests, QuietStep(r) PROVE Shrinks
  BY <1>0, <1>5, QuietFrame
<1>6. ASSUME NEW r \in Requests,
             patch_me(r) \/ confirm_reset(r) \/ unbind_google_identity(r)
             \/ \E t \in Resets : issue_reset_token(r, t)
      PROVE Shrinks
  BY <1>0, <1>6 DEF patch_me, confirm_reset, unbind_google_identity, issue_reset_token
<1>7. ASSUME NEW r \in Requests, bind_google_identity_commit(r) PROVE Shrinks
  BY <1>7, <1>a DEF bind_google_identity_commit, TypeOK, Pat
<1>8. ASSUME NEW r \in Requests, hard_delete_commit(r) PROVE Shrinks
  BY <1>8, <1>a DEF hard_delete_commit, DeleteRow, TypeOK, Pat
<1>9. ASSUME NEW r \in Requests, revoke(r) PROVE Shrinks
  BY <1>9, <1>a DEF revoke, TypeOK, Pat
<1>10. ASSUME NEW r \in Requests, NEW t \in Tokens, mint(r, t)
       PROVE  \/ Shrinks
              \/ /\ req[r].pc = "counted" /\ req[r].user = u
                 /\ ActivePats(u)' \subseteq ActivePats(u) \cup {t}
  BY <1>10, <1>a DEF mint, TypeOK, Pat
<1>11. ASSUME UNCHANGED vars PROVE Shrinks
  BY <1>0, <1>11 DEF vars
<1> HIDE DEF Shrinks
<1>12. \/ Shrinks
       \/ \E r \in Requests, t \in Tokens :
            /\ req[r].pc = "counted" /\ req[r].user = u
            /\ ActivePats(u)' \subseteq ActivePats(u) \cup {t}
  BY <1>1, <1>2, <1>3, <1>4, <1>5, <1>6, <1>7, <1>8, <1>9, <1>10, <1>11
     DEF Next, Step, QuietStep
<1> QED
  BY <1>12 DEF Shrinks

LEMMA CapInvStep == RowInv /\ CapInv /\ [Next]_vars => CapInv'
<1> SUFFICES ASSUME RowInv, CapInv, [Next]_vars PROVE CapInv'
  OBVIOUS
<1> USE ConstantsAssumption
<1>a. TypeOK
  BY DEF RowInv
<1>1. ASSUME NEW u \in Users
      PROVE  IsFiniteSet(ActivePats(u)') /\ Cardinality(ActivePats(u)') <= MAX_ACTIVE_PER_USER
  <2> DEFINE A == ActivePats(u)  B == ActivePats(u)'
  <2>0. IsFiniteSet(A) /\ Cardinality(A) \in Nat /\ Cardinality(A) <= MAX_ACTIVE_PER_USER
    BY FS_CardinalityType DEF CapInv, TokenCap
  <2> HIDE DEF A, B
  <2>1. ASSUME B \subseteq A PROVE IsFiniteSet(B) /\ Cardinality(B) <= MAX_ACTIVE_PER_USER
    <3>1. IsFiniteSet(B) /\ Cardinality(B) <= Cardinality(A)
      BY <2>0, <2>1, FS_Subset
    <3> QED
      BY <2>0, <3>1, FS_CardinalityType
  <2>2. ASSUME NEW r \in Requests, NEW t \in Tokens, req[r].pc = "counted", req[r].user = u,
               B \subseteq A \cup {t}
        PROVE  IsFiniteSet(B) /\ Cardinality(B) <= MAX_ACTIVE_PER_USER
    <3>1. Cardinality(A) < MAX_ACTIVE_PER_USER
      BY <2>2 DEF CapInv, A
    <3>2. /\ IsFiniteSet(A \cup {t})
          /\ Cardinality(A \cup {t}) = IF t \in A THEN Cardinality(A) ELSE Cardinality(A) + 1
      BY <2>0, FS_AddElement
    <3>3. IsFiniteSet(B) /\ Cardinality(B) <= Cardinality(A \cup {t})
      BY <2>2, <3>2, FS_Subset
    <3> QED
      BY <2>0, <3>1, <3>2, <3>3, FS_CardinalityType
  <2> QED
    BY <2>1, <2>2, PatsGrowByMint DEF A, B
<1>2. ASSUME NEW p \in Requests, req'[p].pc = "counted"
      PROVE  Cardinality(ActivePats(req[p].user)') < MAX_ACTIVE_PER_USER
  <2>1. CASE req'[p] = req[p]
    <3> DEFINE A == ActivePats(req[p].user)  B == ActivePats(req[p].user)'
    <3>1. Holds(req[p]) /\ req[p].user \in Users
      BY <1>2, <2>1 DEF Holds, RowInv, ShapeOK
    <3>2. B \subseteq A
      BY <2>1, <3>1, RowLockProtects DEF Untouched, ActivePats, is_active
    <3>3. IsFiniteSet(A) /\ Cardinality(A) < MAX_ACTIVE_PER_USER
      BY <1>2, <2>1, <3>1 DEF CapInv
    <3>4. IsFiniteSet(B) /\ Cardinality(B) <= Cardinality(A)
      BY <3>2, <3>3, FS_Subset
    <3>5. Cardinality(A) \in Nat /\ Cardinality(B) \in Nat
      BY <3>3, <3>4, FS_CardinalityType
    <3> HIDE DEF A, B
    <3>6. Cardinality(B) < MAX_ACTIVE_PER_USER
      BY <3>3, <3>4, <3>5
    <3> QED
      BY <3>6 DEF B
  <2>2. CASE mint_count(p)
    <3>1. UNCHANGED pat /\ req'[p].user = req[p].user
      BY <2>2, <1>a, GoOnMoves
    <3>2. ActivePats(req[p].user)' = ActivePats(req[p].user)
      BY <3>1 DEF ActivePats, is_active
    <3> QED
      BY <2>2, <3>2 DEF mint_count
  <2>3. req'[p] = req[p] \/ mint_count(p)
    <3>1. ASSUME NEW r \in Requests, End(r) PROVE req'[p] = req[p]
      BY <3>1, <1>2, <1>a, EndMoves DEF Moves, IdleReq
    <3>2. ASSUME NEW r \in Requests, LockAndGoOn(r) \/ bind_google_identity(r)
          PROVE req'[p] = req[p]
      BY <3>2, <1>2, <1>a DEF LockAndGoOn, bind_google_identity, TypeOK, Req
    <3>3. ASSUME NEW r \in Requests, mint_count(r) PROVE req'[p] = req[p] \/ mint_count(p)
      BY <3>3, <1>a, GoOnMoves DEF Moves
    <3> QED
      BY <3>1, <3>2, <3>3, <1>2, <1>a, Kinds DEF Moves, Holds
  <2> QED
    BY <2>1, <2>2, <2>3
<1>3. \A u \in Users : IsFiniteSet(ActivePats(u)')
  BY <1>1
<1>4. TokenCap'
  BY <1>1 DEF TokenCap
<1> QED
  BY <1>2, <1>3, <1>4 DEF CapInv

\* mint: however many mints of one user run at once, no more than MAX_ACTIVE_PER_USER
\* of its tokens are active.
THEOREM MintRespectsCap == Spec => []TokenCap
<1>1. Init => CapInv
  <2> SUFFICES ASSUME Init PROVE CapInv
    OBVIOUS
  <2>1. ASSUME NEW u \in Users PROVE ActivePats(u) = {}
    BY DEF Init, ActivePats, is_active
  <2>2. \A r \in Requests : req[r].pc = "idle"
    BY DEF Init, IdleReq
  <2>3. ASSUME NEW u \in Users
        PROVE  IsFiniteSet(ActivePats(u)) /\ Cardinality(ActivePats(u)) <= MAX_ACTIVE_PER_USER
    BY <2>1, FS_EmptySet, ConstantsAssumption
  <2> QED
    BY <2>2, <2>3 DEF CapInv, TokenCap
<1>2. RowInv /\ CapInv /\ [Next]_vars => CapInv'
  BY CapInvStep
<1>3. CapInv => TokenCap
  BY DEF CapInv
<1> QED
  BY <1>1, <1>2, <1>3, RowInvariant, PTL DEF Spec

----------------------------------------------------------------------------
\* Lock order.

\* Only the operations of the instance are in flight.
OpsInv == \A r \in Requests : req[r].op \in Ops \cup {"none"}

LEMMA OpsStep == TypeOK /\ OpsInv /\ [Next]_vars => OpsInv'
<1> SUFFICES ASSUME TypeOK, OpsInv, [Next]_vars PROVE OpsInv'
  OBVIOUS
<1> USE DEF OpsInv
<1>1. ASSUME NEW r \in Requests, NEW rec, Begin(r, rec) PROVE OpsInv'
  BY <1>1 DEF Begin, TypeOK
<1>2. ASSUME NEW r \in Requests, End(r) PROVE OpsInv'
  BY <1>2 DEF End, TypeOK, IdleReq
<1>3. ASSUME NEW r \in Requests, LockAndGoOn(r) \/ mint_count(r) \/ bind_google_identity(r)
      PROVE OpsInv'
  BY <1>3, GoOnMoves DEF Moves
<1>4. ASSUME UNCHANGED req PROVE OpsInv'
  BY <1>4, SMTT(30)
<1>5. ASSUME NEW r \in Requests, Start(r) PROVE OpsInv'
  BY <1>1, <1>4, <1>5, ZenonT(60)
     DEF Start, AuthenticateJwt, AuthenticatePat, issue_reset_token_read, confirm_reset_read,
         google_login, google_login_read, google_bind_read, google_create, unbind_begin,
         hard_delete, revoke_read
<1>6. ASSUME NEW r \in Requests, Step(r) \/ Abort(r) PROVE OpsInv'
  BY <1>2, <1>3, <1>6
     DEF Step, LockAndGiveUp, LockAndLogin, patch_me, mint_refused, mint, issue_reset_token,
         confirm_reset, bind_google_identity_conflict, bind_google_identity_commit,
         unbind_google_identity, google_login_update_name, hard_delete_commit, DeleteRow,
         revoke, Abort
<1> QED
  BY <1>4, <1>5, <1>6 DEF Next, vars, post_register, post_token, ExpirePat, ExpireReset

\* A request waits for one that holds a row lock; that one waits, if at all, for a
\* bind that has swept; and such a bind waits for nobody.
LEMMA WaitsAreShallow ==
  ASSUME RowInv, OpsInv, "delete" \notin Ops
  PROVE  /\ \A q \in Requests : \A p \in WaitsFor(q) : Holds(req[p])
         /\ \A q \in Requests : Holds(req[q]) => \A p \in WaitsFor(q) : req[p].pc = "swept"
         /\ \A q \in Requests : req[q].pc = "swept" => WaitsFor(q) = {}
<1> USE ConstantsAssumption
<1>1. \A p \in Requests : req[p].op # "delete" /\ ShapeOK(req[p]) /\ HeldOK(p, req[p])
  BY DEF OpsInv, RowInv
<1>2. \A p \in Requests : (req[p].pats # {} \/ req[p].resets # {} \/ req[p].pc = "swept") =>
                            req[p].pc = "swept" /\ req[p].op = "google"
  BY <1>1 DEF ShapeOK
<1>3. ASSUME NEW q \in Requests, NEW p \in WaitsFor(q)
      PROVE  /\ p \in Requests
             /\ \/ req[p].pc = "swept" /\ req[p].op = "google"
                \/ /\ lock[req[q].user] = p
                   /\ req[q].pc \in {"read", "renaming"}
  BY <1>1, <1>2 DEF WaitsFor
<1>4. ASSUME NEW q \in Requests, NEW p \in WaitsFor(q) PROVE Holds(req[p])
  <2>1. CASE req[p].pc = "swept" /\ req[p].op = "google"
    BY <2>1 DEF Holds
  <2>2. CASE lock[req[q].user] = p /\ req[q].pc \in {"read", "renaming"}
    BY <2>2, <1>1, <1>3 DEF ShapeOK, RowInv, LockInv
  <2> QED
    BY <1>3, <2>1, <2>2
<1>5. ASSUME NEW q \in Requests, Holds(req[q]), NEW p \in WaitsFor(q)
      PROVE  req[p].pc = "swept"
  BY <1>3, <1>5 DEF Holds
<1>6. ASSUME NEW q \in Requests, req[q].pc = "swept" PROVE WaitsFor(q) = {}
  BY <1>1, <1>2, <1>6 DEF WaitsFor, Holding
<1> QED
  BY <1>4, <1>5, <1>6

\* Every path that takes the users row lock first is free of lock cycles; the one
\* operation left out is hard_delete, which locks the child rows first.
THEOREM LockOrder == ASSUME "delete" \notin Ops PROVE Spec => []NoLockCycle
<1>1. RowInv /\ OpsInv => NoLockCycle
  <2> SUFFICES ASSUME RowInv, OpsInv, NEW S \in SUBSET Requests, NEW r \in S,
                      \A q \in S : WaitsFor(q) \cap S # {}
               PROVE  FALSE
    BY DEF NoLockCycle, InLockCycle
  <2>1. PICK p \in S : Holds(req[p])
    BY WaitsAreShallow
  <2>2. PICK q \in S : req[q].pc = "swept"
    BY <2>1, WaitsAreShallow
  <2> QED
    BY <2>2, WaitsAreShallow
<1>2. Init => OpsInv
  BY DEF Init, OpsInv, IdleReq
<1>3. RowInv /\ OpsInv /\ [Next]_vars => OpsInv'
  BY OpsStep DEF RowInv
<1> QED
  BY <1>1, <1>2, <1>3, RowInvariant, PTL DEF Spec

----------------------------------------------------------------------------
(***************************************************************************)
(* The credential reset on link, for every instance of Credentials: once a *)
(* Google identity has taken a row, nothing its former holder had, or had  *)
(* in flight, gives a way back into it.  Proved for Google names that do   *)
(* not change: with a changed name the property fails, as                  *)
(* google_login_update_name explains.                                      *)
(***************************************************************************)
\* The requests that will write a password, a token or a reset link.
SelfService(q) == q.op \in {"patch_me", "mint"}
Creating(q) == SelfService(q) \/ q.op \in {"reset_request", "reset_confirm"}

\* What the unlocked read of a request says about who authorised it: the holder a
\* token came from, or the holder of the row as long as its epoch is the one read.
AuthorOK(q) ==
  /\ SelfService(q) /\ q.tok # NoToken => pat[q.tok].tenure = q.tenure
  /\ q.op = "reset_confirm" => reset[q.rtok].tenure = q.tenure
  /\ q.op = "reset_request" \/ (SelfService(q) /\ q.tok = NoToken) =>
       /\ q.ses <= session_epoch[q.user]
       /\ q.ses = session_epoch[q.user] => q.tenure = tenure[q.user]
  /\ q.pc # "renaming"

\* Past the re-validation, the request acts for the present holder.
HolderOK(q) == Holds(q) /\ Creating(q) => q.tenure = tenure[q.user]

\* A JWT was issued under an epoch the row has had; under the present one, to the
\* present holder and, if to a Google identity, to the one on the row.
JwtOK(j) ==
  /\ status[j.user] # "absent"
  /\ j.ses <= session_epoch[j.user]
  /\ j.ses = session_epoch[j.user] =>
       /\ j.tenure = tenure[j.user]
       /\ (j.sub # NoSub /\ Live(j.user)) => google_sub[j.user] = j.sub

TenureInv ==
  /\ \A r \in Requests : AuthorOK(req[r]) /\ HolderOK(req[r])
  /\ \A j \in jwts : JwtOK(j)
  /\ PasswordOfHolder /\ PatsOfHolder /\ ResetsOfHolder

\* Action formula: a row only moves forward, and the binding and the holder change
\* only with the epoch.
RowForward(v) ==
  /\ session_epoch[v] <= session_epoch'[v]
  /\ session_epoch'[v] = session_epoch[v] => tenure'[v] = tenure[v]
  /\ status'[v] = "absent" => status[v] = "absent"
  /\ (session_epoch'[v] = session_epoch[v] /\ status[v] # "absent" /\ status'[v] = "live") =>
       status[v] = "live" /\ google_sub'[v] = google_sub[v]

----------------------------------------------------------------------------
LEMMA RowForwardStep ==
  ASSUME RowInv, [Next]_vars, NEW v \in Users
  PROVE  RowForward(v)
<1> USE ConstantsAssumption DEF RowForward
<1>a. TypeOK /\ session_epoch[v] \in Nat
  BY DEF RowInv, TypeOK
<1>0. ASSUME UNCHANGED <<status, google_sub, session_epoch, tenure>> PROVE RowForward(v)
  BY <1>0, <1>a
<1>1. ASSUME NEW u \in Users, post_register(u) \/ post_token(u) PROVE RowForward(v)
  BY <1>0, <1>1, <1>a DEF post_register, post_token, TypeOK, row
<1>2. ASSUME NEW t \in Tokens, ExpirePat(t) PROVE RowForward(v)
  BY <1>0, <1>2 DEF ExpirePat, row
<1>3. ASSUME NEW t \in Resets, ExpireReset(t) PROVE RowForward(v)
  BY <1>0, <1>3 DEF ExpireReset, row
<1>4. ASSUME NEW r \in Requests, Start(r) PROVE RowForward(v)
  <2>1. ASSUME NEW u \in Users, NEW s \in Subs, google_create(r, u, s) PROVE RowForward(v)
    BY <2>1, <1>a DEF google_create, TypeOK
  <2> QED
    BY <2>1, <1>0, <1>4, StartFrame
<1>5. ASSUME NEW r \in Requests, QuietStep(r) PROVE RowForward(v)
  BY <1>0, <1>5, QuietFrame DEF row
<1>6. ASSUME NEW r \in Requests, Step(r) PROVE RowForward(v)
  <2>1. CASE patch_me(r) \/ confirm_reset(r)
    BY <1>0, <2>1 DEF patch_me, confirm_reset
  <2>2. CASE (\E t \in Tokens : mint(r, t)) \/ revoke(r) \/ \E t \in Resets : issue_reset_token(r, t)
    BY <1>0, <2>2 DEF mint, revoke, issue_reset_token, row
  <2>3. CASE bind_google_identity_commit(r)
    BY <2>3, <1>a DEF bind_google_identity_commit, TypeOK
  <2>4. CASE unbind_google_identity(r)
    BY <2>4, <1>a DEF unbind_google_identity, TypeOK
  <2>5. CASE hard_delete_commit(r)
    BY <2>5, <1>a DEF hard_delete_commit, DeleteRow, TypeOK
  <2> QED
    BY <1>6, <1>5, <2>1, <2>2, <2>3, <2>4, <2>5 DEF Step, QuietStep
<1>7. ASSUME NEW r \in Requests, Abort(r) PROVE RowForward(v)
  BY <1>7, <1>5 DEF QuietStep
<1>8. CASE UNCHANGED vars
  BY <1>0, <1>8 DEF vars
<1> QED
  BY <1>1, <1>2, <1>3, <1>4, <1>6, <1>7, <1>8 DEF Next

\* What is known of a request that does not move stays known.
LEMMA AuthorFrame ==
  ASSUME RowInv, [Next]_vars, NEW p \in Requests, req'[p] = req[p],
         AuthorOK(req[p]), HolderOK(req[p])
  PROVE  AuthorOK(req[p])' /\ HolderOK(req[p])'
<1>1. ChildrenStay
  BY ChildrenStayStep
<1>2. req[p] \in Req /\ ShapeOK(req[p])
  BY DEF RowInv, TypeOK
<1>3. req[p].pc # "idle" => req[p].user \in Users /\ RowForward(req[p].user)
  BY <1>2, RowForwardStep DEF ShapeOK
<1>4. session_epoch \in [Users -> Nat] /\ session_epoch' \in [Users -> Nat]
  BY TypeStep DEF RowInv, TypeOK
<1>5. AuthorOK(req[p])'
  <2> USE DEF SelfService
  <2>1. req[p].op # "none" => req[p].pc # "idle"
    BY <1>2 DEF ShapeOK
  <2>2. SelfService(req[p]) /\ req[p].tok # NoToken => pat'[req[p].tok].tenure = req[p].tenure
    BY <1>1, <1>2 DEF ChildrenStay, ShapeOK, AuthorOK, Req
  <2>3. req[p].op = "reset_confirm" => reset'[req[p].rtok].tenure = req[p].tenure
    BY <1>1, <1>2, ConstantsAssumption DEF ChildrenStay, ShapeOK, AuthorOK, Req
  <2>4. req[p].op = "reset_request" \/ (SelfService(req[p]) /\ req[p].tok = NoToken) =>
          /\ req[p].ses <= session_epoch'[req[p].user]
          /\ req[p].ses = session_epoch'[req[p].user] => req[p].tenure = tenure'[req[p].user]
    BY <1>2, <1>3, <1>4, <2>1 DEF AuthorOK, RowForward, Req
  <2> QED
    BY <2>2, <2>3, <2>4 DEF AuthorOK
<1>6. HolderOK(req[p])'
  <2>1. Holds(req[p]) => Untouched(req[p].user)
    BY RowLockProtects
  <2> QED
    BY <2>1 DEF HolderOK, Untouched, Holds, Creating, SelfService
<1> QED
  BY <1>5, <1>6

LEMMA BeginAuthor ==
  ASSUME RowInv, [Next]_vars, TenureInv, NEW p \in Requests, NEW r \in Requests, NEW rec,
         Begin(r, rec), AuthorOK(rec), ~Holds(rec)
  PROVE  AuthorOK(req[p])' /\ HolderOK(req[p])'
<1>1. TypeOK
  BY DEF RowInv
<1>2. Moves(r) /\ req'[r] = rec /\ UNCHANGED <<row, pat, reset>>
  BY <1>1, BeginMoves
<1>3. CASE p = r
  BY <1>2, <1>3 DEF AuthorOK, HolderOK, row
<1>4. CASE p # r
  BY <1>2, <1>4, AuthorFrame DEF Moves, TenureInv
<1> QED
  BY <1>3, <1>4

\* Who authorised a request is known from its unlocked read on, and under the lock
\* the authority is the present holder's.
LEMMA AuthorStep ==
  ASSUME RowInv, [Next]_vars, TenureInv, ~NameChanges, NEW p \in Requests
  PROVE  AuthorOK(req[p])' /\ HolderOK(req[p])'
<1> DEFINE Goal == AuthorOK(req[p])' /\ HolderOK(req[p])'
<1> USE ConstantsAssumption
<1>a. TypeOK /\ req[p] \in Req /\ ShapeOK(req[p]) /\ AuthorOK(req[p]) /\ HolderOK(req[p])
  BY DEF RowInv, TypeOK, TenureInv
<1>b. ASSUME req'[p] = req[p] PROVE Goal
  BY <1>a, <1>b, AuthorFrame
<1>c. ASSUME req'[p] = IdleReq PROVE Goal
  BY <1>c DEF IdleReq, AuthorOK, HolderOK, Creating, SelfService, Holds
<1>d. ASSUME NEW r \in Requests, End(r) PROVE Goal
  BY <1>a, <1>b, <1>c, <1>d, EndMoves DEF Moves
<1>e. ASSUME NEW r \in Requests, NEW rec, Begin(r, rec), AuthorOK(rec), ~Holds(rec) PROVE Goal
  BY <1>e, BeginAuthor
<1> HIDE DEF Goal
<1>1. ASSUME NEW u \in Users, post_register(u) \/ post_token(u) PROVE Goal
  BY <1>1, <1>b DEF post_register, post_token
<1>2. ASSUME NEW t \in Tokens, ExpirePat(t) PROVE Goal
  BY <1>2, <1>b DEF ExpirePat
<1>3. ASSUME NEW t \in Resets, ExpireReset(t) PROVE Goal
  BY <1>3, <1>b DEF ExpireReset
<1>4. ASSUME NEW r \in Requests, Start(r) PROVE Goal
  <2>1. ASSUME NEW op \in {"patch_me", "mint"}, NEW j \in jwts, AuthenticateJwt(r, op, j)
        PROVE Goal
    <3> DEFINE rec == [IdleReq EXCEPT !.op = op, !.pc = "read", !.user = j.user,
                                     !.ses = j.ses, !.tenure = j.tenure]
    <3>1. AuthorOK(rec) /\ ~Holds(rec)
      BY <2>1, <1>a DEF AuthenticateJwt, AuthorOK, SelfService, Holds, IdleReq, TypeOK, Jwt, JwtOK, TenureInv, ValidJwt, session_epoch_matches
    <3>2. Begin(r, rec)
      BY <2>1 DEF AuthenticateJwt
    <3> HIDE DEF rec
    <3> QED
      BY <3>1, <3>2, <1>e
  <2>2. ASSUME NEW op \in {"patch_me", "mint"}, NEW t \in Tokens, AuthenticatePat(r, op, t)
        PROVE Goal
    <3> DEFINE rec == [IdleReq EXCEPT !.op = op, !.pc = "read", !.user = pat[t].owner,
                                     !.tok = t, !.tenure = pat[t].tenure]
    <3>1. AuthorOK(rec) /\ ~Holds(rec)
      BY <2>2, <1>a DEF AuthenticatePat, AuthorOK, SelfService, Holds, IdleReq
    <3>2. Begin(r, rec)
      BY <2>2 DEF AuthenticatePat
    <3> HIDE DEF rec
    <3> QED
      BY <3>1, <3>2, <1>e
  <2>3. ASSUME NEW u \in Users, issue_reset_token_read(r, u)
        PROVE Goal
    <3> DEFINE rec == [IdleReq EXCEPT !.op = "reset_request", !.pc = "read", !.user = u,
                                     !.ses = session_epoch[u], !.tenure = tenure[u]]
    <3>1. AuthorOK(rec) /\ ~Holds(rec)
      BY <2>3, <1>a DEF issue_reset_token_read, AuthorOK, SelfService, Holds, IdleReq, TypeOK
    <3>2. Begin(r, rec)
      BY <2>3 DEF issue_reset_token_read
    <3> HIDE DEF rec
    <3> QED
      BY <3>1, <3>2, <1>e
  <2>4. ASSUME NEW t \in Resets, confirm_reset_read(r, t)
        PROVE Goal
    <3> DEFINE rec == [IdleReq EXCEPT !.op = "reset_confirm", !.pc = "read",
                                     !.user = reset[t].owner, !.rtok = t,
                                     !.tenure = reset[t].tenure]
    <3>1. AuthorOK(rec) /\ ~Holds(rec)
      BY <2>4, <1>a DEF confirm_reset_read, AuthorOK, SelfService, Holds, IdleReq
    <3>2. Begin(r, rec)
      BY <2>4 DEF confirm_reset_read
    <3> HIDE DEF rec
    <3> QED
      BY <3>1, <3>2, <1>e
  <2>5. ASSUME NEW u \in Users, NEW s \in Subs, google_bind_read(r, u, s)
        PROVE Goal
    <3> DEFINE rec == [IdleReq EXCEPT !.op = "google", !.pc = "read", !.user = u, !.sub = s]
    <3>1. AuthorOK(rec) /\ ~Holds(rec)
      BY <2>5, <1>a DEF google_bind_read, AuthorOK, SelfService, Holds, IdleReq
    <3>2. Begin(r, rec)
      BY <2>5 DEF google_bind_read
    <3> HIDE DEF rec
    <3> QED
      BY <3>1, <3>2, <1>e
  <2>6. ASSUME NEW u \in Users, unbind_begin(r, u)
        PROVE Goal
    <3> DEFINE rec == [IdleReq EXCEPT !.op = "unbind", !.pc = "read", !.user = u]
    <3>1. AuthorOK(rec) /\ ~Holds(rec)
      BY <2>6, <1>a DEF unbind_begin, AuthorOK, SelfService, Holds, IdleReq
    <3>2. Begin(r, rec)
      BY <2>6 DEF unbind_begin
    <3> HIDE DEF rec
    <3> QED
      BY <3>1, <3>2, <1>e
  <2>7. ASSUME NEW op \in {"revoke", "admin_revoke"}, NEW t \in Tokens, revoke_read(r, op, t)
        PROVE Goal
    <3> DEFINE rec == [IdleReq EXCEPT !.op = op, !.pc = "read", !.user = pat[t].owner,
                                     !.tok = t]
    <3>1. AuthorOK(rec) /\ ~Holds(rec)
      BY <2>7, <1>a DEF revoke_read, AuthorOK, SelfService, Holds, IdleReq
    <3>2. Begin(r, rec)
      BY <2>7 DEF revoke_read
    <3> HIDE DEF rec
    <3> QED
      BY <3>1, <3>2, <1>e
  <2>8. ASSUME NEW u \in Users, hard_delete(r, u) PROVE Goal
    <3> DEFINE ps == {t \in Tokens : pat[t].owner = u /\ pat[t].state # "deleted"}
               rs == {t \in Resets : reset[t].owner = u /\ reset[t].state # "deleted"}
               rec == [IdleReq EXCEPT !.op = "delete", !.pc = "swept", !.user = u,
                                      !.pats = ps, !.resets = rs]
    <3>1. AuthorOK(rec) /\ ~Holds(rec)
      BY DEF AuthorOK, SelfService, Holds, IdleReq
    <3>2. Begin(r, rec)
      BY <2>8 DEF hard_delete
    <3> HIDE DEF rec
    <3> QED
      BY <3>1, <3>2, <1>e
  <2>9. ASSUME NEW u \in Users,
               google_login(r, u) \/ \E s \in Subs : google_create(r, u, s)
        PROVE Goal
    BY <2>9, <1>b DEF google_login, google_create
  <2> QED
    BY <1>4, <2>1, <2>2, <2>3, <2>4, <2>5, <2>6, <2>7, <2>8, <2>9
       DEF Start, google_login_read
<1>5. ASSUME NEW r \in Requests, LockAndGoOn(r) PROVE Goal
  <2>1. CASE p # r
    BY <1>5, <2>1, <1>a, <1>b, GoOnMoves DEF Moves
  <2>2. CASE p = r
    <3>1. /\ UNCHANGED <<row, pat, reset>>
          /\ req'[p].user = req[p].user /\ req'[p].op = req[p].op /\ req'[p].rtok = req[p].rtok
          /\ req'[p].tok = req[p].tok /\ req'[p].ses = req[p].ses
          /\ req'[p].tenure = req[p].tenure /\ req'[p].pc = "locked"
      BY <1>5, <2>2, <1>a, GoOnMoves DEF LockAndGoOn, TypeOK
    <3>2. AuthorOK(req[p])'
      BY <1>a, <3>1 DEF AuthorOK, SelfService, row
    <3>3. Revalidates(p) /\ req[p].user \in Users
      BY <1>5, <2>2, <1>a DEF LockAndGoOn, lock_user, ShapeOK
    <3>4. ASSUME SelfService(req[p]) PROVE req[p].tenure = tenure[req[p].user]
      <4>1. revalidate_under_user_lock(p)
        BY <3>3, <3>4 DEF SelfService, Revalidates
      <4>2. CASE req[p].tok # NoToken
        <5>1. is_active(req[p].tok) /\ req[p].tok \in Tokens
          BY <4>1, <4>2, <1>a DEF revalidate_under_user_lock, Req
        <5>2. pat[req[p].tok].tenure = tenure[pat[req[p].tok].owner]
          BY <5>1 DEF TenureInv, PatsOfHolder
        <5> QED
          BY <3>4, <4>2, <5>2, <1>a DEF AuthorOK, ShapeOK
      <4>3. CASE req[p].tok = NoToken
        BY <3>4, <4>1, <4>3, <1>a DEF revalidate_under_user_lock, session_epoch_matches, AuthorOK
      <4> QED
        BY <4>2, <4>3
    <3>5. ASSUME req[p].op = "reset_request" PROVE req[p].tenure = tenure[req[p].user]
      BY <3>3, <3>5, <1>a DEF Revalidates, EpochUnmoved, session_epoch_matches, AuthorOK
    <3>6. ASSUME req[p].op = "reset_confirm" PROVE req[p].tenure = tenure[req[p].user]
      <4>1. reset[req[p].rtok].state = "unused" /\ req[p].rtok \in Resets
        BY <3>3, <3>6, <1>a DEF Revalidates, LoadValidToken, ShapeOK
      <4>2. reset[req[p].rtok].tenure = tenure[reset[req[p].rtok].owner]
        BY <4>1 DEF TenureInv, ResetsOfHolder
      <4> QED
        BY <3>6, <4>1, <4>2, <1>a DEF AuthorOK, ShapeOK
    <3>7. HolderOK(req[p])'
      BY <3>1, <3>4, <3>5, <3>6 DEF HolderOK, Creating, SelfService, row
    <3> QED
      BY <3>2, <3>7 DEF Goal
  <2> QED
    BY <2>1, <2>2
<1>6. ASSUME NEW r \in Requests, mint_count(r) \/ bind_google_identity(r) PROVE Goal
  <2>1. CASE p # r
    BY <1>6, <2>1, <1>a, <1>b, GoOnMoves DEF Moves
  <2>2. CASE p = r
    <3>1. /\ UNCHANGED <<row, pat, reset>> /\ Holds(req[p])
          /\ req'[p].user = req[p].user /\ req'[p].op = req[p].op /\ req'[p].rtok = req[p].rtok
          /\ req'[p].tok = req[p].tok /\ req'[p].ses = req[p].ses
          /\ req'[p].tenure = req[p].tenure
      BY <1>6, <2>2, <1>a, GoOnMoves, ZenonT(60) DEF mint_count, bind_google_identity, Holding, Holds
    <3>2. req'[p].pc \in {"counted", "swept"}
      BY <1>6, <2>2, <1>a DEF mint_count, bind_google_identity, TypeOK, Req
    <3> QED
      BY <1>a, <3>1, <3>2, SMTT(30) DEF Goal, AuthorOK, HolderOK, SelfService, Creating, row
  <2> QED
    BY <2>1, <2>2
<1>7. ASSUME NEW r \in Requests, Step(r) \/ Abort(r) PROVE Goal
  BY <1>7, <1>d, <1>5, <1>6
     DEF Step, LockAndGiveUp, LockAndLogin, patch_me, mint_refused, mint, issue_reset_token,
         confirm_reset, bind_google_identity_conflict, bind_google_identity_commit,
         unbind_google_identity, google_login_update_name, hard_delete_commit, DeleteRow,
         revoke, Abort
<1>8. ASSUME UNCHANGED vars PROVE Goal
  BY <1>8, <1>b DEF vars
<1>9. Goal
  BY <1>1, <1>2, <1>3, <1>4, <1>7, <1>8 DEF Next
<1> QED
  BY <1>9 DEF Goal

LEMMA JwtStep ==
  ASSUME RowInv, [Next]_vars, TenureInv, NEW j \in jwts'
  PROVE  JwtOK(j)'
<1> USE ConstantsAssumption
<1>a. TypeOK /\ TypeOK'
  BY TypeStep DEF RowInv
<1>b. j \in Jwt
  BY <1>a DEF TypeOK
<1>c. ASSUME j \in jwts PROVE JwtOK(j)'
  <2>1. RowForward(j.user) /\ JwtOK(j) /\ j.user \in Users
    BY <1>b, <1>c, RowForwardStep DEF TenureInv, Jwt
  <2> QED
    BY <1>a, <1>b, <2>1 DEF RowForward, JwtOK, Live, TypeOK, Jwt
\* A JWT issued in this step carries the epoch and the holder of the row.
<1>d. ASSUME NEW u \in Users, NEW ten, NEW s,
             j = JwtFor(u, session_epoch'[u], ten, s),
             status'[u] # "absent", ten = tenure'[u],
             s # NoSub => google_sub'[u] = s
      PROVE  JwtOK(j)'
  BY <1>a, <1>d DEF JwtFor, JwtOK, TypeOK
<1>1. ASSUME NEW u \in Users, post_register(u) PROVE JwtOK(j)'
  <2>1. CASE j \in jwts
    BY <2>1, <1>c
  <2>2. CASE j = JwtFor(u, 0, tenure[u], NoSub)
    BY <2>2, <1>1, <1>a DEF post_register, JwtFor, JwtOK, TypeOK
  <2> QED
    BY <1>1, <2>1, <2>2 DEF post_register
<1>2. ASSUME NEW u \in Users, post_token(u) PROVE JwtOK(j)'
  <2>1. password[u] = tenure[u]
    BY <1>2 DEF post_token, TenureInv, PasswordOfHolder
  <2> QED
    BY <1>2, <2>1, <1>c, <1>d DEF post_token, Live, row
<1>3. ASSUME NEW t \in Tokens, ExpirePat(t) PROVE JwtOK(j)'
  BY <1>3, <1>c DEF ExpirePat
<1>4. ASSUME NEW t \in Resets, ExpireReset(t) PROVE JwtOK(j)'
  BY <1>4, <1>c, SMTT(30) DEF ExpireReset
<1>5. ASSUME NEW r \in Requests, Start(r) PROVE JwtOK(j)'
  <2>1. ASSUME NEW u \in Users, google_login(r, u) PROVE JwtOK(j)'
    BY <2>1, <1>c, <1>d DEF google_login, Live, row
  <2>2. ASSUME NEW u \in Users, NEW s \in Subs, google_create(r, u, s) PROVE JwtOK(j)'
    <3>1. CASE j \in jwts
      BY <3>1, <1>c
    <3>2. CASE j = JwtFor(u, 0, tenure[u], s)
      BY <3>2, <2>2, <1>a DEF google_create, JwtFor, JwtOK, TypeOK
    <3> QED
      BY <2>2, <3>1, <3>2 DEF google_create
  <2> QED
    BY <1>5, <1>c, <2>1, <2>2, ZenonT(60)
       DEF Start, AuthenticateJwt, AuthenticatePat, issue_reset_token_read, confirm_reset_read,
           google_login_read, google_bind_read, unbind_begin, hard_delete, revoke_read, Begin
<1>6. ASSUME NEW r \in Requests, Step(r) \/ Abort(r) PROVE JwtOK(j)'
  <2>0. ShapeOK(req[r]) /\ AuthorOK(req[r])
    BY DEF RowInv, TenureInv
  <2>1. CASE LockAndLogin(r)
    BY <2>0, <2>1, <1>c, <1>d DEF LockAndLogin, lock_user, Live, row, ShapeOK
  <2>2. CASE bind_google_identity_commit(r)
    <3> DEFINE u == req[r].user
    <3>1. u \in Users /\ Live(u)
      BY <2>0, <2>2 DEF RowInv, ShapeOK, HeldOK, Holds, bind_google_identity_commit
    <3>2. session_epoch'[u] = session_epoch[u] + 1 /\ tenure'[u] = tenure[u] + 1
      BY <2>2, <3>1, <1>a DEF bind_google_identity_commit, TypeOK
    <3>3. google_sub'[u] = req[r].sub /\ status'[u] # "absent"
      BY <2>2, <3>1, <1>a DEF bind_google_identity_commit, TypeOK, Live
    <3>4. jwts' = jwts \cup {JwtFor(u, session_epoch'[u], tenure'[u], req[r].sub)}
      BY <2>2, <3>2 DEF bind_google_identity_commit
    <3> HIDE DEF u
    <3> QED
      BY <3>1, <3>3, <3>4, <1>c, <1>d
  <2>3. ~google_login_update_name(r)
    BY <2>0 DEF google_login_update_name, AuthorOK
  <2> QED
    BY <1>6, <1>c, <2>1, <2>2, <2>3
       DEF Step, Abort, LockAndGoOn, LockAndGiveUp, patch_me, mint_count, mint_refused, mint,
           issue_reset_token, confirm_reset, bind_google_identity,
           bind_google_identity_conflict, unbind_google_identity, hard_delete_commit,
           DeleteRow, revoke
<1>7. CASE UNCHANGED vars
  BY <1>7, <1>c DEF vars
<1> QED
  BY <1>1, <1>2, <1>3, <1>4, <1>5, <1>6, <1>7 DEF Next

\* The three credentials a row keeps, together.
OfHolder == PasswordOfHolder /\ PatsOfHolder /\ ResetsOfHolder

LEMMA OfHolderStep == RowInv /\ TenureInv /\ [Next]_vars => OfHolder'
<1> SUFFICES ASSUME RowInv, TenureInv, [Next]_vars PROVE OfHolder'
  OBVIOUS
<1> USE ConstantsAssumption DEF OfHolder, PasswordOfHolder, PatsOfHolder, ResetsOfHolder, is_active
<1>a. TypeOK /\ OwnerInv /\ OfHolder
  BY DEF RowInv, TenureInv
<1>0. ASSUME UNCHANGED <<password, tenure, pat, reset>> PROVE OfHolder'
  BY <1>0, <1>a
<1>1. ASSUME NEW u \in Users, post_register(u) \/ post_token(u) PROVE OfHolder'
  BY <1>0, <1>1, <1>a DEF post_register, post_token, TypeOK, row
<1>2. ASSUME NEW t \in Tokens, ExpirePat(t) PROVE OfHolder'
  BY <1>2, <1>a DEF ExpirePat, TypeOK, Pat, row
<1>3. ASSUME NEW t \in Resets, ExpireReset(t) PROVE OfHolder'
  BY <1>3, <1>a DEF ExpireReset, TypeOK, Reset, row
<1>4. ASSUME NEW r \in Requests, Start(r) PROVE OfHolder'
  BY <1>0, <1>4, StartFrame
<1>5. ASSUME NEW r \in Requests, QuietStep(r) PROVE OfHolder'
  BY <1>0, <1>5, QuietFrame DEF row
<1>6. ASSUME NEW r \in Requests, Step(r) PROVE OfHolder'
  <2>0. ShapeOK(req[r]) /\ HeldOK(r, req[r]) /\ HolderOK(req[r])
    BY DEF RowInv, TenureInv
  <2>1. CASE patch_me(r)
    BY <2>0, <2>1, <1>a DEF patch_me, Holding, Holds, HolderOK, Creating, SelfService, TypeOK
  <2>2. ASSUME NEW t \in Tokens, mint(r, t) PROVE OfHolder'
    BY <2>0, <2>2, <1>a
       DEF mint, ShapeOK, Holds, HolderOK, Creating, SelfService, TypeOK, row
  <2>3. ASSUME NEW t \in Resets, issue_reset_token(r, t) PROVE OfHolder'
    BY <2>0, <2>3, <1>a
       DEF issue_reset_token, Holding, Holds, HolderOK, Creating, TypeOK, row
  <2>4. CASE confirm_reset(r)
    BY <2>0, <2>4, <1>a DEF confirm_reset, Holding, Holds, HolderOK, Creating, TypeOK, Reset
  <2>5. CASE bind_google_identity_commit(r)
    <3> DEFINE u == req[r].user
    <3>1. /\ u \in Users
          /\ ActivePats(u) \subseteq req[r].pats /\ UnusedResets(u) \subseteq req[r].resets
      BY <2>0, <2>5 DEF bind_google_identity_commit, ShapeOK, HeldOK, Holds
    <3>2. PasswordOfHolder'
      BY <2>5, <3>1, <1>a DEF bind_google_identity_commit, TypeOK
    <3>3. PatsOfHolder'
      BY <2>5, <3>1, <1>a DEF bind_google_identity_commit, ActivePats, TypeOK, Pat, OwnerInv
    <3>4. ResetsOfHolder'
      BY <2>5, <3>1, <1>a DEF bind_google_identity_commit, UnusedResets, TypeOK, Reset, OwnerInv
    <3> QED
      BY <3>2, <3>3, <3>4
  <2>6. CASE unbind_google_identity(r)
    BY <1>0, <2>6 DEF unbind_google_identity
  <2>7. CASE hard_delete_commit(r)
    BY <2>7, <1>a DEF hard_delete_commit, DeleteRow, TypeOK, Pat, Reset
  <2>8. CASE revoke(r)
    BY <2>8, <1>a DEF revoke, TypeOK, Pat, row
  <2> QED
    BY <1>6, <1>5, <2>1, <2>2, <2>3, <2>4, <2>5, <2>6, <2>7, <2>8 DEF Step, QuietStep
<1>7. ASSUME NEW r \in Requests, Abort(r) PROVE OfHolder'
  BY <1>7, <1>5 DEF QuietStep
<1>8. CASE UNCHANGED vars
  BY <1>0, <1>8 DEF vars
<1> QED
  BY <1>1, <1>2, <1>3, <1>4, <1>6, <1>7, <1>8 DEF Next

LEMMA TenureInvInit == Init => TenureInv
<1> SUFFICES ASSUME Init PROVE TenureInv
  OBVIOUS
<1>1. \A r \in Requests : AuthorOK(req[r]) /\ HolderOK(req[r])
  BY DEF Init, IdleReq, AuthorOK, HolderOK, SelfService, Creating, Holds
<1>2. \A j \in jwts : JwtOK(j)
  BY DEF Init
<1>3. PasswordOfHolder /\ PatsOfHolder /\ ResetsOfHolder
  BY DEF Init, PasswordOfHolder, PatsOfHolder, ResetsOfHolder, is_active
<1> QED
  BY <1>1, <1>2, <1>3 DEF TenureInv

LEMMA TenureInvStep == ~NameChanges /\ RowInv /\ TenureInv /\ [Next]_vars => TenureInv'
  BY AuthorStep, JwtStep, OfHolderStep DEF TenureInv, OfHolder

LEMMA TenureInvariant == ASSUME ~NameChanges PROVE Spec => []TenureInv
<1>1. RowInv /\ TenureInv /\ [Next]_vars => TenureInv'
  BY TenureInvStep
<1> QED
  BY <1>1, TenureInvInit, RowInvariant, PTL DEF Spec

\* AUTH.md, "Credential reset on link": a party who held the row before a Google
\* bind keeps no password, no API token, no reset link and no session on it, however
\* its requests were interleaved with the bind.
THEOREM ResetOnLink == ASSUME ~NameChanges PROVE Spec => []NoWayBack
<1>1. TenureInv => NoWayBack
  BY DEF TenureInv, NoWayBack, JwtsOfHolder, JwtOK, ValidJwt, session_epoch_matches
<1> QED
  BY <1>1, TenureInvariant, PTL

\* delete_user_google_binding: no session of a released binding is accepted again.
THEOREM SessionsEndWithBinding == ASSUME ~NameChanges PROVE Spec => []SessionsOfBinding
<1>1. TenureInv => SessionsOfBinding
  BY DEF TenureInv, SessionsOfBinding, JwtOK, ValidJwt, session_epoch_matches
<1> QED
  BY <1>1, TenureInvariant, PTL

============================================================================

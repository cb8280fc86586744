---------------------------- MODULE Credentials ----------------------------
(***************************************************************************)
(* The credential store of DataSpoke: the rows of users, api_tokens and    *)
(* password_reset_tokens, the JWTs issued from them, and the requests that *)
(* create, change and invalidate credentials (src/backend/auth,            *)
(* src/api/routers/auth.py, src/api/routers/admin.py).                     *)
(*                                                                         *)
(* A request is one database transaction at READ COMMITTED.  It first      *)
(* reads, without a lock, what authorises it; then it takes the users row  *)
(* lock (SELECT ... FOR UPDATE) and re-validates; then it writes and       *)
(* commits.  Requests interleave between these steps, and any of them may  *)
(* be rolled back before it commits.                                       *)
(*                                                                         *)
(* An operator name_variant (an underscore and a word that is not in the   *)
(* code) is a faulty version of the operator name that follows it, used to *)
(* see that the properties notice the fault.                               *)
(*                                                                         *)
(* A Google bind hands a row to a new holder.  tenure[u] counts the binds  *)
(* of row u, and every credential remembers the tenure of the holder whose *)
(* authority produced it.  tenure is an auxiliary variable: no action      *)
(* reads it.                                                               *)
(***************************************************************************)
EXTENDS Integers, FiniteSets

CONSTANTS
  Users,      \* primary keys of users; a uuid4 is never used again
  Subs,       \* Google account identifiers (the sub claim)
  Tokens,     \* primary keys of api_tokens
  Resets,     \* primary keys of password_reset_tokens
  Requests,   \* requests in flight at the same time
  Ops,        \* the operations the requests perform
  NameChanges,          \* may a Google name claim differ from the stored name?
  MAX_ACTIVE_PER_USER,  \* _MAX_ACTIVE_PER_USER
  MaxEpoch,   \* bound on session_epoch
  NoUser, NoSub, NoToken, NoReset, NoReq

AllOps == {"patch_me", "mint", "reset_request", "reset_confirm",
           "google", "unbind", "delete", "revoke", "admin_revoke"}

\* The operations that call lock_user.
LockOps == {"patch_me", "mint", "reset_request", "reset_confirm",
            "google", "unbind"}

ASSUME ConstantsAssumption ==
  /\ NoUser \notin Users /\ NoSub \notin Subs /\ NoToken \notin Tokens
  /\ NoReset \notin Resets /\ NoReq \notin Requests
  /\ Ops \subseteq AllOps
  /\ NameChanges \in BOOLEAN
  /\ MAX_ACTIVE_PER_USER \in Nat
  /\ MaxEpoch \in Nat

VARIABLES
  status,         \* is the users row there?
  password,       \* password_hash: NoPassword (NULL) or its setter's tenure
  google_sub,     \* google_sub: NoSub is NULL
  session_epoch,  \* session_epoch
  tenure,         \* auxiliary: the number of Google binds of the row
  pat,            \* api_tokens rows
  reset,          \* password_reset_tokens rows
  jwts,           \* access and refresh JWTs issued so far
  lock,           \* holder of the users row lock
  req,            \* requests in flight
  revokeEvents    \* AUTH.API_TOKEN_REVOKED events per token

vars == <<status, password, google_sub, session_epoch, tenure, pat, reset,
          jwts, lock, req, revokeEvents>>
row  == <<status, password, google_sub, session_epoch, tenure>>

NoPassword == -1

\* revoked_at IS NULL holds in "active" and in "expired" (past expires_at).
PatState   == {"absent", "active", "expired", "revoked", "deleted"}
\* used_at IS NULL holds in "unused" and in "expired".
ResetState == {"absent", "unused", "expired", "used", "deleted"}

Pat   == [state : PatState, owner : Users \cup {NoUser}, tenure : Nat]
Reset == [state : ResetState, owner : Users \cup {NoUser}, tenure : Nat]
Jwt   == [user : Users, ses : Nat, tenure : Nat, sub : Subs \cup {NoSub}]

(***************************************************************************)
(* A request: its operation, how far it is, the row it works on, and what  *)
(* its unlocked read returned (ses: the epoch read, tok / rtok: the token  *)
(* presented, sub: the Google identity).  pats and resets are the child    *)
(* rows its statements have written and so hold row locks on.              *)
(***************************************************************************)
Req == [op : AllOps \cup {"none"},
        pc : {"idle", "read", "locked", "counted", "renaming", "swept"},
        user : Users \cup {NoUser}, ses : Nat,
        tok : Tokens \cup {NoToken}, rtok : Resets \cup {NoReset},
        tenure : Nat, sub : Subs \cup {NoSub},
        pats : SUBSET Tokens, resets : SUBSET Resets]

IdleReq == [op |-> "none", pc |-> "idle", user |-> NoUser, ses |-> 0,
            tok |-> NoToken, rtok |-> NoReset, tenure |-> 0, sub |-> NoSub,
            pats |-> {}, resets |-> {}]

TypeOK ==
  /\ status \in [Users -> {"absent", "live", "deleted"}]
  /\ password \in [Users -> Nat \cup {NoPassword}]
  /\ google_sub \in [Users -> Subs \cup {NoSub}]
  /\ session_epoch \in [Users -> Nat]
  /\ tenure \in [Users -> Nat]
  /\ pat \in [Tokens -> Pat]
  /\ reset \in [Resets -> Reset]
  /\ jwts \subseteq Jwt
  /\ lock \in [Users -> Requests \cup {NoReq}]
  /\ req \in [Requests -> Req]
  /\ revokeEvents \in [Tokens -> Nat]

Init ==
  /\ status = [u \in Users |-> "absent"]
  /\ password = [u \in Users |-> NoPassword]
  /\ google_sub = [u \in Users |-> NoSub]
  /\ session_epoch = [u \in Users |-> 0]
  /\ tenure = [u \in Users |-> 0]
  /\ pat = [t \in Tokens |-> [state |-> "absent", owner |-> NoUser, tenure |-> 0]]
  /\ reset = [t \in Resets |-> [state |-> "absent", owner |-> NoUser, tenure |-> 0]]
  /\ jwts = {}
  /\ lock = [u \in Users |-> NoReq]
  /\ req = [r \in Requests |-> IdleReq]
  /\ revokeEvents = [t \in Tokens |-> 0]

----------------------------------------------------------------------------
\* State functions.

Live(u) == status[u] = "live"

\* session_epoch_matches, on a row that still exists.
session_epoch_matches(ses, u) == ses = session_epoch[u]
ValidJwt(j) == Live(j.user) /\ session_epoch_matches(j.ses, j.user)

\* revoked_at IS NULL: what is_active, mint's count and revoke_all_for_user read.
is_active(t) == pat[t].state \in {"active", "expired"}
ActivePats(u) == {t \in Tokens : pat[t].owner = u /\ is_active(t)}

\* used_at IS NULL: what delete_unused_for_user deletes.
UnusedResets(u) ==
  {t \in Resets : reset[t].owner = u /\ reset[t].state \in {"unused", "expired"}}

\* A child row written by an uncommitted transaction other than r's.
PatLockedByOther(t, r)   == \E q \in Requests \ {r} : t \in req[q].pats
ResetLockedByOther(t, r) == \E q \in Requests \ {r} : t \in req[q].resets

\* UNIQUE(google_sub): a committed row holds s, or an uncommitted bind does (the
\* unique index makes a second writer wait for that transaction).
SubTaken(s, others) == \E v \in others : Live(v) /\ google_sub[v] = s
SubPending(s, r) ==
  \E q \in Requests \ {r} : req[q].op = "google" /\ req[q].pc = "swept" /\ req[q].sub = s

\* Bound: the binds and unbinds in flight on u may still raise its epoch.
EpochBudget(u) ==
  session_epoch[u] + Cardinality({q \in Requests : /\ req[q].user = u
                                                   /\ req[q].op \in {"google", "unbind"}}) < MaxEpoch

\* Bound: the requests in flight that may still use up a primary key.
RoomFor(op) ==
  LET pending == Cardinality({q \in Requests : req[q].op = op}) IN
  /\ op = "mint" => pending < Cardinality({t \in Tokens : pat[t].state = "absent"})
  /\ op = "reset_request" => pending < Cardinality({t \in Resets : reset[t].state = "absent"})

JwtFor(u, ses, ten, s) == [user |-> u, ses |-> ses, tenure |-> ten, sub |-> s]

\* The transaction of r ends, by commit or by rollback: its locks go.
End_keepsLock(r) ==
  /\ req' = [req EXCEPT ![r] = IdleReq]
  /\ UNCHANGED lock

End(r) ==
  /\ req' = [req EXCEPT ![r] = IdleReq]
  /\ lock' = [u \in Users |-> IF lock[u] = r THEN NoReq ELSE lock[u]]

\* r begins: it has made its unlocked read and goes on to the next step.
Begin(r, rec) ==
  /\ req[r].pc = "idle"
  /\ rec.op \in Ops /\ RoomFor(rec.op)
  /\ req' = [req EXCEPT ![r] = rec]
  /\ UNCHANGED <<row, pat, reset, jwts, lock, revokeEvents>>

----------------------------------------------------------------------------
\* Requests that are a single statement.

\* post_register: create_user with a password, commit, tokens under epoch 0.
post_register(u) ==
  /\ status[u] = "absent"
  /\ status' = [status EXCEPT ![u] = "live"]
  /\ password' = [password EXCEPT ![u] = tenure[u]]
  /\ jwts' = jwts \cup {JwtFor(u, 0, tenure[u], NoSub)}
  /\ UNCHANGED <<google_sub, session_epoch, tenure, pat, reset, lock, req,
                 revokeEvents>>

\* post_token: password login.  The row read once gives both the hash that is
\* verified and the epoch the tokens carry.
post_token(u) ==
  /\ Live(u)
  /\ password[u] # NoPassword
  /\ jwts' = jwts \cup {JwtFor(u, session_epoch[u], password[u], NoSub)}
  /\ UNCHANGED <<row, pat, reset, lock, req, revokeEvents>>

\* expires_at passes.
ExpirePat(t) ==
  /\ pat[t].state = "active"
  /\ pat' = [pat EXCEPT ![t].state = "expired"]
  /\ UNCHANGED <<row, reset, jwts, lock, req, revokeEvents>>

ExpireReset(t) ==
  /\ reset[t].state = "unused"
  /\ reset' = [reset EXCEPT ![t].state = "expired"]
  /\ UNCHANGED <<row, pat, jwts, lock, req, revokeEvents>>

----------------------------------------------------------------------------
\* Unlocked reads: what authorises a request.

\* require_authenticated on a bearer JWT.
AuthenticateJwt(r, op, j) ==
  /\ op \in {"patch_me", "mint"}
  /\ j \in jwts
  /\ ValidJwt(j)
  /\ Begin(r, [IdleReq EXCEPT !.op = op, !.pc = "read", !.user = j.user,
                              !.ses = j.ses, !.tenure = j.tenure])

\* require_authenticated on an API token (lookup_and_validate).
AuthenticatePat(r, op, t) ==
  /\ op \in {"patch_me", "mint"}
  /\ pat[t].state = "active"
  /\ Begin(r, [IdleReq EXCEPT !.op = op, !.pc = "read", !.user = pat[t].owner,
                              !.tok = t, !.tenure = pat[t].tenure])

\* issue_reset_token up to the email: the row of the address and its epoch.
issue_reset_token_read(r, u) ==
  /\ Live(u)
  /\ Begin(r, [IdleReq EXCEPT !.op = "reset_request", !.pc = "read", !.user = u,
                              !.ses = session_epoch[u], !.tenure = tenure[u]])

\* confirm_reset: the first _load_valid_token.
confirm_reset_read_marks(r, t) ==
  /\ reset[t].state = "unused"
  /\ Begin(r, [IdleReq EXCEPT !.op = "reset_confirm", !.pc = "read",
                              !.user = reset[t].owner, !.rtok = t,
                              !.tenure = reset[t].tenure, !.resets = {t}])

confirm_reset_read(r, t) ==
  /\ reset[t].state = "unused"
  /\ Begin(r, [IdleReq EXCEPT !.op = "reset_confirm", !.pc = "read",
                              !.user = reset[t].owner, !.rtok = t,
                              !.tenure = reset[t].tenure])

\* resolve_or_create_user, branch 1, the row carries the sub and the same name:
\* a login; the refresh token carries the epoch of the row that was read.
google_login(r, u) ==
  /\ "google" \in Ops
  /\ req[r].pc = "idle"
  /\ Live(u) /\ google_sub[u] # NoSub
  /\ jwts' = jwts \cup {JwtFor(u, session_epoch[u], tenure[u], google_sub[u])}
  /\ UNCHANGED <<row, pat, reset, lock, req, revokeEvents>>

\* Branch 1 with a changed name: update_name follows.
google_login_read(r, u) ==
  /\ NameChanges
  /\ Live(u) /\ google_sub[u] # NoSub
  /\ Begin(r, [IdleReq EXCEPT !.op = "google", !.pc = "renaming", !.user = u,
                              !.tenure = tenure[u], !.sub = google_sub[u]])

\* update_name: the UPDATE waits for the row lock, refresh re-reads the whole row,
\* and the token issued after the commit carries the epoch just re-read.
google_login_update_name(r) ==
  LET u == req[r].user IN
  /\ req[r].pc = "renaming"
  /\ lock[u] = NoReq
  /\ jwts' = IF Live(u)
             THEN jwts \cup {JwtFor(u, session_epoch[u], req[r].tenure, req[r].sub)}
             ELSE jwts
  /\ End(r)
  /\ UNCHANGED <<row, pat, reset, revokeEvents>>

\* Branch 2: no row carries the sub, a row carries the email.
google_bind_read(r, u, s) ==
  /\ ~SubTaken(s, Users)
  /\ Live(u) /\ EpochBudget(u)
  /\ Begin(r, [IdleReq EXCEPT !.op = "google", !.pc = "read", !.user = u, !.sub = s])

\* Branch 3: create_user with the sub and no password.
google_create(r, u, s) ==
  /\ "google" \in Ops
  /\ req[r].pc = "idle"
  /\ ~SubTaken(s, Users) /\ ~SubPending(s, r)
  /\ status[u] = "absent"
  /\ status' = [status EXCEPT ![u] = "live"]
  /\ google_sub' = [google_sub EXCEPT ![u] = s]
  /\ jwts' = jwts \cup {JwtFor(u, 0, tenure[u], s)}
  /\ UNCHANGED <<password, session_epoch, tenure, pat, reset, lock, req,
                 revokeEvents>>

\* delete_user_google_binding names the row by its id.
unbind_begin(r, u) ==
  /\ Live(u) /\ EpochBudget(u)
  /\ Begin(r, [IdleReq EXCEPT !.op = "unbind", !.pc = "read", !.user = u])

----------------------------------------------------------------------------
\* The users row lock and the re-validation under it.

\* What each operation re-checks once it holds the lock, on the row as it is now.

\* revalidate_under_user_lock: the API token, or the ses claim of the JWT.
revalidate_under_user_lock(r) ==
  IF req[r].tok # NoToken THEN is_active(req[r].tok)
                          ELSE session_epoch_matches(req[r].ses, req[r].user)

\* issue_reset_token: the epoch of the unlocked read.
EpochUnmoved_unchecked(r) == TRUE
EpochUnmoved(r) == session_epoch_matches(req[r].ses, req[r].user)

\* confirm_reset: the second _load_valid_token.
LoadValidToken_once(r) == TRUE
LoadValidToken(r) == reset[req[r].rtok].state = "unused"

\* bind_google_identity, unbind_google_identity.
Bindable_rebind(r)  == google_sub[req[r].user] \in {NoSub, req[r].sub}
Bindable(r)         == google_sub[req[r].user] = NoSub
Unbindable_anyRow(r) == google_sub[req[r].user] # NoSub
Unbindable(r) ==
  google_sub[req[r].user] # NoSub /\ password[req[r].user] # NoPassword

Revalidates(r) ==
  CASE req[r].op \in {"patch_me", "mint"} -> revalidate_under_user_lock(r)
    [] req[r].op = "reset_request" -> EpochUnmoved(r)
    [] req[r].op = "reset_confirm" -> LoadValidToken(r)
    [] req[r].op = "google" -> Bindable(r)
    [] req[r].op = "unbind" -> Unbindable(r)
    [] OTHER -> FALSE

\* lock_user: SELECT ... FOR UPDATE waits for the lock and returns the row as the
\* last committer left it.
lock_user_noWait(r) ==
  /\ req[r].pc = "read" /\ req[r].op \in LockOps
  /\ Live(req[r].user)

lock_user(r) ==
  LET u == req[r].user IN
  /\ req[r].pc = "read" /\ req[r].op \in LockOps
  /\ lock[u] = NoReq
  /\ Live(u)

\* The re-validation succeeds: the request goes on, holding the lock.
LockAndGoOn(r) ==
  /\ lock_user(r)
  /\ Revalidates(r)
  /\ lock' = [lock EXCEPT ![req[r].user] = r]
  /\ req' = [req EXCEPT ![r].pc = "locked"]
  /\ UNCHANGED <<row, pat, reset, jwts, revokeEvents>>

\* It fails, or the row is gone: 401, 400, 404, 409, or a declined write; nothing
\* is written.
LockAndGiveUp(r) ==
  /\ req[r].pc = "read" /\ req[r].op \in LockOps
  /\ \/ lock_user(r) /\ ~Revalidates(r)
        /\ ~(req[r].op = "google" /\ google_sub[req[r].user] = req[r].sub)
     \/ ~Live(req[r].user)
  /\ End(r)
  /\ UNCHANGED <<row, pat, reset, jwts, revokeEvents>>

\* bind_google_identity finds its own sub on the row (bound=False): a login.
LockAndLogin(r) ==
  LET u == req[r].user IN
  /\ lock_user(r)
  /\ req[r].op = "google" /\ google_sub[u] = req[r].sub
  /\ jwts' = jwts \cup {JwtFor(u, session_epoch[u], tenure[u], req[r].sub)}
  /\ End(r)
  /\ UNCHANGED <<row, pat, reset, revokeEvents>>

----------------------------------------------------------------------------
\* Writes under the lock, and their commit.

Holding(r, op) == req[r].pc = "locked" /\ req[r].op = op

\* patch_me: update_password, commit.
patch_me(r) ==
  /\ Holding(r, "patch_me")
  /\ password' = [password EXCEPT ![req[r].user] = req[r].tenure]
  /\ End(r)
  /\ UNCHANGED <<status, google_sub, session_epoch, tenure, pat, reset, jwts,
                 revokeEvents>>

\* mint: count the active tokens and refuse at the cap ...
mint_count(r) ==
  /\ Holding(r, "mint")
  /\ Cardinality(ActivePats(req[r].user)) < MAX_ACTIVE_PER_USER
  /\ req' = [req EXCEPT ![r].pc = "counted"]
  /\ UNCHANGED <<row, pat, reset, jwts, lock, revokeEvents>>

mint_refused(r) ==
  /\ Holding(r, "mint")
  /\ Cardinality(ActivePats(req[r].user)) >= MAX_ACTIVE_PER_USER
  /\ End(r)
  /\ UNCHANGED <<row, pat, reset, jwts, revokeEvents>>

\* ... else insert the row and commit.
mint(r, t) ==
  /\ req[r].pc = "counted"
  /\ pat[t].state = "absent"
  /\ pat' = [pat EXCEPT ![t] = [state |-> "active", owner |-> req[r].user,
                                tenure |-> req[r].tenure]]
  /\ End(r)
  /\ UNCHANGED <<row, reset, jwts, revokeEvents>>

\* issue_reset_token: the token row, commit.
issue_reset_token(r, t) ==
  /\ Holding(r, "reset_request")
  /\ reset[t].state = "absent"
  /\ reset' = [reset EXCEPT ![t] = [state |-> "unused", owner |-> req[r].user,
                                    tenure |-> req[r].tenure]]
  /\ End(r)
  /\ UNCHANGED <<row, pat, jwts, revokeEvents>>

\* confirm_reset: update_password, used_at, commit.
confirm_reset(r) ==
  LET t == req[r].rtok IN
  /\ Holding(r, "reset_confirm")
  /\ ~ResetLockedByOther(t, r)
  /\ password' = [password EXCEPT ![req[r].user] = req[r].tenure]
  /\ reset' = [reset EXCEPT ![t].state = "used"]
  /\ End(r)
  /\ UNCHANGED <<status, google_sub, session_epoch, tenure, pat, jwts,
                 revokeEvents>>

\* bind_google_identity up to its commit: flush of the row (UNIQUE(google_sub)),
\* revoke_all_for_user and delete_unused_for_user, each on the rows its statement
\* sees.  None of it is visible to others yet.
bind_google_identity(r) ==
  LET u == req[r].user IN
  /\ Holding(r, "google")
  /\ ~SubTaken(req[r].sub, Users \ {u}) /\ ~SubPending(req[r].sub, r)
  /\ \A t \in ActivePats(u) : ~PatLockedByOther(t, r)
  /\ \A t \in UnusedResets(u) : ~ResetLockedByOther(t, r)
  /\ req' = [req EXCEPT ![r].pc = "swept", ![r].pats = ActivePats(u),
                        ![r].resets = UnusedResets(u)]
  /\ UNCHANGED <<row, pat, reset, jwts, lock, revokeEvents>>

\* GOOGLE_ACCOUNT_LINKED_ELSEWHERE: another row has the sub; rollback.
bind_google_identity_conflict(r) ==
  /\ Holding(r, "google")
  /\ SubTaken(req[r].sub, Users \ {req[r].user})
  /\ End(r)
  /\ UNCHANGED <<row, pat, reset, jwts, revokeEvents>>

\* The bind commits, and the callback issues a refresh token under the new epoch.
bind_google_identity_commit(r) ==
  LET u == req[r].user IN
  /\ req[r].pc = "swept" /\ req[r].op = "google"
  /\ google_sub' = [google_sub EXCEPT ![u] = req[r].sub]
  /\ password' = [password EXCEPT ![u] = NoPassword]
  /\ session_epoch' = [session_epoch EXCEPT ![u] = @ + 1]
  /\ tenure' = [tenure EXCEPT ![u] = @ + 1]
  /\ pat' = [t \in Tokens |-> IF t \in req[r].pats
                              THEN [pat[t] EXCEPT !.state = "revoked"] ELSE pat[t]]
  /\ reset' = [t \in Resets |-> IF t \in req[r].resets
                                THEN [reset[t] EXCEPT !.state = "deleted"] ELSE reset[t]]
  /\ jwts' = jwts \cup {JwtFor(u, session_epoch[u] + 1, tenure[u] + 1, req[r].sub)}
  /\ End(r)
  /\ UNCHANGED <<status, revokeEvents>>

\* unbind_google_identity, commit.  Tokens are left alone.
unbind_google_identity_keepEpoch(r) ==
  /\ Holding(r, "unbind")
  /\ google_sub' = [google_sub EXCEPT ![req[r].user] = NoSub]
  /\ End(r)
  /\ UNCHANGED <<status, password, session_epoch, tenure, pat, reset, jwts, revokeEvents>>

unbind_google_identity_epochDown(r) ==
  /\ Holding(r, "unbind")
  /\ google_sub' = [google_sub EXCEPT ![req[r].user] = NoSub]
  /\ session_epoch' = [session_epoch EXCEPT ![req[r].user] = @ - 1]
  /\ End(r)
  /\ UNCHANGED <<status, password, tenure, pat, reset, jwts, revokeEvents>>

unbind_google_identity(r) ==
  LET u == req[r].user IN
  /\ Holding(r, "unbind")
  /\ google_sub' = [google_sub EXCEPT ![u] = NoSub]
  /\ session_epoch' = [session_epoch EXCEPT ![u] = @ + 1]
  /\ End(r)
  /\ UNCHANGED <<status, password, tenure, pat, reset, jwts, revokeEvents>>

----------------------------------------------------------------------------
\* Writes that never take the users row lock first.

\* hard_delete: the ORM cascade deletes the child rows, then the users row.
hard_delete(r, u) ==
  LET ps == {t \in Tokens : pat[t].owner = u /\ pat[t].state # "deleted"}
      rs == {t \in Resets : reset[t].owner = u /\ reset[t].state # "deleted"}
  IN /\ Live(u)
     /\ \A t \in ps : ~PatLockedByOther(t, r)
     /\ \A t \in rs : ~ResetLockedByOther(t, r)
     /\ Begin(r, [IdleReq EXCEPT !.op = "delete", !.pc = "swept", !.user = u,
                                 !.pats = ps, !.resets = rs])

\* DELETE of the users row waits for its lock; ON DELETE CASCADE takes the child
\* rows inserted meanwhile.  A row already deleted makes the statement match none.
DeleteRow(r, pats, resets) ==
  LET u == req[r].user IN
  /\ req[r].pc = "swept" /\ req[r].op = "delete"
  /\ lock[u] = NoReq
  /\ status' = [status EXCEPT ![u] = "deleted"]
  /\ password' = [password EXCEPT ![u] = NoPassword]
  /\ google_sub' = [google_sub EXCEPT ![u] = NoSub]
  /\ pat' = [t \in Tokens |-> IF t \in pats
                              THEN [pat[t] EXCEPT !.state = "deleted"] ELSE pat[t]]
  /\ reset' = [t \in Resets |-> IF t \in resets
                                THEN [reset[t] EXCEPT !.state = "deleted"] ELSE reset[t]]
  /\ End(r)
  /\ UNCHANGED <<session_epoch, tenure, jwts, revokeEvents>>

hard_delete_commit_loadedOnly(r) == DeleteRow(r, req[r].pats, req[r].resets)
hard_delete_commit(r) ==
  DeleteRow(r, {t \in Tokens : pat[t].owner = req[r].user},
               {t \in Resets : reset[t].owner = req[r].user})

\* revoke, by the owner or by an admin: the row is read and found active ...
revoke_read(r, op, t) ==
  /\ op \in {"revoke", "admin_revoke"}
  /\ is_active(t)
  /\ Begin(r, [IdleReq EXCEPT !.op = op, !.pc = "read", !.user = pat[t].owner,
                              !.tok = t])

\* ... and then revoked_at is written, whatever the row holds by now; the admin
\* route adds its event and commits.  A deleted row fails the statement.
revoke(r) ==
  LET t == req[r].tok IN
  /\ req[r].pc = "read" /\ req[r].op \in {"revoke", "admin_revoke"}
  /\ ~PatLockedByOther(t, r)
  /\ IF pat[t].state = "deleted"
     THEN UNCHANGED <<pat, revokeEvents>>
     ELSE /\ pat' = [pat EXCEPT ![t].state = "revoked"]
          /\ revokeEvents' = IF req[r].op = "admin_revoke"
                             THEN [revokeEvents EXCEPT ![t] = @ + 1]
                             ELSE revokeEvents
  /\ End(r)
  /\ UNCHANGED <<row, reset, jwts>>

\* Rollback before the commit: the email was not delivered, the connection was
\* lost, the client went away, or Postgres chose this transaction as a victim.
Abort(r) ==
  /\ req[r].pc # "idle"
  /\ End(r)
  /\ UNCHANGED <<row, pat, reset, jwts, revokeEvents>>

----------------------------------------------------------------------------
Start(r) ==
  \/ \E op \in {"patch_me", "mint"} :
       (\E j \in jwts : AuthenticateJwt(r, op, j)) \/ (\E t \in Tokens : AuthenticatePat(r, op, t))
  \/ \E u \in Users : issue_reset_token_read(r, u)
  \/ \E t \in Resets : confirm_reset_read(r, t)
  \/ \E u \in Users : google_login(r, u) \/ google_login_read(r, u)
  \/ \E u \in Users, s \in Subs : google_bind_read(r, u, s) \/ google_create(r, u, s)
  \/ \E u \in Users : unbind_begin(r, u) \/ hard_delete(r, u)
  \/ \E op \in {"revoke", "admin_revoke"}, t \in Tokens : revoke_read(r, op, t)

\* The steps of a request already in flight.
Step(r) ==
  \/ LockAndGoOn(r) \/ LockAndGiveUp(r) \/ LockAndLogin(r)
  \/ patch_me(r)
  \/ mint_count(r) \/ mint_refused(r)
  \/ \E t \in Tokens : mint(r, t)
  \/ \E t \in Resets : issue_reset_token(r, t)
  \/ confirm_reset(r)
  \/ bind_google_identity(r) \/ bind_google_identity_conflict(r)
  \/ bind_google_identity_commit(r)
  \/ unbind_google_identity(r)
  \/ google_login_update_name(r)
  \/ hard_delete_commit(r)
  \/ revoke(r)

Next ==
  \/ \E u \in Users : post_register(u) \/ post_token(u)
  \/ \E t \in Tokens : ExpirePat(t)
  \/ \E t \in Resets : ExpireReset(t)
  \/ \E r \in Requests : Start(r) \/ Step(r) \/ Abort(r)

Spec == Init /\ [][Next]_vars

----------------------------------------------------------------------------
\* Lock waits and fairness.

\* The requests whose locks hold r up.
WaitsFor(r) ==
  LET q == req[r]
      pats == CASE q.op \in {"revoke", "admin_revoke"} -> {q.tok}
                [] Holding(r, "google") -> ActivePats(q.user)
                [] OTHER -> {}
      resets == CASE Holding(r, "reset_confirm") -> {q.rtok}
                  [] Holding(r, "google") -> UnusedResets(q.user)
                  [] OTHER -> {}
      onRow == \/ q.pc = "read" /\ q.op \in LockOps
               \/ q.pc = "renaming"
               \/ q.pc = "swept" /\ q.op = "delete"
  IN {p \in Requests \ {r} : \/ onRow /\ lock[q.user] = p
                             \/ pats \cap req[p].pats # {}
                             \/ resets \cap req[p].resets # {}
                             \/ /\ Holding(r, "google") /\ req[p].op = "google"
                                /\ req[p].pc = "swept" /\ req[p].sub = q.sub}

\* r is one of a set of requests each of which waits for another of the set.
InLockCycle(r) ==
  \E S \in SUBSET Requests : r \in S /\ \A q \in S : WaitsFor(q) \cap S # {}

\* Postgres resolves a wait cycle by rolling one of its transactions back.
AbortVictim(r) == InLockCycle(r) /\ Abort(r)

\* The server keeps executing a request it has begun.  Postgres grants a row lock
\* to its waiters in order of arrival, so a waiter is not overtaken for ever: that
\* is strong fairness of the steps that wait for a lock.
FairSpec ==
  /\ Spec
  /\ \A r \in Requests : SF_vars(Step(r)) /\ WF_vars(AbortVictim(r))

----------------------------------------------------------------------------
\* Properties.

\* A password on the row was set by its present holder.
PasswordOfHolder ==
  \A u \in Users : password[u] # NoPassword => password[u] = tenure[u]

\* An API token that has not been revoked was minted by the present holder.
PatsOfHolder ==
  \A t \in Tokens : is_active(t) => pat[t].tenure = tenure[pat[t].owner]

\* A reset link that can still set the password was requested in this tenure.
ResetsOfHolder ==
  \A t \in Resets : reset[t].state = "unused" => reset[t].tenure = tenure[reset[t].owner]

\* A JWT that the epoch gate accepts was issued to the present holder.
JwtsOfHolder ==
  \A j \in jwts : ValidJwt(j) => j.tenure = tenure[j.user]

\* AUTH.md, "Credential reset on link": once a Google identity has taken a row, a
\* party who held it beforehand keeps no way back into it: not the password, not a
\* session, not an API token, not a pending reset link, whatever was in flight.
NoWayBack ==
  PasswordOfHolder /\ PatsOfHolder /\ ResetsOfHolder /\ JwtsOfHolder

\* delete_user_google_binding: "Sessions established under the released binding do
\* not survive it".  A session a Google identity signed in with is accepted only
\* while the row carries that identity.
SessionsOfBinding ==
  \A j \in jwts : ValidJwt(j) /\ j.sub # NoSub => google_sub[j.user] = j.sub

\* ck_users_auth_method: no committed row is left without a way to authenticate.
SomeAuthMethod ==
  \A u \in Users : Live(u) => password[u] # NoPassword \/ google_sub[u] # NoSub

\* hard_delete: no token and no reset link of a deleted user is left that could
\* authenticate, one inserted while the deletion was under way included.
CredentialsOfLiveUsers ==
  /\ \A t \in Tokens : is_active(t) => Live(pat[t].owner)
  /\ \A t \in Resets : reset[t].state = "unused" => Live(reset[t].owner)

\* mint: at most MAX_ACTIVE_PER_USER tokens of one user are active, however many
\* mints run at once.
TokenCap ==
  \A u \in Users : Cardinality(ActivePats(u)) <= MAX_ACTIVE_PER_USER

\* bind_google_identity: a second callback of the identity already on the row is a
\* login.  The epoch moves only with the binding, so the session issued by the
\* first callback lives on.
EpochMovesWithBinding ==
  [][\A u \in Users : google_sub'[u] = google_sub[u] => session_epoch'[u] = session_epoch[u]]_vars

\* reset.py: used_at is written "so it cannot be replayed".  No confirm in flight
\* writes a password on a link that another confirm has used, or a bind deleted.
ResetSingleUse ==
  [][\A r \in Requests :
       confirm_reset(r) => reset[req[r].rtok].state \in {"unused", "expired"}]_vars

\* delete_user_api_token emits one event per token it kills, none for a token already
\* revoked.  It does not hold: two admin revokes in flight both find the token active.
OneRevokeEvent == \A t \in Tokens : revokeEvents[t] <= 1

\* AUTH.md, "Serialization of credential-creating writes": the users row lock is
\* taken first by every path "to avoid a lock-order deadlock".
NoLockCycle == \A r \in Requests : ~InLockCycle(r)

\* A request that has begun ends: no lock is held, or waited for, for ever.
RequestsEnd ==
  \A r \in Requests : req[r].pc # "idle" ~> req[r].pc = "idle"

============================================================================

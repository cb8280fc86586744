--------------------------- MODULE MCCredentials ---------------------------
(* Instances of Credentials for TLC.                                       *)
EXTENDS Credentials, TLC

Symmetry ==
  Permutations(Subs) \cup Permutations(Tokens) \cup Permutations(Resets)
    \cup Permutations(Requests) \cup Permutations(Users)

\* The operations that take the users row lock.
OpsLocking == AllOps \ {"delete", "revoke", "admin_revoke"}
\* The operations that make two rows and their identities meet.
OpsAccounts == {"mint", "google", "delete", "reset_request", "reset_confirm", "admin_revoke"}
OpsRename == {"google", "unbind", "patch_me"}

============================================================================

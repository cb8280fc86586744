--------------------------- MODULE RunLockProofs ---------------------------
(* Proofs about the run lock, for any number of runs and keys.             *)
EXTENDS RunLock, TLAPS

\* A run inside its ttl has its key, a key names a run that works under it, and only
\* a run at work can have lapsed.
LockInv ==
  /\ LockTypeOK
  /\ \A w \in Workers : task[w] # NoKey => w \in lapsed \/ holder[task[w]] = w
  /\ \A k \in Keys : holder[k] \in Workers => task[holder[k]] = k
  /\ \A w \in lapsed : task[w] # NoKey

\* Nobody holds a lock at the start.
LEMMA LockInvInit == LockInit => LockInv
  BY LockAssumption DEF LockInit, LockInv, LockTypeOK

\* Every use of Redis by a run, and every expiry, keeps the invariant.
LEMMA LockInvStep == LockInv /\ [LockNext]_lockVars => LockInv'
<1> SUFFICES ASSUME LockInv, [LockNext]_lockVars PROVE LockInv'
  OBVIOUS
<1> USE LockAssumption DEF LockInv, LockTypeOK
<1>1. ASSUME NEW w \in Workers, NEW k \in Keys, set_nx(w, k) PROVE LockInv'
  BY <1>1 DEF set_nx
<1>2. ASSUME NEW w \in Workers, NEW k \in Keys, set_nx_refused(w, k) PROVE LockInv'
  BY <1>2 DEF set_nx_refused, lockVars
<1>3. ASSUME NEW w \in Workers, NEW k \in Keys, set_nx_unacknowledged(w, k) PROVE LockInv'
  BY <1>3 DEF set_nx_unacknowledged
<1>4. ASSUME NEW w \in Workers, delete_if_value(w) PROVE LockInv'
  BY <1>4 DEF delete_if_value
<1>5. ASSUME NEW w \in Workers, Crash(w) PROVE LockInv'
  BY <1>5 DEF Crash
<1>6. ASSUME NEW k \in Keys, Expire(k) PROVE LockInv'
  BY <1>6 DEF Expire
<1>7. CASE UNCHANGED lockVars
  BY <1>7 DEF lockVars
<1> QED BY <1>1, <1>2, <1>3, <1>4, <1>5, <1>6, <1>7 DEF LockNext

\* A key has one value, so two runs that both have it are the same run.
LEMMA LockInvExclusive == LockInv => Exclusive
  BY DEF LockInv, LockTypeOK, Exclusive

\* delete_if_value: of two runs on one key, one has outlived its ttl, however many
\* runs crash, lose a reply or go on after their ttl.
THEOREM LockExclusive == LockSpec => []Exclusive
<1>1. LockInit => LockInv
  BY LockInvInit
<1>2. LockInv /\ [LockNext]_lockVars => LockInv'
  BY LockInvStep
<1>3. LockInv => Exclusive
  BY LockInvExclusive
<1> QED BY <1>1, <1>2, <1>3, PTL DEF LockSpec

============================================================================

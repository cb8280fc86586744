------------------------------ MODULE RunLock ------------------------------
(***************************************************************************)
(* The Redis lock that serialises runs: SET key token NX EX ttl to         *)
(* acquire, a compare-and-delete to release (src/shared/cache/client.py).  *)
(* The ingestion, ontogen, metagen and metrics services all run under it,  *)
(* one key per source, ontology, conf or metric.                           *)
(*                                                                         *)
(* A token is drawn anew for every run, so a run is identified with its    *)
(* token.  A run may outlive the ttl; it is then working without the lock  *)
(* and does not know.                                                      *)
(***************************************************************************)
CONSTANTS
  Workers,    \* runs that may be in flight at the same time
  Keys,       \* what they run on
  NoWorker,   \* the key is not set
  NoKey,
  Lost        \* the token of a run that is gone and will not delete it

ASSUME LockAssumption ==
  /\ NoWorker \notin Workers /\ Lost \notin Workers /\ Lost # NoWorker
  /\ NoKey \notin Keys

VARIABLES
  holder,     \* the token stored at each key
  task,       \* the key whose lock a run has acquired and not yet released
  lapsed      \* auxiliary: the runs that have outlived their ttl

lockVars == <<holder, task, lapsed>>

LockTypeOK ==
  /\ holder \in [Keys -> Workers \cup {NoWorker, Lost}]
  /\ task \in [Workers -> Keys \cup {NoKey}]
  /\ lapsed \subseteq Workers

LockInit ==
  /\ holder = [k \in Keys |-> NoWorker]
  /\ task = [w \in Workers |-> NoKey]
  /\ lapsed = {}

\* set_nx succeeds.
set_nx(w, k) ==
  /\ task[w] = NoKey
  /\ holder[k] = NoWorker
  /\ holder' = [holder EXCEPT ![k] = w]
  /\ task' = [task EXCEPT ![w] = k]
  /\ UNCHANGED lapsed

\* The key is set already: the run is refused (409).
set_nx_refused(w, k) ==
  /\ task[w] = NoKey
  /\ holder[k] # NoWorker
  /\ UNCHANGED lockVars

\* The SET is executed but its reply is lost; the client's retry is refused by the
\* key it has set itself, and the run gives up without releasing anything.
set_nx_unacknowledged(w, k) ==
  /\ task[w] = NoKey
  /\ holder[k] = NoWorker
  /\ holder' = [holder EXCEPT ![k] = Lost]
  /\ UNCHANGED <<task, lapsed>>

\* The finally clause of run: delete the key if it still holds the run's token.
delete_if_value_unconditional(w) ==
  /\ task[w] # NoKey
  /\ holder' = [holder EXCEPT ![task[w]] = NoWorker]
  /\ task' = [task EXCEPT ![w] = NoKey]
  /\ lapsed' = lapsed \ {w}

delete_if_value(w) ==
  /\ task[w] # NoKey
  /\ holder' = [holder EXCEPT ![task[w]] = IF @ = w THEN NoWorker ELSE @]
  /\ task' = [task EXCEPT ![w] = NoKey]
  /\ lapsed' = lapsed \ {w}

\* The process dies, or Redis cannot be reached to release: the key stays.
Crash(w) ==
  /\ task[w] # NoKey
  /\ holder' = [holder EXCEPT ![task[w]] = IF @ = w THEN Lost ELSE @]
  /\ task' = [task EXCEPT ![w] = NoKey]
  /\ lapsed' = lapsed \ {w}

\* The ttl of a key passes, its run still at work or not.
Expire(k) ==
  /\ holder[k] # NoWorker
  /\ lapsed' = lapsed \cup ({holder[k]} \ {Lost})
  /\ holder' = [holder EXCEPT ![k] = NoWorker]
  /\ UNCHANGED task

LockNext ==
  \/ \E w \in Workers, k \in Keys :
       set_nx(w, k) \/ set_nx_refused(w, k) \/ set_nx_unacknowledged(w, k)
  \/ \E w \in Workers : delete_if_value(w) \/ Crash(w)
  \/ \E k \in Keys : Expire(k)

LockSpec == LockInit /\ [][LockNext]_lockVars

\* delete_if_value exists "to prevent a worker whose TTL expired from deleting a
\* lock token acquired by a later worker": a run inside its ttl has the key, so of
\* two runs on one key at least one has outlived its ttl.
Exclusive ==
  \A v, w \in Workers :
    v # w /\ task[v] = task[w] /\ task[v] # NoKey => v \in lapsed \/ w \in lapsed

============================================================================

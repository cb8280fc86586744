------------------------------ MODULE Metagen ------------------------------
(***************************************************************************)
(* Metadata generation (src/backend/metagen/service.py): confs whose runs  *)
(* propose candidate descriptions for the items of datasets, boundaries    *)
(* that opt datasets in, and human reviews that approve or reject a        *)
(* candidate and write the approved value to DataHub.                      *)
(*                                                                         *)
(* Runs are the Workers of RunLock and confs its Keys.  Runs and reviews   *)
(* are database transactions at READ COMMITTED that interleave statement   *)
(* by statement; a review writes to DataHub after its commit.  The text of *)
(* a candidate is the candidate itself, and a debate accepts an arbitrary  *)
(* set of the items it is given.  Embedding rows are left out: they only   *)
(* feed searches, and a foreign key error they cause is a run_fails.       *)
(***************************************************************************)
EXTENDS RunLock, Integers, FiniteSets

CONSTANTS
  Datasets, Items, Kinds,
  DatasetOf,      \* the dataset of an item
  KindOf,         \* its kind: which editable aspect of the dataset holds it
  Reviewers,      \* reviews that may be in flight at the same time
  Confs,          \* the settings a conf may have
  Boundaries,     \* the settings a boundary may have
  MaxCandidates,  \* bound on the candidates ever generated
  Dry             \* the dry_run flags a run may be started with

\* Candidates are numbered in the order of created_at.
Candidates == 1..MaxCandidates
None == 0

Conf == [is_enabled : BOOLEAN, result_limit : Nat, overwrite_pending : BOOLEAN]
NoConf == [is_enabled |-> FALSE, result_limit |-> 0, overwrite_pending |-> FALSE]
Boundary == [is_enabled : BOOLEAN, allowed : SUBSET Kinds]
\* Every reader treats a missing row as a disabled one.
NoBoundary == [is_enabled |-> FALSE, allowed |-> {}]

ASSUME MetagenAssumption ==
  /\ DatasetOf \in [Items -> Datasets]
  /\ KindOf \in [Items -> Kinds]
  /\ Confs \subseteq Conf /\ Boundaries \subseteq Boundary
  /\ MaxCandidates \in Nat
  /\ Dry \subseteq BOOLEAN

VARIABLES
  conf,       \* metagen_config: its settings and whether the row is there
  boundary,   \* metagen_boundary
  cand,       \* metagen_candidates
  run,        \* runs in flight
  review,     \* reviews in flight
  datahub,    \* the editable description of each item in DataHub
  unsynced,   \* auxiliary: items whose reviews overlapped on their aspect, or whose DataHub
              \* write failed or was cut off
  evicted     \* auxiliary: candidates that a run deleted although they were approved by then

auxVars == <<unsynced, evicted>>
vars == <<lockVars, conf, boundary, cand, run, review, datahub, auxVars>>

Status == {"llm_approved", "approved", "rejected"}
Cand == [status : Status \cup {"absent", "deleted"},
         conf : Keys \cup {NoKey}, item : Items \cup {None}]

Run == [pc : {"idle", "loaded", "locked", "datasets", "items", "full", "evict", "insert"},
        conf : Keys \cup {NoKey}, dto : Conf, dry : BOOLEAN,
        todo : SUBSET Datasets, accepted : SUBSET Items, item : Items \cup {None},
        victim : Candidates \cup {None}]
IdleRun == [pc |-> "idle", conf |-> NoKey, dto |-> NoConf, dry |-> FALSE,
            todo |-> {}, accepted |-> {}, item |-> None, victim |-> None]

\* loaded is the status the ORM read; seen the aspect read from DataHub.
Review == [pc : {"idle", "read", "sibling", "write", "emit", "put"},
           verdict : {"approve", "reject", "none"}, cand : Candidates \cup {None},
           loaded : Status \cup {"absent"}, sib : Candidates \cup {None},
           seen : [Items -> Candidates \cup {None}]]
IdleReview == [pc |-> "idle", verdict |-> "none", cand |-> None, loaded |-> "absent",
               sib |-> None, seen |-> [i \in Items |-> None]]

MetagenTypeOK ==
  /\ LockTypeOK
  /\ conf \in [Keys -> [row : {"absent", "live", "deleted"}, set : Conf]]
  /\ boundary \in [Datasets -> Boundary]
  /\ cand \in [Candidates -> Cand]
  /\ run \in [Workers -> Run]
  /\ review \in [Reviewers -> Review]
  /\ datahub \in [Items -> Candidates \cup {None}]
  /\ unsynced \subseteq Items /\ evicted \subseteq Candidates

Init ==
  /\ LockInit
  /\ conf = [k \in Keys |-> [row |-> "absent", set |-> NoConf]]
  /\ boundary = [d \in Datasets |-> NoBoundary]
  /\ cand = [c \in Candidates |-> [status |-> "absent", conf |-> NoKey, item |-> None]]
  /\ run = [w \in Workers |-> IdleRun]
  /\ review = [v \in Reviewers |-> IdleReview]
  /\ datahub = [i \in Items |-> None]
  /\ unsynced = {} /\ evicted = {}

----------------------------------------------------------------------------
\* State functions.

Present(c) == cand[c].status \in Status
Approved(i) == {c \in Candidates : cand[c].item = i /\ cand[c].status = "approved"}

\* One editable aspect holds the description of a dataset, another those of all
\* its columns; emit_aspect overwrites an aspect as a whole.
SameAspect(i) ==
  {j \in Items : DatasetOf[j] = DatasetOf[i] /\ KindOf[j] = KindOf[i]}

\* This conf's candidates on an item: the budget counts those not rejected.
NonRejected(k, i) ==
  {c \in Candidates : /\ cand[c].conf = k /\ cand[c].item = i
                      /\ cand[c].status \in {"llm_approved", "approved"}}
Pending(k, i) ==
  {c \in Candidates : /\ cand[c].conf = k /\ cand[c].item = i
                      /\ cand[c].status = "llm_approved"}

\* Rows written by the uncommitted transaction of a run or of a review.
EvictedBy(w)  == IF run[w].pc = "insert" THEN {run[w].victim} ELSE {}
DemotedBy(v)  == IF review[v].pc = "write" THEN {review[v].sib} ELSE {}
LockedByRuns(w)    == UNION {EvictedBy(x) : x \in Workers \ {w}}
LockedByReviews(v) == UNION {DemotedBy(x) : x \in Reviewers \ {v}}
RunMayWrite(w, c)    == c \notin LockedByRuns(w) \cup UNION {DemotedBy(v) : v \in Reviewers}
ReviewMayWrite(v, c) == c \notin LockedByReviews(v) \cup UNION {EvictedBy(w) : w \in Workers}
Unlocked(c) ==
  c \notin UNION ({EvictedBy(w) : w \in Workers} \cup {DemotedBy(v) : v \in Reviewers})

\* Reviews at work on the aspect of item i.
ReviewsOf(i) ==
  {v \in Reviewers : review[v].pc # "idle" /\ cand[review[v].cand].item \in SameAspect(i)}

----------------------------------------------------------------------------
\* Confs and boundaries.

create_conf(k, s) ==
  /\ conf[k].row = "absent"
  /\ conf' = [conf EXCEPT ![k] = [row |-> "live", set |-> s]]
  /\ UNCHANGED <<lockVars, boundary, cand, run, review, datahub, auxVars>>

\* put_conf, patch_conf: runs in flight keep the settings they have loaded.  One that
\* changes nothing is a stutter.
put_conf(k, s) ==
  /\ conf[k].row = "live" /\ conf[k].set # s
  /\ conf' = [conf EXCEPT ![k].set = s]
  /\ UNCHANGED <<lockVars, boundary, cand, run, review, datahub, auxVars>>

\* delete_conf: ON DELETE SET NULL orphans the candidates, whatever their status.
delete_conf(k) ==
  /\ conf[k].row = "live"
  /\ \A c \in Candidates : cand[c].conf = k /\ Present(c) => Unlocked(c)
  /\ conf' = [conf EXCEPT ![k] = [row |-> "deleted", set |-> NoConf]]
  /\ cand' = [c \in Candidates |-> IF cand[c].conf = k
                                   THEN [cand[c] EXCEPT !.conf = NoKey] ELSE cand[c]]
  /\ UNCHANGED <<lockVars, boundary, run, review, datahub, auxVars>>

\* put_boundary, patch_boundary; delete_boundary is NoBoundary.
put_boundary(d, b) ==
  /\ boundary[d] # b
  /\ boundary' = [boundary EXCEPT ![d] = b]
  /\ UNCHANGED <<lockVars, conf, cand, run, review, datahub, auxVars>>

----------------------------------------------------------------------------
\* Runs.

SetRun(w, rec) ==
  /\ run' = [run EXCEPT ![w] = rec]
  /\ UNCHANGED <<conf, boundary, review, datahub>>

\* Bound: a run is started while a candidate is left for it to generate.
RoomForCandidate == \E c \in Candidates : cand[c].status = "absent"

\* run loads the conf before it takes the lock ...
run_load(w, k, dry) ==
  /\ run[w].pc = "idle"
  /\ conf[k].row = "live" /\ RoomForCandidate
  /\ SetRun(w, [IdleRun EXCEPT !.pc = "loaded", !.conf = k, !.dto = conf[k].set,
                               !.dry = dry])
  /\ UNCHANGED <<lockVars, cand, auxVars>>

\* ... is refused (METAGEN_RUNNING), or takes it.
run_refused(w) ==
  /\ run[w].pc = "loaded"
  /\ set_nx_refused(w, run[w].conf) \/ set_nx_unacknowledged(w, run[w].conf)
  /\ SetRun(w, IdleRun)
  /\ UNCHANGED <<cand, auxVars>>

run_locked(w) ==
  /\ run[w].pc = "loaded"
  /\ set_nx(w, run[w].conf)
  /\ SetRun(w, [run[w] EXCEPT !.pc = "locked"])
  /\ UNCHANGED <<cand, auxVars>>

\* _enumerate_in_scope_datasets: scope is what dataset_filter and the run's own
\* dataset_urns resolve to.  Then _clear_rejected_candidates, and its commit.
Clear(w, scope, statuses) ==
  LET ds == {d \in scope : boundary[d].is_enabled}
      cleared == IF run[w].dry THEN {}
                 ELSE {c \in Candidates : /\ cand[c].conf = run[w].conf
                                          /\ cand[c].status \in statuses
                                          /\ DatasetOf[cand[c].item] \in ds}
  IN /\ run[w].pc = "locked"
     /\ run[w].dto.is_enabled \/ run[w].dry
     /\ \A c \in cleared : RunMayWrite(w, c)
     /\ cand' = [c \in Candidates |-> IF c \in cleared
                                      THEN [cand[c] EXCEPT !.status = "deleted"] ELSE cand[c]]
     /\ SetRun(w, [run[w] EXCEPT !.pc = "datasets", !.todo = ds])
     /\ UNCHANGED <<lockVars, auxVars>>

run_begin_clearsReviewed(w, scope) == Clear(w, scope, {"rejected", "approved"})
run_begin(w, scope) == Clear(w, scope, {"rejected"})

\* _enumerate_target_items for one dataset: the kinds its boundary allows now, less
\* the items that have an approved candidate of any conf.
TargetItems(d) ==
  {i \in Items : /\ DatasetOf[i] = d
                 /\ boundary[d].is_enabled /\ KindOf[i] \in boundary[d].allowed
                 /\ Approved(i) = {}}

\* Where there are any, the debate on one dataset.  It ends with nothing or with a
\* payload of any items: the last proposal is offered whatever errors the validator
\* found in it, and what the Reviewer accepts is not checked again.  Left out: a payload
\* that names an item twice.  A dry run goes no further.
run_dataset(w, d, accepted) ==
  /\ run[w].pc = "datasets"
  /\ d \in run[w].todo
  /\ TargetItems(d) = {} => accepted = {}
  /\ SetRun(w, [run[w] EXCEPT !.todo = @ \ {d},
                              !.accepted = IF run[w].dry THEN {} ELSE accepted,
                              !.pc = "items"])
  /\ UNCHANGED <<lockVars, cand, auxVars>>

run_next_dataset(w) ==
  /\ run[w].pc = "items" /\ run[w].accepted = {}
  /\ SetRun(w, [run[w] EXCEPT !.pc = "datasets"])
  /\ UNCHANGED <<lockVars, cand, auxVars>>

\* _apply_per_item_budget: the count; below the limit the candidate is inserted, at
\* the limit it is dropped or an older one is to make room.
budget_count(w, i) ==
  LET k == run[w].conf
      room == Cardinality(NonRejected(k, i)) < run[w].dto.result_limit
      rec == [run[w] EXCEPT !.accepted = @ \ {i}, !.item = i, !.victim = None]
  IN /\ run[w].pc = "items" /\ i \in run[w].accepted
     /\ SetRun(w, [rec EXCEPT !.pc = IF room THEN "insert"
                                     ELSE IF run[w].dto.overwrite_pending THEN "full"
                                     ELSE "items"])
     /\ UNCHANGED <<lockVars, cand, auxVars>>

\* The oldest llm_approved candidate of the conf on the item, if there is one.
budget_oldest(w) ==
  LET pending == Pending(run[w].conf, run[w].item) IN
  /\ run[w].pc = "full"
  /\ \/ pending = {} /\ SetRun(w, [run[w] EXCEPT !.pc = "items"])
     \/ \E c \in pending : /\ \A b \in pending : c <= b
                           /\ SetRun(w, [run[w] EXCEPT !.pc = "evict", !.victim = c])
  /\ UNCHANGED <<lockVars, cand, auxVars>>

\* DELETE by primary key, whatever the status is by now; not committed yet.
budget_evict_commits(w) ==
  /\ run[w].pc = "evict"
  /\ RunMayWrite(w, run[w].victim)
  /\ cand' = [cand EXCEPT ![run[w].victim].status = "deleted"]
  /\ SetRun(w, [run[w] EXCEPT !.pc = "insert"])
  /\ UNCHANGED <<lockVars, auxVars>>

budget_evict(w) ==
  /\ run[w].pc = "evict"
  /\ RunMayWrite(w, run[w].victim)
  /\ SetRun(w, [run[w] EXCEPT !.pc = "insert"])
  /\ UNCHANGED <<lockVars, cand, auxVars>>

\* INSERT of the new candidate, whose conf_id must still exist, and commit.
budget_insert(w, c) ==
  LET r == run[w]
      old == r.victim
      keep == IF old = None THEN cand ELSE [cand EXCEPT ![old].status = "deleted"]
  IN /\ r.pc = "insert"
     /\ conf[r.conf].row = "live"
     /\ cand[c].status = "absent" /\ \A b \in 1..(c - 1) : cand[b].status # "absent"
     /\ cand' = [keep EXCEPT ![c] = [status |-> "llm_approved", conf |-> r.conf,
                                     item |-> r.item]]
     /\ evicted' = IF old # None /\ cand[old].status = "approved"
                   THEN evicted \cup {old} ELSE evicted
     /\ SetRun(w, [r EXCEPT !.pc = "items", !.item = None, !.victim = None])
     /\ UNCHANGED <<lockVars, unsynced>>

\* METAGEN.RUN_COMPLETE; the finally clause releases the lock.
run_complete(w) ==
  /\ run[w].pc = "datasets" /\ run[w].todo = {}
  /\ delete_if_value(w)
  /\ SetRun(w, IdleRun)
  /\ UNCHANGED <<cand, auxVars>>

\* An exception (METAGEN_DISABLED on the settings loaded before the lock, Redis, a
\* foreign key, a deadlock victim, the LLM): the open transaction is rolled back and the
\* finally clause releases the lock.
run_fails(w) ==
  /\ \/ run[w].pc = "loaded" /\ UNCHANGED lockVars
     \/ delete_if_value(w)
  /\ SetRun(w, IdleRun)
  /\ UNCHANGED <<cand, auxVars>>

\* The process dies with the run in it.
run_crashes(w) ==
  /\ Crash(w)
  /\ SetRun(w, IdleRun)
  /\ UNCHANGED <<cand, auxVars>>

\* The ttl of a conf's lock passes.
lock_expires(k) ==
  /\ Expire(k)
  /\ UNCHANGED <<conf, boundary, cand, run, review, datahub, auxVars>>

----------------------------------------------------------------------------
\* review_candidate.

SetReview(v, rec) ==
  /\ review' = [review EXCEPT ![v] = rec]
  /\ UNCHANGED <<lockVars, conf, boundary, run>>

\* The boundary guard and the candidate.
review_read(v, c, verdict) ==
  LET i == cand[c].item IN
  /\ review[v].pc = "idle"
  /\ Present(c)
  /\ boundary[DatasetOf[i]].is_enabled
  /\ SetReview(v, [IdleReview EXCEPT !.pc = IF verdict = "approve" THEN "read" ELSE "write",
                                     !.verdict = verdict, !.cand = c,
                                     !.loaded = cand[c].status])
  /\ unsynced' = IF ReviewsOf(i) = {} THEN unsynced ELSE unsynced \cup SameAspect(i)
  /\ UNCHANGED <<cand, datahub, evicted>>

\* approve: the approved sibling, if any.
review_sibling(v) ==
  LET r == review[v]
      siblings == Approved(cand[r.cand].item) \ {r.cand}
  IN /\ r.pc = "read"
     /\ SetReview(v, IF siblings = {} THEN [r EXCEPT !.pc = "write"]
                     ELSE [r EXCEPT !.pc = "sibling", !.sib = CHOOSE s \in siblings : TRUE])
     /\ UNCHANGED <<cand, datahub, auxVars>>

\* The flush of its demotion; not committed yet.
review_demote(v) ==
  LET r == review[v] IN
  /\ r.pc = "sibling"
  /\ ReviewMayWrite(v, r.sib) /\ Present(r.sib)
  /\ SetReview(v, [r EXCEPT !.pc = "write"])
  /\ UNCHANGED <<cand, datahub, auxVars>>

\* The partial unique index on approved rows: those the transaction does not itself
\* demote.  A writer waits for one that an open transaction is demoting.
ConflictsWith(v) == Approved(cand[review[v].cand].item) \ {review[v].cand, review[v].sib}

\* The UPDATE of the candidate, and commit.  The ORM leaves out a column that keeps
\* the value it was loaded with: status is written only if it differs from loaded.
review_approve_noIndex(v) ==
  LET r == review[v] IN
  /\ r.pc = "write" /\ r.verdict = "approve"
  /\ ReviewMayWrite(v, r.cand) /\ Present(r.cand)
  /\ cand' = [c \in Candidates |->
               CASE c = r.sib -> [cand[c] EXCEPT !.status = "llm_approved"]
                 [] c = r.cand /\ r.loaded # "approved" -> [cand[c] EXCEPT !.status = "approved"]
                 [] OTHER -> cand[c]]
  /\ SetReview(v, [r EXCEPT !.pc = "emit"])
  /\ UNCHANGED <<datahub, auxVars>>

review_approve(v) ==
  LET r == review[v] IN
  /\ r.pc = "write" /\ r.verdict = "approve"
  /\ ReviewMayWrite(v, r.cand) /\ Present(r.cand)
  /\ r.loaded # "approved" => ConflictsWith(v) = {}
  /\ cand' = [c \in Candidates |->
               CASE c = r.sib -> [cand[c] EXCEPT !.status = "llm_approved"]
                 [] c = r.cand /\ r.loaded # "approved" -> [cand[c] EXCEPT !.status = "approved"]
                 [] OTHER -> cand[c]]
  /\ SetReview(v, [r EXCEPT !.pc = "emit"])
  /\ UNCHANGED <<datahub, auxVars>>

\* was_approved is the status that was loaded; only then is the aspect cleared.
review_reject_pending(v) ==
  LET r == review[v] IN
  /\ r.pc = "write" /\ r.verdict = "reject"
  /\ ReviewMayWrite(v, r.cand) /\ Present(r.cand)
  /\ cand' = [cand EXCEPT ![r.cand].status = "llm_pending"]
  /\ SetReview(v, IdleReview)
  /\ UNCHANGED <<datahub, auxVars>>

review_reject(v) ==
  LET r == review[v] IN
  /\ r.pc = "write" /\ r.verdict = "reject"
  /\ ReviewMayWrite(v, r.cand) /\ Present(r.cand)
  /\ cand' = IF r.loaded = "rejected" THEN cand
             ELSE [cand EXCEPT ![r.cand].status = "rejected"]
  /\ SetReview(v, IF r.loaded = "approved" THEN [r EXCEPT !.pc = "emit"] ELSE IdleReview)
  /\ UNCHANGED <<datahub, auxVars>>

\* The row is gone (StaleDataError, or a failed refresh after the commit), the unique
\* index refuses the row (IntegrityError), or the request is cut off: the open
\* transaction is rolled back, and DataHub is not written.  A DataHub call that
\* fails is only logged.
review_ends(v) ==
  LET r == review[v] IN
  /\ r.pc # "idle"
  /\ SetReview(v, IdleReview)
  /\ unsynced' = IF r.pc \in {"emit", "put"} THEN unsynced \cup {cand[r.cand].item}
                 ELSE unsynced
  /\ UNCHANGED <<cand, datahub, evicted>>

\* _emit_to_datahub, _clear_datahub_aspect: get_aspect ...
get_aspect(v) ==
  LET r == review[v] IN
  /\ r.pc = "emit"
  /\ Present(r.cand)
  /\ SetReview(v, [r EXCEPT !.pc = "put", !.seen = datahub])
  /\ UNCHANGED <<cand, datahub, auxVars>>

\* ... and emit_aspect with this item's description set, or cleared, in what was read.
emit_aspect(v) ==
  LET r == review[v]
      i == cand[r.cand].item
      value == IF r.verdict = "approve" THEN r.cand ELSE None
  IN /\ r.pc = "put"
     /\ datahub' = [j \in Items |-> IF j = i THEN value
                                    ELSE IF j \in SameAspect(i) THEN r.seen[j]
                                    ELSE datahub[j]]
     /\ SetReview(v, IdleReview)
     /\ UNCHANGED <<cand, auxVars>>

----------------------------------------------------------------------------
ConfNext ==
  \/ \E k \in Keys, s \in Confs : create_conf(k, s) \/ put_conf(k, s)
  \/ \E k \in Keys : delete_conf(k)
  \/ \E d \in Datasets, b \in Boundaries \cup {NoBoundary} : put_boundary(d, b)

RunNext(w) ==
  \/ \E k \in Keys, dry \in Dry : run_load(w, k, dry)
  \/ run_refused(w) \/ run_locked(w)
  \/ \E scope \in SUBSET Datasets : run_begin(w, scope)
  \/ \E d \in Datasets, accepted \in SUBSET Items : run_dataset(w, d, accepted)
  \/ run_next_dataset(w)
  \/ \E i \in Items : budget_count(w, i)
  \/ budget_oldest(w) \/ budget_evict(w)
  \/ \E c \in Candidates : budget_insert(w, c)
  \/ run_complete(w) \/ run_fails(w) \/ run_crashes(w)

ReviewNext(v) ==
  \/ \E c \in Candidates, verdict \in {"approve", "reject"} : review_read(v, c, verdict)
  \/ review_sibling(v) \/ review_demote(v)
  \/ review_approve(v) \/ review_reject(v) \/ review_ends(v)
  \/ get_aspect(v) \/ emit_aspect(v)

Next ==
  \/ ConfNext
  \/ \E w \in Workers : RunNext(w)
  \/ \E k \in Keys : lock_expires(k)
  \/ \E v \in Reviewers : ReviewNext(v)

Spec == Init /\ [][Next]_vars

----------------------------------------------------------------------------
\* Properties.

\* BACKEND.md: "at most one approved per item, globally across confs", a hard
\* invariant however approvals race.
OneApproved ==
  \A i \in Items : \A c, d \in Approved(i) : c = d

\* BACKEND.md, review: an item whose reviews have not overlapped on its aspect, and
\* whose DataHub writes succeeded, shows in DataHub the candidate that is approved.
\* When none is, it shows nothing, or a candidate that a run evicted between its
\* choice of a victim and the DELETE, although it was approved in between: nothing
\* takes that one back.  Other changes of runs, confs and boundaries never show.
DataHubFollowsReview ==
  \A i \in Items \ unsynced : ReviewsOf(i) = {} =>
    IF Approved(i) = {} THEN datahub[i] = None \/ datahub[i] \in evicted
    ELSE datahub[i] = CHOOSE c \in Approved(i) : TRUE

\* delete_conf: the candidates it orphans "are all retained and become parentless
\* forever": no run in flight on the conf deletes one, not even one it had already
\* chosen to evict.
OrphansKept ==
  [][\A c \in Candidates :
       Present(c) /\ cand[c].conf = NoKey => Present(c)' /\ cand'[c].conf = NoKey]_vars

\* BACKEND_SCHEMA.md: "metagen never deletes approved candidate rows".  It does not hold:
\* a review may approve the candidate chosen to evict before it is deleted.
ApprovedKept ==
  [][\A c \in Candidates : cand[c].status = "approved" => cand'[c].status # "deleted"]_vars

============================================================================

--------------------------- MODULE MetagenProofs ---------------------------
(***************************************************************************)
(* Proofs about metadata generation, for any number of confs, runs,        *)
(* reviews, items and candidates.                                          *)
(***************************************************************************)
EXTENDS Metagen, RunLockProofs

\* Every candidate that exists is on an item.
ItemOK == \A c \in Candidates : cand[c].status # "absent" => cand[c].item \in Items

\* A run in flight has a conf, and an item from the count to the insert.
RunOK ==
  \A w \in Workers :
    /\ run[w].pc # "idle" => run[w].conf \in Keys
    /\ run[w].pc \in {"full", "evict", "insert"} => run[w].item \in Items
    /\ run[w].pc = "evict" => run[w].victim \in Candidates

\* A review in flight has a candidate that exists or has existed; its sibling, if it
\* has one, is another such candidate.
ReviewOK ==
  \A v \in Reviewers :
    review[v].pc # "idle" =>
      /\ review[v].cand \in Candidates
      /\ cand[review[v].cand].status # "absent"
      /\ review[v].sib # review[v].cand
      /\ review[v].sib # None => cand[review[v].sib].status # "absent"

\* The candidate a run evicts exists or has existed, and is its conf's own unless the
\* conf has been deleted.
VictimOK ==
  \A w \in Workers :
    run[w].pc \in {"evict", "insert"} /\ run[w].victim # None =>
      /\ cand[run[w].victim].status # "absent"
      /\ \/ cand[run[w].victim].conf = run[w].conf
         \/ conf[run[w].conf].row = "deleted"

MetagenInv ==
  MetagenTypeOK /\ ItemOK /\ RunOK /\ ReviewOK /\ VictimOK /\ OneApproved

----------------------------------------------------------------------------
\* The lock.

\* Every step of metadata generation is a step of the run lock, or leaves it alone.
LEMMA LockSteps == RunOK /\ [Next]_vars => [LockNext]_lockVars
<1> SUFFICES ASSUME RunOK, [Next]_vars PROVE [LockNext]_lockVars
  OBVIOUS
<1>1. CASE UNCHANGED vars
  BY <1>1 DEF vars
<1>2. CASE ConfNext
  BY <1>2 DEF ConfNext, create_conf, put_conf, delete_conf, put_boundary
<1>3. ASSUME NEW w \in Workers, RunNext(w) PROVE [LockNext]_lockVars
  <2>1. CASE run_refused(w) \/ run_locked(w)
    <3>1. run[w].conf \in Keys
      BY <2>1 DEF run_refused, run_locked, RunOK
    <3> QED BY <2>1, <3>1 DEF run_refused, run_locked, LockNext
  <2>2. CASE run_complete(w) \/ run_fails(w) \/ run_crashes(w)
    BY <2>2, SMTT(30) DEF run_complete, run_fails, run_crashes, LockNext
  <2>3. CASE \/ \E k \in Keys, dry \in Dry : run_load(w, k, dry)
             \/ \E scope \in SUBSET Datasets : run_begin(w, scope)
             \/ \E d \in Datasets, accepted \in SUBSET Items : run_dataset(w, d, accepted)
             \/ run_next_dataset(w)
             \/ \E i \in Items : budget_count(w, i)
             \/ budget_oldest(w) \/ budget_evict(w)
             \/ \E c \in Candidates : budget_insert(w, c)
    BY <2>3, ZenonT(60) DEF run_load, run_begin, Clear, run_dataset, run_next_dataset, budget_count,
                budget_oldest, budget_evict, budget_insert
  <2> QED BY <1>3, <2>1, <2>2, <2>3 DEF RunNext
<1>4. ASSUME NEW k \in Keys, lock_expires(k) PROVE [LockNext]_lockVars
  BY <1>4 DEF lock_expires, LockNext
<1>5. ASSUME NEW v \in Reviewers, ReviewNext(v) PROVE [LockNext]_lockVars
  BY <1>5 DEF ReviewNext, review_read, review_sibling, review_demote, review_approve,
              review_reject, review_ends, get_aspect, emit_aspect, SetReview
<1> QED BY <1>1, <1>2, <1>3, <1>4, <1>5 DEF Next

\* Its type is kept, because LockInv is.
LEMMA LockTypeStep ==
  ASSUME LockTypeOK, RunOK, [Next]_vars
  PROVE  LockTypeOK'
<1>1. [LockNext]_lockVars
  BY LockSteps
<1> QED BY <1>1, LockAssumption DEF LockTypeOK, LockNext, lockVars, set_nx, set_nx_refused,
           set_nx_unacknowledged, delete_if_value, Crash, Expire

----------------------------------------------------------------------------
\* Steps of runs and reviews, as far as the invariant is concerned.

LEMMA InvInit == Init => MetagenInv
  BY LockAssumption, MetagenAssumption, LockInvInit
     DEF Init, MetagenInv, MetagenTypeOK, ItemOK, RunOK, ReviewOK, VictimOK, OneApproved,
         Approved, LockInv, Conf, NoConf, Boundary, NoBoundary, Cand, Run, IdleRun, Review,
         IdleReview, Status, Candidates, None

\* No candidate becomes absent again, so a review keeps the candidates it names.
LEMMA ReviewKept ==
  ASSUME MetagenInv, UNCHANGED review,
         \A c \in Candidates : cand[c].status # "absent" => cand'[c].status # "absent"
  PROVE  ReviewOK'
<1> SUFFICES ASSUME NEW x \in Reviewers, review[x].pc # "idle"
             PROVE  /\ review[x].cand \in Candidates
                    /\ cand'[review[x].cand].status # "absent"
                    /\ review[x].sib # review[x].cand
                    /\ review[x].sib # None => cand'[review[x].sib].status # "absent"
  BY DEF ReviewOK
<1>1. review[x].sib \in Candidates \cup {None}
  BY DEF MetagenInv, MetagenTypeOK, Review
<1> QED BY <1>1 DEF MetagenInv, ReviewOK

\* Confs and boundaries: a conf that is deleted takes its candidates out of its runs'
\* reach.
LEMMA ConfStep ==
  ASSUME MetagenInv, ConfNext PROVE MetagenInv'
<1> USE DEF MetagenInv, MetagenTypeOK, LockTypeOK, ItemOK, RunOK, ReviewOK, VictimOK,
            OneApproved, Approved, Candidates, None, lockVars, auxVars
<1>1. ASSUME NEW k \in Keys, NEW s \in Confs, create_conf(k, s) \/ put_conf(k, s)
      PROVE  MetagenInv'
  <2>1. s \in Conf
    BY MetagenAssumption
  <2>2. conf' \in [Keys -> [row : {"absent", "live", "deleted"}, set : Conf]]
    BY <1>1, <2>1 DEF create_conf, put_conf
  <2>3. \A j \in Keys : conf[j].row = "deleted" => conf'[j].row = "deleted"
    BY <1>1 DEF create_conf, put_conf
  <2>4. UNCHANGED <<lockVars, boundary, cand, run, review, datahub, auxVars>>
    BY <1>1 DEF create_conf, put_conf
  <2>5. MetagenTypeOK' /\ ItemOK' /\ RunOK' /\ ReviewOK' /\ OneApproved'
    BY <2>2, <2>4
  <2>6. VictimOK'
    <3> SUFFICES ASSUME NEW w \in Workers, run[w].pc \in {"evict", "insert"},
                        run[w].victim # None
                 PROVE  /\ cand[run[w].victim].status # "absent"
                        /\ \/ cand[run[w].victim].conf = run[w].conf
                           \/ conf'[run[w].conf].row = "deleted"
      BY <2>4
    <3> QED BY <2>3
  <2> QED BY <2>5, <2>6
<1>2. ASSUME NEW k \in Keys, delete_conf(k) PROVE MetagenInv'
  <2>1. NoConf \in Conf
    BY DEF NoConf, Conf
  <2>2. conf' \in [Keys -> [row : {"absent", "live", "deleted"}, set : Conf]]
    BY <1>2, <2>1 DEF delete_conf
  <2>3. cand' \in [Candidates -> Cand]
    BY <1>2 DEF delete_conf, Cand
  <2>4. \A c \in Candidates : /\ cand'[c].status = cand[c].status
                              /\ cand'[c].item = cand[c].item
                              /\ cand'[c].conf = cand[c].conf \/ cand[c].conf = k
    BY <1>2 DEF delete_conf, Cand
  <2>5. \A j \in Keys : conf'[j].row = IF j = k THEN "deleted" ELSE conf[j].row
    BY <1>2 DEF delete_conf
  <2>6. UNCHANGED <<lockVars, boundary, run, review, datahub, auxVars>>
    BY <1>2 DEF delete_conf
  <2>7. /\ ItemOK' /\ RunOK' /\ OneApproved'
        /\ ReviewOK'
    <3>1. ItemOK' /\ RunOK'
      BY <2>4, <2>6
    <3>2. \A i \in Items : Approved(i)' = Approved(i)
      BY <2>4
    <3>3. OneApproved'
      BY <3>2
    <3>4. ReviewOK'
      BY <2>4, <2>6, ReviewKept
    <3> QED BY <3>1, <3>3, <3>4
  <2>8. VictimOK'
    <3> SUFFICES ASSUME NEW w \in Workers, run[w].pc \in {"evict", "insert"},
                        run[w].victim # None
                 PROVE  /\ cand'[run[w].victim].status # "absent"
                        /\ \/ cand'[run[w].victim].conf = run[w].conf
                           \/ conf'[run[w].conf].row = "deleted"
      BY <2>6
    <3>1. run[w].victim \in Candidates /\ run[w].conf \in Keys
      BY DEF Run
    <3> QED BY <3>1, <2>4, <2>5
  <2> QED BY <2>2, <2>3, <2>6, <2>7, <2>8
<1>3. ASSUME NEW d \in Datasets, NEW b \in Boundaries \cup {NoBoundary}, put_boundary(d, b)
      PROVE  MetagenInv'
  <2>1. b \in Boundary
    <3>1. NoBoundary \in Boundary
      BY DEF NoBoundary, Boundary
    <3> QED BY <1>3, <3>1, MetagenAssumption
  <2> QED BY <1>3, <2>1 DEF put_boundary
<1> QED BY <1>1, <1>2, <1>3 DEF ConfNext

\* A step of a run that writes no candidate.
LEMMA RunStep ==
  ASSUME MetagenInv, NEW w \in Workers, NEW rec \in Run, SetRun(w, rec),
         LockTypeOK', UNCHANGED <<cand, auxVars>>,
         rec.pc # "idle" => rec.conf \in Keys,
         rec.pc \in {"full", "evict", "insert"} => rec.item \in Items,
         rec.pc = "evict" => rec.victim \in Candidates,
         rec.pc \in {"evict", "insert"} /\ rec.victim # None =>
           /\ cand[rec.victim].status # "absent"
           /\ cand[rec.victim].conf = rec.conf \/ conf[rec.conf].row = "deleted"
  PROVE  MetagenInv'
<1> USE DEF MetagenInv, MetagenTypeOK, auxVars
<1>1. UNCHANGED <<conf, boundary, cand, review, datahub, auxVars>>
  BY DEF SetRun
<1>2. run' \in [Workers -> Run] /\ \A x \in Workers : run'[x] = IF x = w THEN rec ELSE run[x]
  BY DEF SetRun
<1>3. MetagenTypeOK' /\ ItemOK' /\ ReviewOK' /\ OneApproved'
  BY <1>1, <1>2 DEF ItemOK, ReviewOK, OneApproved, Approved
<1>4. RunOK'
  BY <1>2 DEF RunOK
<1>5. VictimOK'
  BY <1>1, <1>2 DEF VictimOK
<1> QED BY <1>3, <1>4, <1>5

\* The steps of a run that write no candidate keep the invariant.
LEMMA QuietRunStep ==
  ASSUME MetagenInv, NEW w \in Workers, LockTypeOK',
         \/ \E k \in Keys, dry \in Dry : run_load(w, k, dry)
         \/ run_refused(w) \/ run_locked(w)
         \/ \E d \in Datasets, accepted \in SUBSET Items : run_dataset(w, d, accepted)
         \/ run_next_dataset(w)
         \/ \E i \in Items : budget_count(w, i)
         \/ budget_oldest(w) \/ budget_evict(w)
         \/ run_complete(w) \/ run_fails(w) \/ run_crashes(w)
  PROVE  MetagenInv'
<1> DEFINE r == run[w]
<1>1. r \in Run /\ r \in [pc : {"idle", "loaded", "locked", "datasets", "items", "full", "evict", "insert"},
        conf : Keys \cup {NoKey}, dto : Conf, dry : BOOLEAN,
        todo : SUBSET Datasets, accepted : SUBSET Items, item : Items \cup {None},
        victim : Candidates \cup {None}]
  BY DEF MetagenInv, MetagenTypeOK, Run
<1>2. IdleRun \in Run /\ IdleRun.pc = "idle"
  BY DEF IdleRun, Run, NoConf, Conf
<1>3. /\ r.pc # "idle" => r.conf \in Keys
      /\ r.pc \in {"full", "evict", "insert"} => r.item \in Items
      /\ r.pc = "evict" => r.victim \in Candidates
      /\ r.pc \in {"evict", "insert"} /\ r.victim # None =>
           /\ cand[r.victim].status # "absent"
           /\ cand[r.victim].conf = r.conf \/ conf[r.conf].row = "deleted"
  BY DEF MetagenInv, RunOK, VictimOK
<1>4. ASSUME NEW k \in Keys, NEW dry \in Dry, run_load(w, k, dry) PROVE MetagenInv'
  <2> DEFINE rec == [IdleRun EXCEPT !.pc = "loaded", !.conf = k, !.dto = conf[k].set, !.dry = dry]
  <2>1. rec \in Run /\ rec.pc = "loaded" /\ rec.conf = k
    BY MetagenAssumption DEF IdleRun, Run, MetagenInv, MetagenTypeOK
  <2> QED BY <1>4, <2>1, RunStep DEF run_load
<1>5. CASE run_refused(w) \/ run_complete(w) \/ run_fails(w) \/ run_crashes(w)
  BY <1>5, <1>2, RunStep DEF run_refused, run_complete, run_fails, run_crashes
<1>6. CASE run_locked(w)
  <2> DEFINE rec == [r EXCEPT !.pc = "locked"]
  <2>1. rec \in Run /\ rec.pc = "locked" /\ rec.conf = r.conf
    BY <1>1 DEF Run
  <2> QED BY <1>6, <2>1, <1>3, RunStep DEF run_locked
<1>7. ASSUME NEW d \in Datasets, NEW accepted \in SUBSET Items, run_dataset(w, d, accepted)
      PROVE  MetagenInv'
  <2> DEFINE rec == [r EXCEPT !.todo = @ \ {d},
                              !.accepted = IF r.dry THEN {} ELSE accepted, !.pc = "items"]
  <2>1. rec \in Run /\ rec.pc = "items" /\ rec.conf = r.conf
    BY <1>1 DEF Run
  <2> QED BY <1>7, <2>1, <1>3, RunStep DEF run_dataset
<1>8. CASE run_next_dataset(w)
  <2> DEFINE rec == [r EXCEPT !.pc = "datasets"]
  <2>1. rec \in Run /\ rec.pc = "datasets" /\ rec.conf = r.conf
    BY <1>1 DEF Run
  <2> QED BY <1>8, <2>1, <1>3, RunStep DEF run_next_dataset
<1>9. ASSUME NEW i \in Items, budget_count(w, i) PROVE MetagenInv'
  <2>1. PICK pc \in {"insert", "full", "items"} :
          SetRun(w, [[r EXCEPT !.accepted = @ \ {i}, !.item = i, !.victim = None] EXCEPT !.pc = pc])
    BY <1>9, <1>1 DEF budget_count
  <2> DEFINE rec == [[r EXCEPT !.accepted = @ \ {i}, !.item = i, !.victim = None] EXCEPT !.pc = pc]
  <2>2. /\ rec \in Run
        /\ rec.pc = pc /\ rec.conf = r.conf /\ rec.item = i /\ rec.victim = None
    BY <1>1 DEF Run
  <2>3. r.pc = "items" /\ UNCHANGED <<cand, auxVars>>
    BY <1>9 DEF budget_count
  <2> QED BY <2>1, <2>2, <2>3, <1>3, RunStep
<1>10. CASE budget_oldest(w)
  <2>1. r.pc = "full" /\ UNCHANGED <<cand, auxVars>>
    BY <1>10 DEF budget_oldest
  <2>2. CASE SetRun(w, [r EXCEPT !.pc = "items"])
    <3>1. [r EXCEPT !.pc = "items"] \in Run /\ [r EXCEPT !.pc = "items"].pc = "items"
          /\ [r EXCEPT !.pc = "items"].conf = r.conf
      BY <1>1 DEF Run
    <3> QED BY <2>1, <2>2, <3>1, <1>3, RunStep
  <2>3. ASSUME NEW c \in Pending(r.conf, r.item),
               SetRun(w, [r EXCEPT !.pc = "evict", !.victim = c])
        PROVE  MetagenInv'
    <3> DEFINE rec == [r EXCEPT !.pc = "evict", !.victim = c]
    <3>1. c \in Candidates /\ cand[c].conf = r.conf /\ cand[c].status # "absent"
      BY <2>3 DEF Pending
    <3>2. /\ rec \in Run
          /\ rec.pc = "evict" /\ rec.conf = r.conf /\ rec.item = r.item /\ rec.victim = c
      BY <1>1, <3>1 DEF Run
    <3> QED BY <2>1, <2>3, <3>1, <3>2, <1>3, RunStep
  <2> QED BY <1>10, <2>2, <2>3, ZenonT(60) DEF budget_oldest
<1>11. CASE budget_evict(w)
  <2> DEFINE rec == [r EXCEPT !.pc = "insert"]
  <2>1. /\ rec \in Run
        /\ rec.pc = "insert" /\ rec.conf = r.conf /\ rec.item = r.item
        /\ rec.victim = r.victim
    BY <1>1 DEF Run
  <2> QED BY <1>11, <2>1, <1>3, RunStep DEF budget_evict
<1> QED BY <1>4, <1>5, <1>6, <1>7, <1>8, <1>9, <1>10, <1>11

\* _clear_rejected_candidates deletes rejected rows, and no others.
LEMMA ClearedRows ==
  ASSUME NEW w \in Workers, NEW scope \in SUBSET Datasets, run_begin(w, scope)
  PROVE  \E ds \in SUBSET Datasets, cleared \in SUBSET Candidates :
           /\ cand' = [c \in Candidates |-> IF c \in cleared
                                            THEN [cand[c] EXCEPT !.status = "deleted"] ELSE cand[c]]
           /\ \A c \in cleared : cand[c].status = "rejected"
           /\ SetRun(w, [run[w] EXCEPT !.pc = "datasets", !.todo = ds])
           /\ run[w].pc = "locked"
           /\ UNCHANGED <<lockVars, auxVars>>
<1> DEFINE r == run[w]
           ds == {d \in scope : boundary[d].is_enabled}
           cleared == IF r.dry THEN {}
                      ELSE {c \in Candidates : /\ cand[c].conf = r.conf
                                               /\ cand[c].status \in {"rejected"}
                                               /\ DatasetOf[cand[c].item] \in ds}
<1>1. ds \in SUBSET Datasets /\ cleared \in SUBSET Candidates
  OBVIOUS
<1>2. \A c \in cleared : cand[c].status = "rejected"
  OBVIOUS
<1>3. /\ cand' = [c \in Candidates |-> IF c \in cleared
                                       THEN [cand[c] EXCEPT !.status = "deleted"] ELSE cand[c]]
      /\ SetRun(w, [r EXCEPT !.pc = "datasets", !.todo = ds])
      /\ r.pc = "locked"
      /\ UNCHANGED <<lockVars, auxVars>>
  BY DEF run_begin, Clear
<1> HIDE DEF ds, cleared
<1> QED BY <1>1, <1>2, <1>3

\* _clear_rejected_candidates only takes rows away.
LEMMA ClearStep ==
  ASSUME MetagenInv, NEW w \in Workers, NEW scope \in SUBSET Datasets,
         LockTypeOK', run_begin(w, scope)
  PROVE  MetagenInv'
<1> DEFINE r == run[w]
<1>1. PICK ds \in SUBSET Datasets, cleared \in SUBSET Candidates :
        /\ cand' = [c \in Candidates |-> IF c \in cleared
                                         THEN [cand[c] EXCEPT !.status = "deleted"] ELSE cand[c]]
        /\ \A c \in cleared : cand[c].status = "rejected"
        /\ SetRun(w, [r EXCEPT !.pc = "datasets", !.todo = ds])
        /\ r.pc = "locked"
        /\ UNCHANGED <<lockVars, auxVars>>
  BY ClearedRows
<1> DEFINE rec == [r EXCEPT !.pc = "datasets", !.todo = ds]
<1>2. rec \in Run /\ rec.pc = "datasets" /\ rec.conf = r.conf
  BY ZenonT(60) DEF MetagenInv, MetagenTypeOK, Run
<1>3. /\ run' = [run EXCEPT ![w] = rec]
      /\ UNCHANGED <<conf, boundary, review, datahub, auxVars>>
  BY <1>1 DEF SetRun
<1>4. \A c \in Candidates : /\ cand'[c].item = cand[c].item
                            /\ cand'[c].conf = cand[c].conf
                            /\ \/ cand'[c].status = cand[c].status
                               \/ cand'[c].status = "deleted" /\ cand[c].status = "rejected"
  BY <1>1 DEF MetagenInv, MetagenTypeOK, Cand
<1>5. cand' \in [Candidates -> Cand] /\ run' \in [Workers -> Run]
  BY <1>1, <1>2, <1>3 DEF MetagenInv, MetagenTypeOK, Cand
<1>6. MetagenTypeOK'
  BY <1>3, <1>5 DEF MetagenInv, MetagenTypeOK, auxVars
<1>7. ItemOK'
  BY <1>4 DEF MetagenInv, ItemOK
<1>8. RunOK'
  BY <1>1, <1>2, <1>3 DEF MetagenInv, MetagenTypeOK, RunOK
<1>9. ReviewOK'
  BY <1>3, <1>4, ReviewKept
<1>10. VictimOK'
  <2> SUFFICES ASSUME NEW x \in Workers, run'[x].pc \in {"evict", "insert"},
                      run'[x].victim # None
               PROVE  /\ cand'[run'[x].victim].status # "absent"
                      /\ \/ cand'[run'[x].victim].conf = run'[x].conf
                         \/ conf'[run'[x].conf].row = "deleted"
    BY DEF VictimOK
  <2>1. run'[x] = run[x] /\ run[x].victim \in Candidates
    BY <1>2, <1>3 DEF MetagenInv, MetagenTypeOK, Run
  <2> QED BY <2>1, <1>3, <1>4 DEF MetagenInv, VictimOK
<1>11. OneApproved'
  BY <1>4 DEF MetagenInv, OneApproved, Approved
<1> QED BY <1>6, <1>7, <1>8, <1>9, <1>10, <1>11 DEF MetagenInv

\* The insert adds an llm_approved row and takes the victim away.
LEMMA InsertStep ==
  ASSUME MetagenInv, NEW w \in Workers, NEW n \in Candidates,
         LockTypeOK', budget_insert(w, n)
  PROVE  MetagenInv'
<1> DEFINE r == run[w]
           rec == [r EXCEPT !.pc = "items", !.item = None, !.victim = None]
<1>1. r \in Run /\ r.pc = "insert" /\ r.conf \in Keys /\ r.item \in Items
  BY DEF MetagenInv, MetagenTypeOK, RunOK, budget_insert
<1>2. rec \in Run /\ rec.pc = "items" /\ rec.conf = r.conf
  BY <1>1 DEF Run
<1>3. /\ run' = [run EXCEPT ![w] = rec]
      /\ UNCHANGED <<conf, boundary, review, datahub>>
      /\ cand[n].status = "absent"
  BY DEF budget_insert, SetRun
<1>4. unsynced' \subseteq Items /\ evicted' \subseteq Candidates
  BY <1>1 DEF budget_insert, MetagenInv, MetagenTypeOK, Run
<1> DEFINE new == [status |-> "llm_approved", conf |-> r.conf, item |-> r.item]
           keep == IF r.victim = None THEN cand ELSE [cand EXCEPT ![r.victim].status = "deleted"]
<1>5. new \in Cand
  BY <1>1 DEF Cand, Status
<1>6. keep \in [Candidates -> Cand]
  BY <1>1 DEF MetagenInv, MetagenTypeOK, Cand, Run
<1>7. cand' = [keep EXCEPT ![n] = new]
  BY DEF budget_insert
<1>8. cand' \in [Candidates -> Cand]
  BY <1>5, <1>6, <1>7
<1>9. \A c \in Candidates :
        /\ keep[c].item = cand[c].item
        /\ keep[c].conf = cand[c].conf
        /\ \/ keep[c].status = cand[c].status
           \/ keep[c].status = "deleted" /\ cand[c].status # "absent"
  BY <1>1 DEF MetagenInv, MetagenTypeOK, VictimOK, Cand, Run
<1>10. \A c \in Candidates : cand'[c] = IF c = n THEN new ELSE keep[c]
  BY <1>6, <1>7
<1> HIDE DEF keep
<1>11. MetagenTypeOK'
  BY <1>2, <1>3, <1>4, <1>8 DEF MetagenInv, MetagenTypeOK
<1>12. ItemOK'
  <2> SUFFICES ASSUME NEW c \in Candidates, cand'[c].status # "absent"
               PROVE  cand'[c].item \in Items
    BY DEF ItemOK
  <2>1. CASE c = n
    BY <2>1, <1>1, <1>10
  <2>2. CASE c # n
    BY <2>2, <1>9, <1>10 DEF MetagenInv, ItemOK
  <2> QED BY <2>1, <2>2
<1>13. RunOK'
  BY <1>1, <1>2, <1>3 DEF MetagenInv, MetagenTypeOK, RunOK
<1>14. ReviewOK'
  <2>1. \A c \in Candidates : cand[c].status # "absent" => cand'[c].status # "absent"
    BY <1>3, <1>9, <1>10
  <2> QED BY <1>3, <2>1, ReviewKept
<1>15. VictimOK'
  <2> SUFFICES ASSUME NEW x \in Workers, run'[x].pc \in {"evict", "insert"},
                      run'[x].victim # None
               PROVE  /\ cand'[run'[x].victim].status # "absent"
                      /\ \/ cand'[run'[x].victim].conf = run'[x].conf
                         \/ conf'[run'[x].conf].row = "deleted"
    BY DEF VictimOK
  <2>1. run'[x] = run[x] /\ run[x].victim \in Candidates
    BY <1>2, <1>3 DEF MetagenInv, MetagenTypeOK, Run
  <2>2. /\ cand[run[x].victim].status # "absent"
        /\ cand[run[x].victim].conf = run[x].conf \/ conf[run[x].conf].row = "deleted"
    BY <2>1 DEF MetagenInv, VictimOK
  <2> QED BY <2>1, <2>2, <1>3, <1>9, <1>10
<1>16. OneApproved'
  BY <1>9, <1>10 DEF MetagenInv, OneApproved, Approved
<1> QED BY <1>11, <1>12, <1>13, <1>14, <1>15, <1>16 DEF MetagenInv

\* A step of a review that writes no candidate.
LEMMA ReviewStep ==
  ASSUME MetagenInv, NEW v \in Reviewers, NEW rec \in Review, SetReview(v, rec),
         UNCHANGED <<cand, evicted>>, unsynced' \subseteq Items,
         datahub' \in [Items -> Candidates \cup {None}],
         rec.pc # "idle" => /\ rec.cand \in Candidates
                            /\ cand[rec.cand].status # "absent"
                            /\ rec.sib # rec.cand
                            /\ rec.sib # None => cand[rec.sib].status # "absent"
  PROVE  MetagenInv'
<1>1. UNCHANGED <<holder, task, lapsed, conf, boundary, run>>
  BY DEF SetReview, lockVars
<1>2. /\ review' \in [Reviewers -> Review]
      /\ \A x \in Reviewers : review'[x] = IF x = v THEN rec ELSE review[x]
  BY DEF SetReview, MetagenInv, MetagenTypeOK
<1>3. MetagenTypeOK'
  BY <1>1, <1>2 DEF MetagenInv, MetagenTypeOK, LockTypeOK, auxVars
<1>4. ItemOK' /\ RunOK' /\ VictimOK' /\ OneApproved'
  BY <1>1 DEF MetagenInv, ItemOK, RunOK, VictimOK, OneApproved, Approved
<1>5. ReviewOK'
  BY <1>2 DEF MetagenInv, ReviewOK
<1> QED BY <1>3, <1>4, <1>5 DEF MetagenInv

\* A commit of a review changes the status of rows that exist, and nothing else of a
\* candidate.
LEMMA VerdictStep ==
  ASSUME MetagenInv, NEW v \in Reviewers, NEW rec \in Review, SetReview(v, rec),
         UNCHANGED <<datahub, auxVars>>,
         rec.pc # "idle" => /\ rec.cand \in Candidates
                            /\ cand[rec.cand].status # "absent"
                            /\ rec.sib # rec.cand
                            /\ rec.sib # None => cand[rec.sib].status # "absent",
         cand' \in [Candidates -> Cand],
         \A c \in Candidates : /\ cand'[c].item = cand[c].item
                               /\ cand'[c].conf = cand[c].conf
                               /\ cand'[c].status = "absent" <=> cand[c].status = "absent",
         OneApproved'
  PROVE  MetagenInv'
<1>1. UNCHANGED <<holder, task, lapsed, conf, boundary, run>>
  BY DEF SetReview, lockVars
<1>2. /\ review' \in [Reviewers -> Review]
      /\ \A x \in Reviewers : review'[x] = IF x = v THEN rec ELSE review[x]
  BY DEF SetReview, MetagenInv, MetagenTypeOK
<1>3. MetagenTypeOK'
  BY <1>1, <1>2 DEF MetagenInv, MetagenTypeOK, LockTypeOK, auxVars
<1>4. ItemOK' /\ RunOK'
  BY <1>1 DEF MetagenInv, ItemOK, RunOK
<1>5. VictimOK'
  <2> SUFFICES ASSUME NEW x \in Workers, run[x].pc \in {"evict", "insert"},
                      run[x].victim # None
               PROVE  /\ cand'[run[x].victim].status # "absent"
                      /\ \/ cand'[run[x].victim].conf = run[x].conf
                         \/ conf[run[x].conf].row = "deleted"
    BY <1>1 DEF VictimOK
  <2>1. run[x].victim \in Candidates
    BY DEF MetagenInv, MetagenTypeOK, Run
  <2> QED BY <2>1 DEF MetagenInv, VictimOK
<1>6. ReviewOK'
  <2> SUFFICES ASSUME NEW x \in Reviewers, review'[x].pc # "idle"
               PROVE  /\ review'[x].cand \in Candidates
                      /\ cand'[review'[x].cand].status # "absent"
                      /\ review'[x].sib # review'[x].cand
                      /\ review'[x].sib # None => cand'[review'[x].sib].status # "absent"
    BY DEF ReviewOK
  <2>1. review'[x].sib \in Candidates \cup {None}
    BY <1>2 DEF Review
  <2>2. CASE x = v
    BY <1>2, <2>1, <2>2
  <2>3. CASE x # v
    BY <1>2, <2>1, <2>3 DEF MetagenInv, ReviewOK
  <2> QED BY <2>2, <2>3
<1> QED BY <1>3, <1>4, <1>5, <1>6 DEF MetagenInv

\* approve writes the status of two rows: the candidate's and its sibling's.
LEMMA ApproveRows ==
  ASSUME MetagenInv, NEW v \in Reviewers, review_approve(v)
  PROVE  \A c \in Candidates :
           /\ cand'[c] \in Cand
           /\ cand'[c].item = cand[c].item
           /\ cand'[c].conf = cand[c].conf
           /\ cand'[c].status = IF c = review[v].sib THEN "llm_approved"
                                ELSE IF c = review[v].cand /\ review[v].loaded # "approved" THEN "approved"
                                ELSE cand[c].status
<1> DEFINE r == review[v]
<1>r. r.sib # r.cand
  BY DEF review_approve, MetagenInv, MetagenTypeOK, ReviewOK
<1>s. \A c \in Candidates :
        cand'[c] = CASE c = r.sib -> [cand[c] EXCEPT !.status = "llm_approved"]
                     [] c = r.cand /\ r.loaded # "approved" -> [cand[c] EXCEPT !.status = "approved"]
                     [] OTHER -> cand[c]
  BY DEF review_approve
<1>t. cand \in [Candidates -> Cand]
  BY DEF MetagenInv, MetagenTypeOK
<1> SUFFICES ASSUME NEW c \in Candidates
             PROVE  /\ cand'[c] \in Cand
                    /\ cand'[c].item = cand[c].item
                    /\ cand'[c].conf = cand[c].conf
                    /\ cand'[c].status = IF c = r.sib THEN "llm_approved"
                                         ELSE IF c = r.cand /\ r.loaded # "approved" THEN "approved"
                                         ELSE cand[c].status
  OBVIOUS
<1>1. CASE c = r.sib
  <2>1. cand'[c] = [cand[c] EXCEPT !.status = "llm_approved"]
    BY <1>1, <1>r, <1>s
  <2> QED BY <1>1, <2>1, <1>t DEF Cand, Status
<1>2. CASE c # r.sib /\ c = r.cand /\ r.loaded # "approved"
  <2>1. cand'[c] = [cand[c] EXCEPT !.status = "approved"]
    BY <1>2, <1>s
  <2> QED BY <1>2, <2>1, <1>t DEF Cand, Status
<1>3. CASE c # r.sib /\ ~(c = r.cand /\ r.loaded # "approved")
  <2>1. cand'[c] = cand[c]
    BY <1>3, <1>s
  <2> QED BY <1>3, <2>1, <1>t
<1> QED BY <1>1, <1>2, <1>3

\* approve: the unique index admits the row only if every other approved row of the
\* item is the one this transaction demotes.
LEMMA ApproveStep ==
  ASSUME MetagenInv, NEW v \in Reviewers, review_approve(v)
  PROVE  MetagenInv'
<1> DEFINE r == review[v]
           rec == [r EXCEPT !.pc = "emit"]
<1>1. r \in Review /\ r.pc = "write" /\ r.cand \in Candidates /\ r.sib # r.cand
  BY DEF review_approve, MetagenInv, MetagenTypeOK, ReviewOK
<1>2. Present(r.cand) /\ r.sib \in Candidates \cup {None}
  BY <1>1 DEF review_approve, Review
<1>3. r.sib # None => cand[r.sib].status # "absent"
  BY <1>1 DEF MetagenInv, ReviewOK
<1>4. /\ rec \in Review
      /\ rec.cand = r.cand /\ rec.sib = r.sib
  BY <1>1 DEF Review
<1>7. \A c \in Candidates :
        /\ cand'[c] \in Cand
        /\ cand'[c].item = cand[c].item
        /\ cand'[c].conf = cand[c].conf
        /\ cand'[c].status = IF c = r.sib THEN "llm_approved"
                             ELSE IF c = r.cand /\ r.loaded # "approved" THEN "approved"
                             ELSE cand[c].status
  BY ApproveRows
<1>8. cand' \in [Candidates -> Cand]
  BY <1>7 DEF review_approve
<1>9. \A c \in Candidates : cand'[c].status = "absent" <=> cand[c].status = "absent"
  BY <1>2, <1>3, <1>7 DEF Present, Status, Candidates, None
<1>10. OneApproved'
  <2> SUFFICES ASSUME NEW i \in Items, NEW c \in Candidates, NEW d \in Candidates,
                      cand'[c].item = i, cand'[c].status = "approved",
                      cand'[d].item = i, cand'[d].status = "approved"
               PROVE  c = d
    BY DEF OneApproved, Approved
  <2>1. CASE r.loaded = "approved"
    BY <2>1, <1>7 DEF MetagenInv, OneApproved, Approved
  <2>2. CASE r.loaded # "approved"
    <3>1. Approved(cand[r.cand].item) \subseteq {r.cand, r.sib}
      BY <2>2 DEF review_approve, ConflictsWith
    <3>2. c # r.sib /\ d # r.sib
      BY <1>7
    <3>3. CASE cand[r.cand].item = i
      BY <3>1, <3>2, <3>3, <1>7 DEF Approved
    <3>4. CASE cand[r.cand].item # i
      BY <3>2, <3>4, <1>7 DEF MetagenInv, OneApproved, Approved
    <3> QED BY <3>3, <3>4
  <2> QED BY <2>1, <2>2
<1>11. SetReview(v, rec) /\ UNCHANGED <<datahub, auxVars>>
  BY DEF review_approve
<1>12. cand[r.cand].status # "absent"
  BY <1>2 DEF Present, Status
<1> QED BY <1>1, <1>3, <1>4, <1>7, <1>8, <1>9, <1>10, <1>11, <1>12, VerdictStep, ZenonT(60)

\* reject: one approved row less, or the same.
LEMMA RejectStep ==
  ASSUME MetagenInv, NEW v \in Reviewers, review_reject(v)
  PROVE  MetagenInv'
<1> DEFINE r == review[v]
           rec == IF r.loaded = "approved" THEN [r EXCEPT !.pc = "emit"] ELSE IdleReview
<1>1. r \in Review /\ r.pc = "write" /\ r.cand \in Candidates /\ r.sib # r.cand
  BY DEF review_reject, MetagenInv, MetagenTypeOK, ReviewOK
<1>2. cand[r.cand].status # "absent" /\ (r.sib # None => cand[r.sib].status # "absent")
  BY <1>1 DEF MetagenInv, ReviewOK
<1>3. /\ rec \in Review
      /\ rec.pc # "idle" => rec.cand = r.cand /\ rec.sib = r.sib
  BY <1>1 DEF Review, IdleReview
<1>4. /\ cand' \in [Candidates -> Cand]
      /\ \A c \in Candidates :
           /\ cand'[c].item = cand[c].item
           /\ cand'[c].conf = cand[c].conf
           /\ cand'[c].status = cand[c].status \/ (c = r.cand /\ cand'[c].status = "rejected")
  BY <1>1 DEF review_reject, MetagenInv, MetagenTypeOK, Cand, Status
<1>5. OneApproved'
  BY <1>4 DEF MetagenInv, OneApproved, Approved
<1>6. SetReview(v, rec) /\ UNCHANGED <<datahub, auxVars>>
  BY DEF review_reject
<1> HIDE DEF rec
<1>7. \A c \in Candidates : cand'[c].status = "absent" <=> cand[c].status = "absent"
  BY <1>2, <1>4
<1> QED BY <1>1, <1>2, <1>3, <1>4, <1>5, <1>6, <1>7, VerdictStep

\* The steps of a review that write no candidate.
LEMMA QuietReviewStep ==
  ASSUME MetagenInv, NEW v \in Reviewers,
         \/ \E c \in Candidates, verdict \in {"approve", "reject"} : review_read(v, c, verdict)
         \/ review_sibling(v) \/ review_demote(v) \/ review_ends(v)
         \/ get_aspect(v) \/ emit_aspect(v)
  PROVE  MetagenInv'
<1> DEFINE r == review[v]
<1>1. /\ r \in Review
      /\ r.pc # "idle" => /\ r.cand \in Candidates
                          /\ cand[r.cand].status # "absent"
                          /\ r.sib # r.cand
                          /\ r.sib # None => cand[r.sib].status # "absent"
  BY DEF MetagenInv, MetagenTypeOK, ReviewOK
<1>2. /\ IdleReview \in Review /\ IdleReview.pc = "idle"
      /\ datahub \in [Items -> Candidates \cup {None}] /\ unsynced \subseteq Items
  BY DEF IdleReview, Review, MetagenInv, MetagenTypeOK
<1>3. ASSUME NEW c \in Candidates, NEW verdict \in {"approve", "reject"},
             review_read(v, c, verdict)
      PROVE  MetagenInv'
  <2> DEFINE rec == [IdleReview EXCEPT !.pc = IF verdict = "approve" THEN "read" ELSE "write",
                                       !.verdict = verdict, !.cand = c,
                                       !.loaded = cand[c].status]
  <2>1. cand[c].status \in Status
    BY <1>3 DEF review_read, Present
  <2>2. rec \in Review /\ rec.cand = c /\ rec.sib = None
    BY <2>1 DEF IdleReview, Review
  <2>3. c # None /\ cand[c].status # "absent"
    BY <2>1 DEF Candidates, None, Status
  <2>4. /\ SetReview(v, rec) /\ UNCHANGED <<cand, datahub, evicted>>
        /\ unsynced' \subseteq Items
    BY <1>3, <1>2 DEF review_read, SameAspect
  <2> HIDE DEF rec
  <2> QED BY <1>2, <2>2, <2>3, <2>4, ReviewStep
<1>4. CASE review_sibling(v)
  <2> DEFINE siblings == Approved(cand[r.cand].item) \ {r.cand}
             s == CHOOSE x \in siblings : TRUE
  <2>1. r.pc = "read" /\ UNCHANGED <<cand, datahub, auxVars>>
    BY <1>4 DEF review_sibling
  <2>2. CASE siblings = {}
    <3> DEFINE rec == [r EXCEPT !.pc = "write"]
    <3>1. rec \in Review /\ rec.cand = r.cand /\ rec.sib = r.sib
      BY <1>1 DEF Review
    <3>2. SetReview(v, rec)
      BY <1>4, <2>2 DEF review_sibling
    <3> HIDE DEF rec
    <3> QED BY <1>1, <1>2, <2>1, <3>1, <3>2, ReviewStep DEF auxVars
  <2>3. CASE siblings # {}
    <3> DEFINE rec == [r EXCEPT !.pc = "sibling", !.sib = s]
    <3>1. s \in siblings
      BY <2>3, SMTT(30)
    <3>2. s \in Candidates /\ s # r.cand /\ cand[s].status # "absent"
      BY <3>1 DEF Approved
    <3>3. SetReview(v, rec)
      BY <1>4, <2>3 DEF review_sibling
    <3> HIDE DEF s
    <3>4. rec \in Review /\ rec.cand = r.cand /\ rec.sib = s
      BY <1>1, <3>2 DEF Review
    <3> HIDE DEF rec
    <3> QED BY <1>1, <1>2, <2>1, <3>2, <3>3, <3>4, ReviewStep DEF auxVars
  <2> QED BY <2>2, <2>3
<1>5. CASE review_demote(v)
  <2> DEFINE rec == [r EXCEPT !.pc = "write"]
  <2>1. rec \in Review /\ rec.cand = r.cand /\ rec.sib = r.sib
    BY <1>1 DEF Review
  <2>2. r.pc = "sibling" /\ SetReview(v, rec) /\ UNCHANGED <<cand, datahub, auxVars>>
    BY <1>5 DEF review_demote
  <2> HIDE DEF rec
  <2> QED BY <1>1, <1>2, <2>1, <2>2, ReviewStep DEF auxVars
<1>6. CASE review_ends(v)
  <2>1. r.pc # "idle" => cand[r.cand].item \in Items
    BY <1>1 DEF MetagenInv, ItemOK
  <2>2. /\ SetReview(v, IdleReview) /\ UNCHANGED <<cand, datahub, evicted>>
        /\ unsynced' \subseteq Items
    BY <1>6, <1>2, <2>1 DEF review_ends
  <2> QED BY <1>2, <2>2, ReviewStep
<1>7. CASE get_aspect(v)
  <2> DEFINE rec == [r EXCEPT !.pc = "put", !.seen = datahub]
  <2>1. rec \in Review /\ rec.cand = r.cand /\ rec.sib = r.sib
    BY <1>1, <1>2 DEF Review
  <2>2. r.pc = "emit" /\ SetReview(v, rec) /\ UNCHANGED <<cand, datahub, auxVars>>
    BY <1>7 DEF get_aspect
  <2> HIDE DEF rec
  <2> QED BY <1>1, <1>2, <2>1, <2>2, ReviewStep DEF auxVars
<1>8. CASE emit_aspect(v)
  <2>1. datahub' \in [Items -> Candidates \cup {None}]
    BY <1>8, <1>1, <1>2 DEF emit_aspect, Review
  <2>2. SetReview(v, IdleReview) /\ UNCHANGED <<cand, auxVars>>
    BY <1>8 DEF emit_aspect
  <2> QED BY <1>2, <2>1, <2>2, ReviewStep DEF auxVars
<1> QED BY <1>3, <1>4, <1>5, <1>6, <1>7, <1>8

----------------------------------------------------------------------------
\* The results.

\* Every step keeps the invariant.
LEMMA InvStep == MetagenInv /\ [Next]_vars => MetagenInv'
<1> SUFFICES ASSUME MetagenInv, [Next]_vars PROVE MetagenInv'
  OBVIOUS
<1>1. LockTypeOK'
  BY LockTypeStep DEF MetagenInv, MetagenTypeOK
<1>2. CASE UNCHANGED vars
  BY <1>2 DEF vars, lockVars, auxVars, MetagenInv, MetagenTypeOK, LockTypeOK, ItemOK, RunOK, ReviewOK,
              VictimOK, OneApproved, Approved
<1>3. CASE ConfNext
  BY <1>3, ConfStep
<1>4. ASSUME NEW w \in Workers, RunNext(w) PROVE MetagenInv'
  BY <1>1, <1>4, QuietRunStep, ClearStep, InsertStep DEF RunNext
<1>5. ASSUME NEW k \in Keys, lock_expires(k) PROVE MetagenInv'
  BY <1>1, <1>5 DEF lock_expires, auxVars, MetagenInv, MetagenTypeOK, ItemOK, RunOK, ReviewOK,
                    VictimOK, OneApproved, Approved
<1>6. ASSUME NEW v \in Reviewers, ReviewNext(v) PROVE MetagenInv'
  BY <1>6, QuietReviewStep, ApproveStep, RejectStep DEF ReviewNext
<1> QED BY <1>2, <1>3, <1>4, <1>5, <1>6 DEF Next

\* The tables, and the runs and reviews in flight, keep their types.
THEOREM MetagenTypeCorrect == Spec => []MetagenTypeOK
<1>1. MetagenInv => MetagenTypeOK
  BY DEF MetagenInv
<1> QED BY <1>1, InvInit, InvStep, PTL DEF Spec

\* However approvals, rejections, evictions and conf deletions interleave, an item
\* has at most one approved candidate.
THEOREM ApprovedIsUnique == Spec => []OneApproved
<1>1. MetagenInv => OneApproved
  BY DEF MetagenInv
<1> QED BY <1>1, InvInit, InvStep, PTL DEF Spec

\* Of two runs of one conf, one has outlived the ttl of its lock.
THEOREM RunsExclusive == Spec => []Exclusive
<1>1. Init => LockInv
  BY LockInvInit DEF Init
<1>2. MetagenInv /\ LockInv /\ [Next]_vars => LockInv'
  BY LockSteps, LockInvStep DEF MetagenInv
<1>3. LockInv => Exclusive
  BY LockInvExclusive, SMTT(30)
<1> QED BY <1>1, <1>2, <1>3, InvInit, InvStep, PTL DEF Spec

\* A candidate without a conf is out of reach of the two statements that delete.
LEMMA OrphanStep ==
  ASSUME MetagenInv, [Next]_vars, NEW c \in Candidates,
         Present(c), cand[c].conf = NoKey
  PROVE  Present(c)' /\ cand'[c].conf = NoKey
<1> DEFINE Goal == Present(c)' /\ cand'[c].conf = NoKey
<1>1. ASSUME cand'[c] = cand[c] PROVE Goal
  BY <1>1 DEF Present
<1> USE <1>1
<1>2. cand \in [Candidates -> Cand]
  BY DEF MetagenInv, MetagenTypeOK
<1>3. ASSUME NEW w \in Workers, NEW scope \in SUBSET Datasets, run_begin(w, scope) PROVE Goal
  <2>1. run[w].conf \in Keys
    BY <1>3 DEF run_begin, Clear, MetagenInv, RunOK
  <2>2. cand'[c] = cand[c]
    BY <1>3, <2>1, LockAssumption DEF run_begin, Clear
  <2> QED BY <2>2
<1>4. ASSUME NEW w \in Workers, NEW n \in Candidates, budget_insert(w, n) PROVE Goal
  <2> DEFINE old == run[w].victim
             keep == IF old = None THEN cand ELSE [cand EXCEPT ![old].status = "deleted"]
  <2>1. /\ run[w].pc = "insert" /\ conf[run[w].conf].row = "live" /\ n # c
        /\ cand' = [keep EXCEPT ![n] = [status |-> "llm_approved", conf |-> run[w].conf,
                                        item |-> run[w].item]]
    BY <1>4 DEF budget_insert, Present, Status
  <2>2. run[w].conf \in Keys
    BY <2>1 DEF MetagenInv, RunOK
  <2>3. old # None => cand[old].conf = run[w].conf
    BY <2>1 DEF MetagenInv, VictimOK
  <2>4. old # c
    BY <2>2, <2>3, LockAssumption DEF Candidates, None
  <2>5. cand'[c] = cand[c]
    BY <1>2, <2>1, <2>4
  <2> QED BY <2>5
<1>5. ASSUME NEW k \in Keys, delete_conf(k) PROVE Goal
  BY <1>2, <1>5 DEF delete_conf, Present, Cand
<1>6. ASSUME NEW v \in Reviewers, review_approve(v) PROVE Goal
  <2>1. cand'[c] \in {cand[c], [cand[c] EXCEPT !.status = "llm_approved"],
                      [cand[c] EXCEPT !.status = "approved"]}
    BY <1>6 DEF review_approve
  <2> QED BY <1>2, <2>1 DEF Present, Status, Cand
<1>7. ASSUME NEW v \in Reviewers, review_reject(v) PROVE Goal
  BY <1>2, <1>7 DEF review_reject, Present, Status, Cand
<1>8. CASE UNCHANGED cand
  BY <1>8
<1> QED
  BY <1>3, <1>4, <1>5, <1>6, <1>7, <1>8
     DEF Next, vars, ConfNext, create_conf, put_conf, put_boundary, RunNext, run_load,
         run_refused, run_locked, run_dataset, run_next_dataset, budget_count,
         budget_oldest, budget_evict, run_complete, run_fails, run_crashes, lock_expires,
         ReviewNext, review_read, review_sibling, review_demote, review_ends, get_aspect,
         emit_aspect

\* delete_conf: what it orphans is kept, whatever runs of the conf are in flight.
THEOREM OrphansAreKept == Spec => OrphansKept
<1>1. MetagenInv /\ [Next]_vars =>
        [\A c \in Candidates :
           Present(c) /\ cand[c].conf = NoKey => Present(c)' /\ cand'[c].conf = NoKey]_vars
  BY OrphanStep
<1> QED BY <1>1, InvInit, InvStep, PTL DEF Spec, OrphansKept

----------------------------------------------------------------------------
\* DataHub.  unsynced names the items whose reviews overlapped or whose write failed; the
\* others have at most one review at work on their aspect, and it knows what it read and what it wrote.

ItemOf(v) == cand[review[v].cand].item
Emitting(v, i) == review[v].pc \in {"emit", "put"} /\ ItemOf(v) = i

\* DataHub shows the approved candidate of an item, or one that was evicted while approved.
Shows(i) ==
  /\ \A c \in Approved(i) : datahub[i] = c
  /\ Approved(i) = {} => datahub[i] = None \/ datahub[i] \in evicted

\* A review that overlaps another one leaves the aspect of both unsynced.
Alone == \A i \in Items \ unsynced : \A u, v \in ReviewsOf(i) : u = v

\* The sibling a review demotes is on the item of its candidate, and the candidate a run
\* evicts is on the item it evicts it for.
SiblingItem ==
  \A v \in Reviewers :
    review[v].pc # "idle" /\ review[v].sib # None => cand[review[v].sib].item = ItemOf(v)
VictimItem ==
  \A w \in Workers :
    run[w].pc \in {"evict", "insert"} /\ run[w].victim # None =>
      cand[run[w].victim].item = run[w].item

\* What a review read before its write is still so, and what it has committed before it
\* writes to DataHub stands, or was evicted.
Sound(v) ==
  /\ review[v].pc \in {"read", "sibling", "write"} /\ Present(review[v].cand) =>
       cand[review[v].cand].status = review[v].loaded
  /\ review[v].pc \in {"sibling", "write"} /\ review[v].verdict = "approve" =>
       Approved(ItemOf(v)) \subseteq {review[v].cand, review[v].sib}
  /\ review[v].pc \in {"emit", "put"} =>
       \/ review[v].verdict = "approve" /\ Approved(ItemOf(v)) = {review[v].cand}
       \/ /\ Approved(ItemOf(v)) = {}
          /\ review[v].verdict = "approve" => review[v].cand \in evicted
ReviewsSound ==
  \A v \in Reviewers : review[v].pc # "idle" /\ ItemOf(v) \notin unsynced => Sound(v)

\* The aspect a review has read is still what DataHub holds.
AspectRead ==
  \A v \in Reviewers :
    review[v].pc = "put" =>
      \A j \in SameAspect(ItemOf(v)) \ unsynced : review[v].seen[j] = datahub[j]

\* Only between its commit and its write to DataHub is a review ahead of DataHub.
AspectsShown ==
  \A i \in Items \ unsynced : (\A v \in Reviewers : ~Emitting(v, i)) => Shows(i)

DataHubInv ==
  Alone /\ SiblingItem /\ VictimItem /\ ReviewsSound /\ AspectRead /\ AspectsShown

LEMMA DataHubInvInit == Init => DataHubInv
  BY DEF Init, DataHubInv, Alone, SiblingItem, VictimItem, ReviewsSound, AspectRead,
         AspectsShown, ReviewsOf, Shows, Approved, IdleRun, IdleReview

\* Between reviews, and for an item no review is at work on, DataHub shows the approved
\* candidate.
LEMMA ShowsFollows == DataHubInv => DataHubFollowsReview
<1> SUFFICES ASSUME DataHubInv, NEW i \in Items \ unsynced, ReviewsOf(i) = {}
             PROVE  IF Approved(i) = {} THEN datahub[i] = None \/ datahub[i] \in evicted
                    ELSE datahub[i] = CHOOSE c \in Approved(i) : TRUE
  BY DEF DataHubFollowsReview
<1>1. \A v \in Reviewers : ~Emitting(v, i)
  BY DEF ReviewsOf, SameAspect, Emitting, ItemOf
<1>2. Shows(i)
  BY <1>1 DEF DataHubInv, AspectsShown
<1> QED BY <1>2 DEF Shows

\* Steps that take no review further.  A row that is not a new one keeps its item, and its
\* status unless it is taken away; no row becomes approved, and an approved row that goes
\* is evicted.
LEMMA RowsKept ==
  ASSUME MetagenInv, DataHubInv, UNCHANGED <<review, datahub>>, unsynced \subseteq unsynced',
         \A c \in Candidates : cand[c].status # "absent" =>
           /\ cand'[c].item = cand[c].item
           /\ cand'[c].status \in Status => cand'[c].status = cand[c].status,
         evicted \subseteq evicted',
         \A i \in Items : Approved(i)' \subseteq Approved(i) /\ Approved(i) \ Approved(i)' \subseteq evicted',
         VictimItem'
  PROVE  DataHubInv'
<1>1. ASSUME NEW v \in Reviewers, review[v].pc # "idle"
      PROVE  /\ review[v].cand \in Candidates
             /\ ItemOf(v)' = ItemOf(v) /\ ItemOf(v) \in Items
             /\ review[v].sib # None => cand'[review[v].sib].item = cand[review[v].sib].item
             /\ Present(review[v].cand)' => cand'[review[v].cand].status = cand[review[v].cand].status
  <2>1. /\ review[v].cand \in Candidates /\ cand[review[v].cand].status # "absent"
        /\ review[v].sib # None => cand[review[v].sib].status # "absent"
    BY <1>1 DEF MetagenInv, ReviewOK
  <2>2. review[v].sib \in Candidates \cup {None}
    BY DEF MetagenInv, MetagenTypeOK, Review
  <2>3. ItemOf(v) \in Items
    BY <2>1 DEF ItemOf, MetagenInv, ItemOK
  <2> QED BY <2>1, <2>2, <2>3 DEF ItemOf, Present
<1>2. \A i \in Items : ReviewsOf(i)' = ReviewsOf(i)
  BY <1>1 DEF ReviewsOf, ItemOf, SameAspect
<1>3. Alone'
  BY <1>2 DEF Alone, DataHubInv
<1>4. SiblingItem'
  BY <1>1 DEF SiblingItem, DataHubInv
<1>5. ReviewsSound'
  <2> SUFFICES ASSUME NEW v \in Reviewers, review[v].pc # "idle", ItemOf(v)' \notin unsynced'
               PROVE  Sound(v)'
    BY DEF ReviewsSound
  <2>1. ItemOf(v)' = ItemOf(v) /\ ItemOf(v) \in Items \ unsynced'
    BY <1>1
  <2> DEFINE k == ItemOf(v)
  <2>2. /\ Sound(v) /\ Approved(k)' \subseteq Approved(k) /\ Approved(k) \ Approved(k)' \subseteq evicted'
        /\ ItemOf(v)' = k
    BY <2>1 DEF ReviewsSound, DataHubInv
  <2>3. Present(review[v].cand)' => Present(review[v].cand)
    BY <1>1 DEF Present
  <2>4. ASSUME review[v].pc \in {"emit", "put"}
        PROVE  \/ review[v].verdict = "approve" /\ Approved(k)' = {review[v].cand}
               \/ /\ Approved(k)' = {}
                  /\ review[v].verdict = "approve" => review[v].cand \in evicted'
    <3>1. CASE review[v].verdict = "approve" /\ Approved(k) = {review[v].cand}
      BY <2>2, <3>1
    <3>2. CASE Approved(k) = {} /\ (review[v].verdict = "approve" => review[v].cand \in evicted)
      BY <2>2, <3>2
    <3> QED BY <2>2, <2>4, <3>1, <3>2 DEF Sound
  <2>5. /\ review[v].pc \in {"read", "sibling", "write"} /\ Present(review[v].cand)' =>
             cand'[review[v].cand].status = review[v].loaded
        /\ review[v].pc \in {"sibling", "write"} /\ review[v].verdict = "approve" =>
             Approved(k)' \subseteq {review[v].cand, review[v].sib}
    BY <1>1, <2>2, <2>3 DEF Sound
  <2>6. Approved(ItemOf(v))' = Approved(k)' /\ UNCHANGED review
    BY <2>2 DEF Approved
  <2> HIDE DEF k
  <2>7. /\ review[v].pc \in {"emit", "put"} =>
             \/ review[v].verdict = "approve" /\ Approved(ItemOf(v))' = {review[v].cand}
             \/ /\ Approved(ItemOf(v))' = {}
                /\ review[v].verdict = "approve" => review[v].cand \in evicted'
        /\ review[v].pc \in {"sibling", "write"} /\ review[v].verdict = "approve" =>
             Approved(ItemOf(v))' \subseteq {review[v].cand, review[v].sib}
    BY <2>4, <2>5, <2>6
  <2> QED BY <2>5, <2>6, <2>7 DEF Sound
<1>6. AspectRead'
  BY <1>1 DEF AspectRead, DataHubInv, SameAspect
<1>7. AspectsShown'
  <2> SUFFICES ASSUME NEW i \in Items \ unsynced', \A v \in Reviewers : ~Emitting(v, i)'
               PROVE  Shows(i)'
    BY DEF AspectsShown
  <2>1. \A v \in Reviewers : ~Emitting(v, i)
    BY <1>1 DEF Emitting
  <2>2. Shows(i)
    BY <2>1 DEF AspectsShown, DataHubInv
  <2>3. Approved(i)' \subseteq Approved(i) /\ Approved(i) \ Approved(i)' \subseteq evicted'
    OBVIOUS
  <2>4. (\A c \in Approved(i) : datahub'[i] = c) /\ (Approved(i) = {} => datahub'[i] = None \/ datahub'[i] \in evicted')
    BY <2>2 DEF Shows
  <2> QED BY <2>3, <2>4 DEF Shows
<1> QED BY <1>3, <1>4, <1>5, <1>6, <1>7 DEF DataHubInv

\* A step of review v, whose candidate is on item k.  It writes rows of item k only, and
\* no other review is at work on the aspect of k, or the aspect is unsynced.
LEMMA ReviewTurn ==
  ASSUME MetagenInv, DataHubInv, NEW v \in Reviewers, NEW k \in Items,
         \A u \in Reviewers \ {v} : review'[u] = review[u],
         UNCHANGED <<run, evicted>>, unsynced \subseteq unsynced',
         \A c \in Candidates : /\ cand'[c].item = cand[c].item
                               /\ cand[c].item # k => cand'[c].status = cand[c].status,
         review[v].pc # "idle" => ItemOf(v) = k,
         review'[v].pc # "idle" =>
           /\ ItemOf(v)' = k
           /\ review'[v].sib # None => cand'[review'[v].sib].item = k
           /\ k \notin unsynced' => Sound(v)',
         review'[v].pc = "put" =>
           \A j \in SameAspect(k) \ unsynced' : review'[v].seen[j] = datahub'[j],
         \A u \in Reviewers \ {v} :
           review[u].pc # "idle" /\ ItemOf(u) \in SameAspect(k) => SameAspect(k) \subseteq unsynced',
         \A j \in Items \ (unsynced' \cup {k}) : datahub'[j] = datahub[j],
         k \notin unsynced' /\ review'[v].pc \notin {"emit", "put"} => Shows(k)'
  PROVE  DataHubInv'
<1>1. ASSUME NEW u \in Reviewers \ {v}, review[u].pc # "idle"
      PROVE  /\ review[u].cand \in Candidates
             /\ ItemOf(u)' = ItemOf(u) /\ ItemOf(u) \in Items
             /\ review[u].sib # None => cand'[review[u].sib].item = cand[review[u].sib].item
  <2>1. review[u].cand \in Candidates /\ cand[review[u].cand].status # "absent"
    BY <1>1 DEF MetagenInv, ReviewOK
  <2>2. review[u].sib \in Candidates \cup {None}
    BY DEF MetagenInv, MetagenTypeOK, Review
  <2>3. ItemOf(u) \in Items
    BY <2>1 DEF ItemOf, MetagenInv, ItemOK
  <2> QED BY <2>1, <2>2, <2>3 DEF ItemOf
<1>2. \A i \in Items : i # k => Approved(i)' = Approved(i)
  BY DEF Approved
<1>3. Alone'
  <2> SUFFICES ASSUME NEW i \in Items \ unsynced',
                      NEW a \in ReviewsOf(i)', NEW b \in ReviewsOf(i)'
               PROVE  a = b
    BY DEF Alone
  <2>1. ASSUME NEW u \in Reviewers \ {v}, u \in ReviewsOf(i)', v \in ReviewsOf(i)' PROVE FALSE
    <3>1. review[u].pc # "idle" /\ ItemOf(u) \in SameAspect(i)
      BY <1>1, <2>1 DEF ReviewsOf, ItemOf, SameAspect
    <3>2. k \in SameAspect(i)
      BY <2>1 DEF ReviewsOf, ItemOf, SameAspect
    <3>3. ItemOf(u) \in SameAspect(k) /\ i \in SameAspect(k)
      BY <3>1, <3>2 DEF SameAspect
    <3> QED BY <3>1, <3>3
  <2>2. CASE a # v /\ b # v
    <3>1. a \in ReviewsOf(i) /\ b \in ReviewsOf(i)
      BY <1>1, <2>2 DEF ReviewsOf, ItemOf, SameAspect
    <3> QED BY <3>1 DEF DataHubInv, Alone
  <2>3. a \in Reviewers /\ b \in Reviewers
    BY DEF ReviewsOf
  <2> QED BY <2>1, <2>2, <2>3
<1>4. SiblingItem'
  BY <1>1 DEF SiblingItem, DataHubInv
<1>5. VictimItem'
  <2> SUFFICES ASSUME NEW w \in Workers, run[w].pc \in {"evict", "insert"},
                      run[w].victim # None
               PROVE  cand'[run[w].victim].item = run[w].item
    BY DEF VictimItem
  <2>1. run[w].victim \in Candidates
    BY DEF MetagenInv, MetagenTypeOK, Run
  <2> QED BY <2>1 DEF DataHubInv, VictimItem
<1>6. ReviewsSound'
  <2> SUFFICES ASSUME NEW u \in Reviewers \ {v}, review[u].pc # "idle", ItemOf(u)' \notin unsynced'
               PROVE  Sound(u)'
    BY DEF ReviewsSound
  <2>1. ItemOf(u)' = ItemOf(u) /\ ItemOf(u) \in Items \ unsynced'
    BY <1>1
  <2>2. ItemOf(u) # k
    BY <2>1 DEF SameAspect
  <2>3. Sound(u) /\ Approved(ItemOf(u))' = Approved(ItemOf(u))
    BY <1>2, <2>1, <2>2 DEF ReviewsSound, DataHubInv
  <2>4. review[u].cand \in Candidates /\ cand[review[u].cand].item # k
    BY <1>1, <2>2 DEF ItemOf
  <2>5. cand'[review[u].cand].status = cand[review[u].cand].status
    BY <2>4
  <2> QED BY <2>1, <2>3, <2>5 DEF Sound, Present
<1>7. AspectRead'
  <2> SUFFICES ASSUME NEW u \in Reviewers \ {v}, review[u].pc = "put",
                      NEW j \in SameAspect(ItemOf(u)') \ unsynced'
               PROVE  review[u].seen[j] = datahub'[j]
    BY DEF AspectRead, SameAspect
  <2>1. ItemOf(u)' = ItemOf(u) /\ ItemOf(u) \in Items /\ j \in Items
    BY <1>1 DEF SameAspect
  <2>2. j # k
    BY <2>1 DEF SameAspect
  <2> QED BY <2>1, <2>2 DEF DataHubInv, AspectRead
<1>8. AspectsShown'
  <2> SUFFICES ASSUME NEW i \in Items \ unsynced', i # k, \A u \in Reviewers : ~Emitting(u, i)'
               PROVE  Shows(i)'
    BY DEF AspectsShown, Emitting
  <2>1. \A u \in Reviewers : ~Emitting(u, i)
    BY <1>1 DEF Emitting
  <2>2. Shows(i) /\ Approved(i)' = Approved(i) /\ datahub'[i] = datahub[i]
    BY <1>2, <2>1 DEF AspectsShown, DataHubInv
  <2> QED BY <2>2 DEF Shows
<1> QED BY <1>3, <1>4, <1>5, <1>6, <1>7, <1>8 DEF DataHubInv

\* A review in flight on a synced item is the only one at work on its aspect, and before
\* its commit DataHub shows what is approved.
LEMMA ReviewIsAlone ==
  ASSUME MetagenInv, DataHubInv, NEW v \in Reviewers, review[v].pc # "idle"
  PROVE  /\ review[v] \in Review /\ review[v].cand \in Candidates
         /\ ItemOf(v) \in Items /\ ItemOf(v) \in SameAspect(ItemOf(v))
         /\ \A u \in Reviewers \ {v} :
              review[u].pc # "idle" /\ ItemOf(u) \in SameAspect(ItemOf(v)) =>
                SameAspect(ItemOf(v)) \subseteq unsynced
         /\ ItemOf(v) \notin unsynced /\ review[v].pc \notin {"emit", "put"} => Shows(ItemOf(v))
         /\ ItemOf(v) \notin unsynced => Sound(v)
         /\ review[v].sib # None => cand[review[v].sib].item = ItemOf(v)
<1>1. /\ review[v] \in Review /\ review[v].cand \in Candidates
      /\ cand[review[v].cand].status # "absent"
  BY DEF MetagenInv, MetagenTypeOK, ReviewOK
<1>2. ItemOf(v) \in Items /\ ItemOf(v) \in SameAspect(ItemOf(v))
  BY <1>1 DEF MetagenInv, ItemOK, ItemOf, SameAspect
<1>3. ASSUME NEW u \in Reviewers \ {v}, review[u].pc # "idle", ItemOf(u) \in SameAspect(ItemOf(v)),
             NEW j \in SameAspect(ItemOf(v))
      PROVE  j \in unsynced
  <2>1. j \in Items /\ u \in ReviewsOf(j) /\ v \in ReviewsOf(j)
    BY <1>2, <1>3 DEF ReviewsOf, SameAspect, ItemOf
  <2> QED BY <2>1 DEF DataHubInv, Alone
<1>4. ASSUME ItemOf(v) \notin unsynced, review[v].pc \notin {"emit", "put"} PROVE Shows(ItemOf(v))
  <2>1. \A u \in Reviewers : ~Emitting(u, ItemOf(v))
    BY <1>2, <1>3, <1>4 DEF Emitting
  <2> QED BY <1>2, <1>4, <2>1 DEF DataHubInv, AspectsShown
<1> QED BY <1>1, <1>2, <1>3, <1>4 DEF DataHubInv, ReviewsSound, SiblingItem

\* The reads of a review, the flush of its demotion and its end write no row.
LEMMA QuietReviewShows ==
  ASSUME MetagenInv, DataHubInv, NEW v \in Reviewers,
         \/ \E c \in Candidates, verdict \in {"approve", "reject"} : review_read(v, c, verdict)
         \/ review_sibling(v) \/ review_demote(v) \/ review_ends(v) \/ get_aspect(v)
  PROVE  DataHubInv'
<1> DEFINE r == review[v]
<1>0. review \in [Reviewers -> Review]
  BY DEF MetagenInv, MetagenTypeOK
<1>a. ASSUME NEW i \in Items, UNCHANGED <<cand, datahub, evicted>>, Shows(i) PROVE Shows(i)'
  BY <1>a DEF Shows, Approved
<1>1. ASSUME NEW c \in Candidates, NEW verdict \in {"approve", "reject"}, review_read(v, c, verdict)
      PROVE  DataHubInv'
  <2>0. PICK k \in Items : k = cand[c].item
    BY <1>1, ZenonT(60) DEF review_read, Present, Status, MetagenInv, ItemOK
  <2>1. /\ review[v].pc = "idle" /\ Present(c) /\ UNCHANGED <<cand, datahub, run, evicted>>
        /\ unsynced' = IF ReviewsOf(k) = {} THEN unsynced ELSE unsynced \cup SameAspect(k)
        /\ \A u \in Reviewers \ {v} : review'[u] = review[u]
    BY <1>0, <1>1, <2>0, ZenonT(60) DEF review_read, SetReview
  <2>2. /\ review'[v].pc \in {"read", "write"} /\ review'[v].cand = c /\ review'[v].sib = None
        /\ review'[v].loaded = cand[c].status
        /\ review'[v].pc = "write" => review'[v].verdict # "approve"
    BY <1>0, <1>1 DEF review_read, SetReview, IdleReview
  <2>3. k \in SameAspect(k)
    BY DEF SameAspect
  <2>4. ItemOf(v)' = k
    BY <2>0, <2>1, <2>2 DEF ItemOf
  <2>5. Sound(v)'
    BY <2>1, <2>2, <2>4 DEF Sound
  <2>6. \A u \in Reviewers \ {v} :
          review[u].pc # "idle" /\ ItemOf(u) \in SameAspect(k) => SameAspect(k) \subseteq unsynced'
    BY <2>1 DEF ReviewsOf, ItemOf
  <2>7. k \notin unsynced' => Shows(k)'
    <3> SUFFICES ASSUME k \notin unsynced' PROVE Shows(k)'
      OBVIOUS
    <3>1. ReviewsOf(k) = {} /\ k \notin unsynced
      BY <2>1, <2>3
    <3>2. \A u \in Reviewers : ~Emitting(u, k)
      BY <2>3, <3>1 DEF ReviewsOf, Emitting, ItemOf
    <3> QED BY <1>a, <2>1, <2>3, <3>1, <3>2 DEF DataHubInv, AspectsShown
  <2>8. unsynced \subseteq unsynced'
    BY <2>1
  <2> QED BY <2>1, <2>2, <2>3, <2>4, <2>5, <2>6, <2>7, <2>8, ReviewTurn
<1> SUFFICES ASSUME r.pc # "idle", review_sibling(v) \/ review_demote(v) \/ review_ends(v) \/ get_aspect(v)
             PROVE  DataHubInv'
  BY <1>1 DEF review_sibling, review_demote, review_ends, get_aspect
<1>k. PICK k \in Items : k = ItemOf(v)
  BY ReviewIsAlone
<1>b. ASSUME UNCHANGED <<cand, datahub, evicted>>, k \notin unsynced, r.pc \notin {"emit", "put"}
      PROVE  Shows(k)'
  BY <1>a, <1>b, <1>k, ReviewIsAlone
<1>c. /\ r \in Review /\ r.cand \in Candidates /\ k = cand[r.cand].item
      /\ \A u \in Reviewers \ {v} :
           review[u].pc # "idle" /\ ItemOf(u) \in SameAspect(k) => SameAspect(k) \subseteq unsynced
      /\ k \notin unsynced => Sound(v)
      /\ r.sib # None => cand[r.sib].item = k
  BY <1>k, ReviewIsAlone DEF ItemOf
<1>2. ASSUME review_sibling(v) PROVE DataHubInv'
  <2> DEFINE siblings == Approved(k) \ {r.cand}
  <2>1. /\ r.pc = "read" /\ UNCHANGED <<cand, datahub, run, unsynced, evicted>>
        /\ \A u \in Reviewers \ {v} : review'[u] = review[u]
        /\ review'[v] = IF siblings = {} THEN [r EXCEPT !.pc = "write"]
                        ELSE [r EXCEPT !.pc = "sibling", !.sib = CHOOSE s \in siblings : TRUE]
    BY <1>0, <1>2, <1>c DEF review_sibling, SetReview, auxVars
  <2>3. /\ review'[v].pc \in {"write", "sibling"} /\ review'[v].cand = r.cand
        /\ review'[v].loaded = r.loaded
        /\ siblings = {} => review'[v].sib = r.sib
        /\ siblings # {} => review'[v].sib \in siblings
    BY <1>c, <2>1 DEF Review
  <2>4. ItemOf(v)' = k
    BY <1>c, <2>1, <2>3, SMTT(30) DEF ItemOf
  <2>5. review'[v].sib # None => cand'[review'[v].sib].item = k
    BY <1>c, <2>1, <2>3 DEF Approved
  <2>6. k \notin unsynced' => Sound(v)'
    <3> SUFFICES ASSUME k \notin unsynced PROVE Sound(v)'
      BY <2>1
    <3>1. Sound(v)
      BY <1>c, <2>1
    <3>2. Approved(k) \subseteq {r.cand, review'[v].sib}
      BY <2>3 DEF MetagenInv, OneApproved
    <3>3. Approved(k)' = Approved(k)
      BY <2>1 DEF Approved
    <3> QED BY <1>k, <2>1, <2>3, <2>4, <3>1, <3>2, <3>3 DEF Sound, Present
  <2>7. k \notin unsynced' => Shows(k)'
    BY <1>b, <2>1
  <2>8. \A u \in Reviewers \ {v} :
          review[u].pc # "idle" /\ ItemOf(u) \in SameAspect(k) => SameAspect(k) \subseteq unsynced'
    BY <1>c, <2>1
  <2> QED BY <2>1, <2>3, <2>4, <2>5, <2>6, <2>7, <2>8, <1>k, ReviewTurn
<1>3. ASSUME review_demote(v) \/ get_aspect(v) PROVE DataHubInv'
  <2>1. /\ UNCHANGED <<cand, datahub, run, unsynced, evicted>>
        /\ \A u \in Reviewers \ {v} : review'[u] = review[u]
        /\ \/ r.pc = "sibling" /\ review'[v] = [r EXCEPT !.pc = "write"]
           \/ r.pc = "emit" /\ review'[v] = [r EXCEPT !.pc = "put", !.seen = datahub]
    BY <1>0, <1>3 DEF review_demote, get_aspect, SetReview, auxVars
  <2>3. /\ review'[v].cand = r.cand /\ review'[v].loaded = r.loaded /\ review'[v].sib = r.sib
        /\ review'[v].verdict = r.verdict
        /\ \/ r.pc = "sibling" /\ review'[v].pc = "write"
           \/ r.pc = "emit" /\ review'[v].pc = "put" /\ review'[v].seen = datahub
    BY <1>c, <2>1 DEF Review
  <2>4. ItemOf(v)' = k
    BY <1>c, <2>1, <2>3 DEF ItemOf
  <2>5. review'[v].sib # None => cand'[review'[v].sib].item = k
    BY <1>c, <2>1, <2>3
  <2>6. k \notin unsynced' => Sound(v)'
    <3> SUFFICES ASSUME k \notin unsynced PROVE Sound(v)'
      BY <2>1
    <3>1. Sound(v)
      BY <1>c, <2>1
    <3>2. Approved(k)' = Approved(k)
      BY <2>1 DEF Approved
    <3> QED BY <1>k, <2>1, <2>3, <2>4, <3>1, <3>2 DEF Sound, Present
  <2>7. k \notin unsynced' /\ review'[v].pc \notin {"emit", "put"} => Shows(k)'
    BY <1>b, <2>1, <2>3
  <2>8. \A u \in Reviewers \ {v} :
          review[u].pc # "idle" /\ ItemOf(u) \in SameAspect(k) => SameAspect(k) \subseteq unsynced'
    BY <1>c, <2>1
  <2> QED BY <2>1, <2>3, <2>4, <2>5, <2>6, <2>7, <2>8, <1>k, ReviewTurn
<1>4. ASSUME review_ends(v) PROVE DataHubInv'
  <2>1. /\ r.pc # "idle" /\ UNCHANGED <<cand, datahub, run, evicted>>
        /\ \A u \in Reviewers \ {v} : review'[u] = review[u]
        /\ review'[v].pc = "idle"
        /\ unsynced' = IF r.pc \in {"emit", "put"} THEN unsynced \cup {k} ELSE unsynced
    BY <1>0, <1>4, <1>c DEF review_ends, SetReview, IdleReview
  <2>3. k \notin unsynced' => Shows(k)'
    BY <1>b, <2>1
  <2>4. unsynced \subseteq unsynced'
    BY <2>1
  <2>5. \A u \in Reviewers \ {v} :
          review[u].pc # "idle" /\ ItemOf(u) \in SameAspect(k) => SameAspect(k) \subseteq unsynced'
    BY <1>c, <2>1, <2>4
  <2> QED BY <2>1, <2>3, <2>4, <2>5, <1>k, ReviewTurn
<1> QED BY <1>2, <1>3, <1>4

\* approve: the candidate becomes the one approved row of the item.
LEMMA ApproveShows ==
  ASSUME MetagenInv, DataHubInv, NEW v \in Reviewers, review_approve(v)
  PROVE  DataHubInv'
<1> DEFINE r == review[v]
<1>1. /\ r.pc = "write" /\ r.verdict = "approve" /\ Present(r.cand)
      /\ r.loaded # "approved" => ConflictsWith(v) = {}
      /\ review' = [review EXCEPT ![v] = [r EXCEPT !.pc = "emit"]]
      /\ UNCHANGED <<run, datahub, unsynced, evicted>>
  BY DEF review_approve, SetReview, auxVars
<1>k. PICK k \in Items : k = ItemOf(v)
  BY <1>1, ReviewIsAlone
<1>2. /\ r \in Review /\ r.cand \in Candidates /\ k = cand[r.cand].item /\ r.sib # r.cand
      /\ \A u \in Reviewers \ {v} :
           review[u].pc # "idle" /\ ItemOf(u) \in SameAspect(k) => SameAspect(k) \subseteq unsynced
      /\ k \notin unsynced => Sound(v)
      /\ r.sib # None => cand[r.sib].item = k
  BY <1>1, <1>k, ReviewIsAlone DEF ItemOf, MetagenInv, ReviewOK
<1>3. /\ \A u \in Reviewers \ {v} : review'[u] = review[u]
      /\ review'[v].pc = "emit" /\ review'[v].cand = r.cand /\ review'[v].sib = r.sib
      /\ review'[v].verdict = "approve"
  BY <1>1, <1>2 DEF Review, MetagenInv, MetagenTypeOK
<1>4. \A c \in Candidates :
        /\ cand'[c].item = cand[c].item
        /\ cand'[c].status = IF c = r.sib THEN "llm_approved"
                             ELSE IF c = r.cand /\ r.loaded # "approved" THEN "approved"
                             ELSE cand[c].status
  BY ApproveRows
<1>5. \A c \in Candidates : cand[c].item # k => cand'[c].status = cand[c].status
  BY <1>2, <1>4 DEF Candidates, None
<1>6. ItemOf(v)' = k
  BY <1>2, <1>3, <1>4 DEF ItemOf
<1>7. r.sib # None => cand'[r.sib].item = k
  <2>1. r.sib \in Candidates \cup {None}
    BY <1>2 DEF Review
  <2> QED BY <1>2, <1>4, <2>1
<1>8. k \notin unsynced' => Sound(v)'
  <2> SUFFICES ASSUME k \notin unsynced PROVE Approved(k)' = {r.cand}
    BY <1>1, <1>3, <1>6 DEF Sound
  <2>1. cand[r.cand].status = r.loaded
    BY <1>1, <1>2 DEF Sound
  <2>2. cand'[r.cand].item = k /\ cand'[r.cand].status = "approved"
    BY <1>2, <1>4, <2>1
  <2>3. ASSUME NEW c \in Candidates, cand'[c].item = k, cand'[c].status = "approved", c # r.cand
        PROVE  FALSE
    <3>1. c # r.sib /\ c \in Approved(k)
      BY <1>4, <2>3 DEF Approved
    <3>2. Approved(k) \subseteq {r.cand, r.sib}
      BY <1>1, <1>2, <1>k DEF Sound
    <3> QED BY <2>3, <3>1, <3>2
  <2> QED BY <1>2, <2>2, <2>3 DEF Approved
<1> QED BY <1>1, <1>2, <1>3, <1>4, <1>5, <1>6, <1>7, <1>8, <1>k, ReviewTurn

\* reject: no row of the item stays approved if the candidate was the approved one, and
\* none changes otherwise.
LEMMA RejectShows ==
  ASSUME MetagenInv, DataHubInv, NEW v \in Reviewers, review_reject(v)
  PROVE  DataHubInv'
<1> DEFINE r == review[v]
<1>1. /\ r.pc = "write" /\ r.verdict = "reject" /\ Present(r.cand)
      /\ cand' = IF r.loaded = "rejected" THEN cand ELSE [cand EXCEPT ![r.cand].status = "rejected"]
      /\ review' = [review EXCEPT ![v] = IF r.loaded = "approved" THEN [r EXCEPT !.pc = "emit"]
                                         ELSE IdleReview]
      /\ UNCHANGED <<run, datahub, unsynced, evicted>>
  BY DEF review_reject, SetReview, auxVars
<1>k. PICK k \in Items : k = ItemOf(v)
  BY <1>1, ReviewIsAlone
<1>2. /\ r \in Review /\ r.cand \in Candidates /\ k = cand[r.cand].item
      /\ \A u \in Reviewers \ {v} :
           review[u].pc # "idle" /\ ItemOf(u) \in SameAspect(k) => SameAspect(k) \subseteq unsynced
      /\ k \notin unsynced => Sound(v) /\ Shows(k)
      /\ r.sib # None => cand[r.sib].item = k
  BY <1>1, <1>k, ReviewIsAlone DEF ItemOf
<1>3. /\ \A u \in Reviewers \ {v} : review'[u] = review[u]
      /\ r.loaded # "approved" => review'[v].pc = "idle"
      /\ r.loaded = "approved" =>
           /\ review'[v].pc = "emit" /\ review'[v].cand = r.cand /\ review'[v].sib = r.sib
           /\ review'[v].verdict = "reject"
  BY <1>1, <1>2 DEF Review, IdleReview, MetagenInv, MetagenTypeOK
<1>4. \A c \in Candidates :
        /\ cand'[c].item = cand[c].item
        /\ cand'[c].status = IF c = r.cand /\ r.loaded # "rejected" THEN "rejected" ELSE cand[c].status
  BY <1>1, <1>2 DEF MetagenInv, MetagenTypeOK, Cand
<1>5. r.loaded = "approved" => ItemOf(v)' = k /\ (r.sib # None => cand'[r.sib].item = k)
  <2>1. r.sib \in Candidates \cup {None}
    BY <1>2 DEF Review
  <2> QED BY <1>2, <1>3, <1>4, <2>1 DEF ItemOf
<1>6. k \notin unsynced => cand[r.cand].status = r.loaded
  BY <1>1, <1>2 DEF Sound
<1>7. r.loaded = "approved" /\ k \notin unsynced => Sound(v)'
  <2> SUFFICES ASSUME r.loaded = "approved", k \notin unsynced PROVE Approved(k)' = {}
    BY <1>1, <1>3, <1>5 DEF Sound
  <2>1. r.cand \in Approved(k)
    BY <1>2, <1>6 DEF Approved
  <2>2. Approved(k) = {r.cand}
    BY <2>1 DEF MetagenInv, OneApproved
  <2>3. ASSUME NEW c \in Candidates, cand'[c].item = k, cand'[c].status = "approved" PROVE FALSE
    <3>1. c # r.cand
      BY <1>4, <2>3
    <3>2. c \in Approved(k)
      BY <1>4, <2>3, <3>1 DEF Approved
    <3> QED BY <2>2, <3>1, <3>2
  <2> QED BY <2>3 DEF Approved
<1>8. r.loaded # "approved" /\ k \notin unsynced => Shows(k)'
  <2> SUFFICES ASSUME r.loaded # "approved", k \notin unsynced PROVE Shows(k)'
    OBVIOUS
  <2>1. Approved(k)' = Approved(k)
    BY <1>2, <1>4, <1>6 DEF Approved
  <2> QED BY <1>1, <1>2, <2>1 DEF Shows
<1>9. \A c \in Candidates : cand[c].item # k => cand'[c].status = cand[c].status
  BY <1>2, <1>4
<1> QED BY <1>1, <1>2, <1>3, <1>4, <1>5, <1>7, <1>8, <1>9, <1>k, ReviewTurn

\* emit_aspect: DataHub catches up with the verdict, and the rest of the aspect is written
\* back as it was read.
LEMMA EmitShows ==
  ASSUME MetagenInv, DataHubInv, NEW v \in Reviewers, emit_aspect(v)
  PROVE  DataHubInv'
<1> DEFINE r == review[v]
<1>1. /\ r.pc = "put" /\ review' = [review EXCEPT ![v] = IdleReview]
      /\ UNCHANGED <<run, cand, unsynced, evicted>>
  BY DEF emit_aspect, SetReview, auxVars
<1>k. PICK k \in Items : k = ItemOf(v)
  BY <1>1, ReviewIsAlone
<1>2. /\ r.cand \in Candidates /\ k = cand[r.cand].item /\ k \in SameAspect(k)
      /\ \A u \in Reviewers \ {v} :
           review[u].pc # "idle" /\ ItemOf(u) \in SameAspect(k) => SameAspect(k) \subseteq unsynced
      /\ k \notin unsynced => Sound(v)
  BY <1>1, <1>k, ReviewIsAlone DEF ItemOf
<1>3. review'[v].pc = "idle" /\ \A u \in Reviewers \ {v} : review'[u] = review[u]
  BY <1>1 DEF IdleReview, MetagenInv, MetagenTypeOK
<1>4. \A j \in Items : datahub'[j] = IF j = k THEN IF r.verdict = "approve" THEN r.cand ELSE None
                                     ELSE IF j \in SameAspect(k) THEN r.seen[j] ELSE datahub[j]
  BY <1>2 DEF emit_aspect
<1>5. \A j \in Items \ (unsynced' \cup {k}) : datahub'[j] = datahub[j]
  BY <1>1, <1>4, <1>k DEF DataHubInv, AspectRead
<1>6. k \notin unsynced' => Shows(k)'
  <2> SUFFICES ASSUME k \notin unsynced PROVE Shows(k)'
    BY <1>1
  <2>1. \/ r.verdict = "approve" /\ Approved(k) = {r.cand}
        \/ Approved(k) = {} /\ (r.verdict = "approve" => r.cand \in evicted)
    BY <1>1, <1>2, <1>k DEF Sound
  <2>2. Approved(k)' = Approved(k)
    BY <1>1 DEF Approved
  <2>3. datahub'[k] = IF r.verdict = "approve" THEN r.cand ELSE None
    BY <1>4
  <2> QED BY <1>1, <2>1, <2>2, <2>3 DEF Shows
<1> QED BY <1>1, <1>2, <1>3, <1>5, <1>6, <1>k, ReviewTurn

\* What runs do to the rows never reaches DataHub: it goes on showing an approved row that
\* was evicted.
LEMMA RunShows ==
  ASSUME MetagenInv, DataHubInv, NEW w \in Workers, RunNext(w)
  PROVE  DataHubInv'
<1> DEFINE r == run[w]
<1>0. /\ run \in [Workers -> Run] /\ cand \in [Candidates -> Cand]
      /\ UNCHANGED <<review, datahub>>
  BY DEF MetagenInv, MetagenTypeOK, RunNext, run_load, run_refused, run_locked,
         run_begin, Clear, run_dataset, run_next_dataset, budget_count, budget_oldest,
         budget_evict, budget_insert, run_complete, run_fails, run_crashes, SetRun
<1>a. ASSUME UNCHANGED <<cand, unsynced, evicted>>, \A x \in Workers \ {w} : run'[x] = run[x],
             run'[w].pc \in {"evict", "insert"} /\ run'[w].victim # None =>
               cand[run'[w].victim].item = run'[w].item
      PROVE  DataHubInv'
  <2>1. VictimItem'
    BY <1>a DEF DataHubInv, VictimItem
  <2>2. \A i \in Items : Approved(i)' = Approved(i)
    BY <1>a DEF Approved
  <2> QED BY <1>0, <1>a, <2>1, <2>2, RowsKept
<1>1. CASE \/ \E k \in Keys, dry \in Dry : run_load(w, k, dry)
           \/ run_refused(w) \/ run_locked(w)
           \/ \E d \in Datasets, accepted \in SUBSET Items : run_dataset(w, d, accepted)
           \/ run_next_dataset(w)
           \/ run_complete(w) \/ run_fails(w) \/ run_crashes(w)
  <2>1. run'[w].pc \in {"idle", "loaded", "locked", "items", "datasets"}
    <3>0. r \in Run /\ IdleRun \in Run
      BY <1>0 DEF Run, IdleRun, NoConf, Conf
    <3>1. CASE \E k \in Keys, dry \in Dry : run_load(w, k, dry)
      BY <1>0, <3>1 DEF run_load, SetRun, IdleRun
    <3>2. CASE run_refused(w) \/ run_complete(w) \/ run_fails(w) \/ run_crashes(w)
      BY <1>0, <3>2 DEF run_refused, run_complete, run_fails, run_crashes, SetRun, IdleRun
    <3>3. CASE run_locked(w) \/ run_next_dataset(w)
      BY <1>0, <3>0, <3>3 DEF run_locked, run_next_dataset, SetRun, Run
    <3>4. ASSUME NEW d \in Datasets, NEW accepted \in SUBSET Items, run_dataset(w, d, accepted)
          PROVE  run'[w].pc = "items"
      BY <1>0, <3>0, <3>4 DEF run_dataset, SetRun, Run
    <3> QED BY <1>1, <3>1, <3>2, <3>3, <3>4
  <2>2. UNCHANGED <<cand, unsynced, evicted>> /\ \A x \in Workers \ {w} : run'[x] = run[x]
    BY <1>0, <1>1 DEF auxVars, run_load, run_refused, run_locked, run_dataset,
         run_next_dataset, run_complete, run_fails, run_crashes, SetRun
  <2> QED BY <1>a, <2>1, <2>2
<1>2. ASSUME NEW i \in Items, budget_count(w, i) PROVE DataHubInv'
  <2>1. run'[w].victim = None /\ UNCHANGED <<cand, unsynced, evicted>>
        /\ \A x \in Workers \ {w} : run'[x] = run[x]
    BY <1>0, <1>2 DEF budget_count, SetRun, Run, auxVars
  <2> QED BY <1>a, <2>1
<1>3. CASE budget_oldest(w) \/ budget_evict(w)
  <2>1. UNCHANGED <<cand, unsynced, evicted>> /\ \A x \in Workers \ {w} : run'[x] = run[x]
    BY <1>0, <1>3 DEF budget_oldest, budget_evict, SetRun, auxVars
  <2>2. \/ run'[w].pc = "items"
        \/ run'[w].victim \in Pending(r.conf, r.item) /\ run'[w].item = r.item
        \/ r.pc = "evict" /\ run'[w].item = r.item /\ run'[w].victim = r.victim
    BY <1>0, <1>3, ZenonT(60) DEF budget_oldest, budget_evict, SetRun, Run
  <2> QED BY <1>a, <2>1, <2>2 DEF Pending, DataHubInv, VictimItem
<1>4. ASSUME NEW scope \in SUBSET Datasets, run_begin(w, scope) PROVE DataHubInv'
  <2>1. PICK cleared \in SUBSET Candidates :
          /\ \A c \in cleared : cand[c].status = "rejected"
          /\ cand' = [c \in Candidates |-> IF c \in cleared
                                           THEN [cand[c] EXCEPT !.status = "deleted"] ELSE cand[c]]
    BY <1>4, ClearedRows DEF run_begin
  <2>2. \A c \in Candidates : /\ cand'[c].item = cand[c].item
                              /\ \/ cand'[c].status = cand[c].status
                                 \/ cand'[c].status = "deleted" /\ cand[c].status = "rejected"
    BY <1>0, <2>1 DEF Cand
  <2>3. \A i \in Items : Approved(i)' = Approved(i)
    BY <2>2 DEF Approved
  <2>4. run'[w].pc = "datasets" /\ UNCHANGED <<unsynced, evicted>> /\ \A x \in Workers \ {w} : run'[x] = run[x]
    BY <1>0, <1>4 DEF run_begin, Clear, SetRun, Run, auxVars
  <2>5. VictimItem'
    <3> SUFFICES ASSUME NEW x \in Workers \ {w}, run[x].pc \in {"evict", "insert"},
                        run[x].victim # None
                 PROVE  cand'[run[x].victim].item = run[x].item
      BY <2>4 DEF VictimItem
    <3>1. run[x].victim \in Candidates
      BY <1>0 DEF Run
    <3> QED BY <2>2, <3>1 DEF DataHubInv, VictimItem
  <2> QED BY <1>0, <2>2, <2>3, <2>4, <2>5, RowsKept DEF Status
<1>5. ASSUME NEW n \in Candidates, budget_insert(w, n) PROVE DataHubInv'
  <2> DEFINE old == r.victim
             new == [status |-> "llm_approved", conf |-> r.conf, item |-> r.item]
             keep == IF old = None THEN cand ELSE [cand EXCEPT ![old].status = "deleted"]
  <2>1. /\ r.pc = "insert" /\ cand[n].status = "absent" /\ cand' = [keep EXCEPT ![n] = new]
        /\ evicted' = IF old # None /\ cand[old].status = "approved" THEN evicted \cup {old} ELSE evicted
        /\ UNCHANGED unsynced
        /\ run' = [run EXCEPT ![w] = [r EXCEPT !.pc = "items", !.item = None, !.victim = None]]
    BY <1>5 DEF budget_insert, SetRun
  <2>2. run'[w].pc = "items" /\ \A x \in Workers \ {w} : run'[x] = run[x]
    BY <1>0, <2>1 DEF Run
  <2>3. \A c \in Candidates : /\ keep[c].item = cand[c].item
                              /\ keep[c].status = IF c = old THEN "deleted" ELSE cand[c].status
    BY <1>0 DEF Cand, Candidates, None
  <2>4. \A c \in Candidates : cand'[c] = IF c = n THEN new ELSE keep[c]
    BY <1>0, <2>1
  <2> HIDE DEF keep
  <2>5. \A c \in Candidates : c # n => cand'[c].item = cand[c].item
                                       /\ cand'[c].status = IF c = old THEN "deleted" ELSE cand[c].status
    BY <2>3, <2>4
  <2>6. cand'[n].status = "llm_approved"
    BY <2>4
  <2>7. \A i \in Items, c \in Candidates : c \in Approved(i)' => c \in Approved(i)
    BY <2>5, <2>6 DEF Approved
  <2>8. \A i \in Items, c \in Candidates : c \in Approved(i) /\ c \notin Approved(i)' => c \in evicted'
    <3> SUFFICES ASSUME NEW i \in Items, NEW c \in Approved(i), c \notin Approved(i)'
                 PROVE  c \in evicted'
      OBVIOUS
    <3>1. c \in Candidates /\ cand[c].status = "approved" /\ c # n
      BY <2>1 DEF Approved
    <3>2. c = old
      BY <2>5, <3>1 DEF Approved
    <3>3. c # None
      BY <3>1 DEF Candidates, None
    <3> QED BY <2>1, <3>1, <3>2, <3>3
  <2>e. \A i \in Items : Approved(i)' \subseteq Approved(i) /\ Approved(i) \ Approved(i)' \subseteq evicted'
    BY <2>7, <2>8 DEF Approved
  <2>9. VictimItem'
    <3> SUFFICES ASSUME NEW x \in Workers \ {w}, run[x].pc \in {"evict", "insert"},
                        run[x].victim # None
                 PROVE  cand'[run[x].victim].item = run[x].item
      BY <2>2 DEF VictimItem
    <3>1. run[x].victim \in Candidates
      BY <1>0 DEF Run
    <3>2. run[x].victim # n
      BY <2>1 DEF MetagenInv, VictimOK
    <3> QED BY <2>5, <3>1, <3>2 DEF DataHubInv, VictimItem
  <2>10. \A c \in Candidates : cand[c].status # "absent" =>
           /\ cand'[c].item = cand[c].item
           /\ cand'[c].status \in Status => cand'[c].status = cand[c].status
    BY <2>1, <2>5 DEF Status
  <2>11. unsynced \subseteq unsynced' /\ evicted \subseteq evicted'
    BY <2>1
  <2> QED BY <1>0, <2>e, <2>9, <2>10, <2>11, RowsKept
<1> QED BY <1>1, <1>2, <1>3, <1>4, <1>5, SMTT(30) DEF RunNext

LEMMA DataHubInvStep == MetagenInv /\ DataHubInv /\ [Next]_vars => DataHubInv'
<1> SUFFICES ASSUME MetagenInv, DataHubInv, [Next]_vars PROVE DataHubInv'
  OBVIOUS
<1>1. ASSUME UNCHANGED <<cand, run, review, datahub, auxVars>> PROVE DataHubInv'
  <2>1. VictimItem' /\ \A i \in Items : Approved(i)' = Approved(i)
    BY <1>1 DEF VictimItem, DataHubInv, Approved
  <2> QED BY <1>1, <2>1, RowsKept DEF auxVars
<1>2. ASSUME NEW k \in Keys, delete_conf(k) PROVE DataHubInv'
  <2>1. UNCHANGED <<run, review, datahub, unsynced, evicted>>
        /\ \A c \in Candidates : cand'[c].status = cand[c].status /\ cand'[c].item = cand[c].item
    BY <1>2 DEF delete_conf, MetagenInv, MetagenTypeOK, Cand, auxVars
  <2>2. \A i \in Items : Approved(i)' = Approved(i)
    BY <2>1 DEF Approved
  <2>3. VictimItem'
    <3> SUFFICES ASSUME NEW x \in Workers, run[x].pc \in {"evict", "insert"}, run[x].victim # None
                 PROVE  cand'[run[x].victim].item = run[x].item
      BY <2>1 DEF VictimItem
    <3>1. run[x].victim \in Candidates
      BY DEF MetagenInv, MetagenTypeOK, Run
    <3> QED BY <2>1, <3>1 DEF DataHubInv, VictimItem
  <2> QED BY <2>1, <2>2, <2>3, RowsKept
<1>3. CASE ConfNext
  BY <1>1, <1>2, <1>3 DEF ConfNext, create_conf, put_conf, put_boundary
<1>4. ASSUME NEW w \in Workers, RunNext(w) PROVE DataHubInv'
  BY <1>4, RunShows
<1>5. ASSUME NEW v \in Reviewers, ReviewNext(v) PROVE DataHubInv'
  BY <1>5, QuietReviewShows, ApproveShows, RejectShows, EmitShows DEF ReviewNext
<1> QED BY <1>1, <1>3, <1>4, <1>5 DEF Next, vars, lock_expires

\* Of an item whose reviews have not overlapped and whose writes to DataHub succeeded,
\* DataHub shows the approved candidate, or, when none is, nothing or a candidate that a run
\* evicted while it was approved.
THEOREM DataHubIsFollowed == Spec => []DataHubFollowsReview
  BY InvInit, InvStep, DataHubInvInit, DataHubInvStep, ShowsFollows, PTL DEF Spec

\* run, its set_nx and the finally clause: metadata generation implements the run lock, so
\* that whatever is proved of RunLock holds of its runs.
THEOREM MetagenImplementsLock == Spec => LockSpec
<1>1. Init => LockInit
  BY DEF Init
<1>2. MetagenInv /\ [Next]_vars => [LockNext]_lockVars
  BY LockSteps DEF MetagenInv
<1> QED BY <1>1, <1>2, InvInit, InvStep, PTL DEF Spec, LockSpec

============================================================================

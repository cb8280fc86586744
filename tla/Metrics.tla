------------------------------ MODULE Metrics ------------------------------
(* Metric definitions, their runs and the verdicts they store, over the     *)
(* ingestion evidence (Evidence), the validation results that pipelines     *)
(* post and the documentation that DataHub holds.  A run works under the    *)
(* Redis lock of its metric (RunLock: Workers are runs, Keys metrics).      *)
EXTENDS Evidence, RunLock

CONSTANTS
  Filters,     \* dataset filters, each as the set of datasets it selects
  Types,       \* the metric types in use
  Window,      \* time_window_sec
  Ahead,       \* _MAX_SCHEDULED_AT_SKEW
  Tiers,       \* schedule tiers, each with a DAG of its own
  Lags,        \* arrival lags of validation confs: cadence_offset * cadence_unit
  Clients,     \* validation requests that may be under way at once
  Starts,      \* where to start: owner (reverse_lookup), metric definition and validation conf
  NoTier, NoMetric, NoConf, NoResult, NoVerdict

MetricTypes == {"ingestion-freshness", "validation-score", "doc-health"}
Definition == [type : Types, filter : Filters, enabled : BOOLEAN, tier : Tiers \cup {NoTier}]

(* A verdict row; type and instant are auxiliary, the metric type and the   *)
(* measurement instant of its run.                                         *)
Verdict == [met : BOOLEAN, evidence : Instants, type : MetricTypes, instant : Instants]
Verdicts == [Datasets -> Verdict \cup {NoVerdict}]

(* A metric_results row: values and breakdown.                             *)
Result == [met : 0 .. Cardinality(Datasets), failing : SUBSET Datasets]

ASSUME MetricsAssumption ==
  /\ IsFiniteSet(Datasets)
  /\ Types \subseteq MetricTypes /\ Filters \subseteq SUBSET Datasets
  /\ Window \in Nat /\ Ahead \in Nat /\ NoTier \notin Tiers /\ Lags \subseteq Nat
  /\ Starts \subseteq [owner : [Datasets -> Regulars \cup {NoSource}], defn : Definition, conf : Lags \cup {NoConf}]
  /\ NoMetric \notin Definition /\ NoConf \notin Lags /\ NoResult \notin Result /\ NoVerdict \notin Verdict

VARIABLES
  owner,       \* the source that answers for each dataset
  registered,  \* dataset_registry rows with datahub_registered
  documented,  \* datasets whose table and columns are all described in DataHub
  defn,        \* metric_definitions
  result,      \* the newest metric_results row of each metric
  stored,      \* metric_dataset_results
  work,        \* the runs under way
  overlap,     \* auxiliary: metrics that two runs were storing at once
  conf,        \* validation_configs: the arrival lag of each dataset's conf
  score,       \* validation_results: the latest score posted for each data_time
  assertion,   \* assertion entities in DataHub
  client,      \* validation requests under way
  muddled      \* auxiliary: datasets whose last conf request failed or overlapped another

estate == <<owner, registered, documented>>
runs == <<defn, result, stored, work, overlap, lockVars>>
validation == <<conf, score, assertion, client, muddled>>
vars == <<now, evidence, changes, estate, runs, validation>>

NoWork == [pc |-> "idle", instant |-> 0, dry |-> FALSE,
           out |-> [d \in Datasets |-> NoVerdict], seen |-> [d \in Datasets |-> NoVerdict]]
NoClient == [pc |-> "idle", ds |-> NoDataset, at |-> 0, pass |-> FALSE]

(* Some metrics exist: seed_factory_defaults inserts one of each type.       *)
Init ==
  /\ EvidenceInit /\ LockInit
  /\ \E start \in Starts :
       /\ owner = start.owner
       /\ defn = [m \in Keys |-> start.defn]
       /\ conf = [d \in Datasets |-> start.conf]
       /\ assertion = IF start.conf = NoConf THEN {} ELSE Datasets
  /\ registered = Datasets
  /\ documented = {}
  /\ result = [m \in Keys |-> NoResult]
  /\ stored = [m \in Keys |-> [d \in Datasets |-> NoVerdict]]
  /\ work = [w \in Workers |-> NoWork]
  /\ overlap = {}
  /\ score = [d \in Datasets |-> [t \in Instants |-> "none"]]
  /\ client = [c \in Clients |-> NoClient]
  /\ muddled = {}

----------------------------------------------------------------------------
(* The estate: the sweep registers and deregisters datasets (Ingestion),    *)
(* and people document them in DataHub.                                    *)
estate_changes ==
  /\ Change
  /\ \E d \in Datasets :
       \/ /\ registered' = (registered \ {d}) \cup ({d} \ registered)
          /\ UNCHANGED documented
       \/ /\ documented' = (documented \ {d}) \cup ({d} \ documented)
          /\ UNCHANGED registered
  /\ UNCHANGED <<now, evidence, owner, runs, validation>>

----------------------------------------------------------------------------
(* Metric definitions.  _validate_series and the filter grammar reject      *)
(* ill-formed bodies; Definition is the rest.                              *)

Storing(m) == {w \in Workers : task[w] = m /\ work[w].pc = "commit"}

create_metric_config(m, def) ==
  /\ defn[m] = NoMetric
  /\ Change
  /\ defn' = [defn EXCEPT ![m] = def]
  /\ UNCHANGED <<now, evidence, estate, result, stored, work, overlap, lockVars, validation>>

(* PUT and PATCH: any field, the type too; the verdicts of the earlier type *)
(* stay until the next run.                                                *)
replace_metric_config(m, def) ==
  /\ defn[m] # NoMetric /\ defn[m] # def
  /\ Change
  /\ defn' = [defn EXCEPT ![m] = def]
  /\ UNCHANGED <<now, evidence, estate, result, stored, work, overlap, lockVars, validation>>

(* A run that is storing holds the definition through its foreign key: the  *)
(* deletion waits and then fails.                                          *)
delete_metric_config(m) ==
  /\ defn[m] # NoMetric /\ Storing(m) = {}
  /\ Change
  /\ defn' = [defn EXCEPT ![m] = NoMetric]
  /\ result' = [result EXCEPT ![m] = NoResult]
  /\ stored' = [stored EXCEPT ![m] = [d \in Datasets |-> NoVerdict]]
  /\ UNCHANGED <<now, evidence, estate, work, overlap, lockVars, validation>>

----------------------------------------------------------------------------
(* The measurers.                                                          *)

(* Fault for checking: the bound of the window is left out.                 *)
ingestion_freshness_open(d, instant) ==
  LET at == IF owner[d] = NoSource THEN 0 ELSE latest_ingestion_complete_by_source(owner[d]) IN
  [met |-> at > instant - Window, evidence |-> at, type |-> "ingestion-freshness", instant |-> instant]

ingestion_freshness(d, instant) ==
  LET s == owner[d]
      own == IF s = NoSource THEN 0 ELSE latest_ingestion_observed_by_dataset(s, d)
      at == IF s = NoSource THEN 0
            ELSE IF own # 0 THEN own ELSE latest_ingestion_complete_by_source(s) IN
  [met |-> at # 0 /\ at >= instant - Window, evidence |-> at,
   type |-> "ingestion-freshness", instant |-> instant]

_window_bounds(d, instant) == [upper |-> instant - conf[d], lower |-> instant - conf[d] - Window]

(* The newest result by data_time, in the window or not.                   *)
NewestResult(d) ==
  LET posted == {t \in Instants : score[d][t] # "none"} IN
  IF posted = {} THEN 0 ELSE CHOOSE t \in posted : \A u \in posted : u <= t

validation_score(d, instant) ==
  LET b == _window_bounds(d, instant)
      at == NewestResult(d)
      inWindow == at # 0 /\ b.lower <= at /\ at <= b.upper IN
  IF conf[d] = NoConf THEN NoVerdict ELSE
  [met |-> inWindow /\ score[d][at] = "pass", evidence |-> IF inWindow THEN at ELSE 0,
   type |-> "validation-score", instant |-> instant]

doc_health(d, instant) ==
  [met |-> d \in documented, evidence |-> 0, type |-> "doc-health", instant |-> instant]

_measure(type, scope, instant) ==
  [d \in Datasets |->
     IF d \notin scope THEN NoVerdict ELSE
     CASE type = "ingestion-freshness" -> ingestion_freshness(d, instant)
       [] type = "validation-score" -> validation_score(d, instant)
       [] type = "doc-health" -> doc_health(d, instant)]

(* Registered datasets that the filter selects.                            *)
resolve_dataset_scope(m) == registered \cap defn[m].filter

_breakdown_from_verdicts(out) == {d \in Datasets : out[d] # NoVerdict /\ ~out[d].met}

----------------------------------------------------------------------------
(* A run: under the lock, the measurement, then the result and the verdicts *)
(* in one transaction.                                                     *)

(* Runs are anonymous, so that a new one may take any free name.             *)
run(w, m, instant, dry) ==
  /\ task[w] = NoKey /\ w = CHOOSE v \in Workers : task[v] = NoKey
  /\ set_nx(w, m)
  /\ work' = [work EXCEPT ![w] = [NoWork EXCEPT !.pc = "measure", !.instant = instant, !.dry = dry]]
  /\ UNCHANGED <<now, evidence, estate, defn, result, stored, overlap, validation>>

(* The periodic DAG of a tier: the interval that ends now, of the enabled    *)
(* metrics of that tier.  A metric without one runs on demand only.         *)
list_active_for_tier(tier) == {m \in Keys : defn[m] # NoMetric /\ defn[m].enabled /\ defn[m].tier = tier}

scheduled_run(w, m) ==
  /\ \E tier \in Tiers : m \in list_active_for_tier(tier)
  /\ run(w, m, now, FALSE)
  /\ UNCHANGED changes

(* A run on demand, dry or not, or one that is behind its schedule or, by a  *)
(* clock that is fast, ahead of it.                                        *)
requested_run(w, m, instant, dry) ==
  /\ instant <= now + Ahead /\ (dry => instant = now)
  /\ Change
  /\ run(w, m, instant, dry)

(* The finally clause of run.                                              *)
Finish(w) == delete_if_value(w) /\ work' = [work EXCEPT ![w] = NoWork]

(* The definition, the scope and the evidence.  Not found and               *)
(* METRIC_DISABLED end the run; a dry run is only answered.                *)
_run_inner(w) ==
  LET m == task[w]
      refused == defn[m] = NoMetric \/ (~defn[m].enabled /\ ~work[w].dry) IN
  /\ work[w].pc = "measure"
  /\ IF refused \/ work[w].dry THEN Finish(w) ELSE
     /\ work' = [work EXCEPT ![w] = [NoWork EXCEPT !.pc = "store",
                    !.out = _measure(defn[m].type, resolve_dataset_scope(m), work[w].instant)]]
     /\ UNCHANGED lockVars
  /\ UNCHANGED <<now, evidence, changes, estate, defn, result, stored, overlap, validation>>

(* _replace_dataset_verdicts begins: its DELETE sees the rows committed by  *)
(* now.  A definition that is gone fails the insert of the result.          *)
store(w) ==
  LET m == task[w] IN
  /\ work[w].pc = "store"
  /\ IF defn[m] = NoMetric THEN Finish(w) /\ UNCHANGED overlap ELSE
     /\ work' = [work EXCEPT ![w].pc = "commit", ![w].seen = stored[m]]
     /\ overlap' = IF Storing(m) # {} THEN overlap \cup {m} ELSE overlap
     /\ UNCHANGED lockVars
  /\ UNCHANGED <<now, evidence, changes, estate, defn, result, stored, validation>>

(* Fault for checking: only the datasets with a new verdict are replaced.   *)
Kept_others(w) == [d \in Datasets |-> IF work[w].out[d] # NoVerdict THEN NoVerdict ELSE stored[task[w]][d]]

(* Rows that came after the DELETE are left; a primary key that they hold   *)
(* fails the whole transaction.  A row like one that was there before passes *)
(* for that one.                                                           *)
Kept(w) == [d \in Datasets |-> IF stored[task[w]][d] = work[w].seen[d] THEN NoVerdict
                               ELSE stored[task[w]][d]]

_replace_dataset_verdicts(w) ==
  LET m == task[w]
      out == work[w].out
      clash == \E d \in Datasets : out[d] # NoVerdict /\ Kept(w)[d] # NoVerdict IN
  /\ work[w].pc = "commit"
  /\ Finish(w)
  /\ IF clash THEN UNCHANGED <<result, stored>> ELSE
     /\ stored' = [stored EXCEPT ![m] = [d \in Datasets |-> IF out[d] # NoVerdict THEN out[d] ELSE Kept(w)[d]]]
     /\ result' = [result EXCEPT ![m] =
          [met |-> Cardinality({d \in Datasets : out[d] # NoVerdict /\ out[d].met}),
           failing |-> _breakdown_from_verdicts(out)]]
  /\ UNCHANGED <<now, evidence, changes, estate, defn, overlap, validation>>

(* The process dies, an open transaction with it.                          *)
run_dies(w) ==
  /\ Change
  /\ Crash(w)
  /\ work' = [work EXCEPT ![w] = NoWork]
  /\ UNCHANGED <<now, evidence, estate, defn, result, stored, overlap, validation>>

(* The ttl passes: over the key of a dead run, or of one still at work.      *)
lock_expires(m) ==
  /\ IF holder[m] = Lost THEN UNCHANGED changes ELSE Change
  /\ Expire(m)
  /\ UNCHANGED <<now, evidence, estate, defn, result, stored, work, overlap, validation>>

----------------------------------------------------------------------------
(* Validation: one rule per dataset.  The tables are committed first and    *)
(* DataHub follows.  What DataHub fails to do is neither undone nor retried: *)
(* the dataset stays muddled until the next change of its conf.             *)

Begin(c, pc, d, at, pass) ==
  /\ client[c].pc = "idle"
  /\ Change
  /\ client' = [client EXCEPT ![c] = [pc |-> pc, ds |-> d, at |-> at, pass |-> pass]]
  /\ muddled' = IF \E e \in Clients : client[e].ds = d THEN muddled \cup {d}
                ELSE IF pc = "insert" THEN muddled ELSE muddled \ {d}

End(c) == client' = [client EXCEPT ![c] = NoClient]

upsert_config(c, d, lag) ==
  /\ d \in registered
  /\ Begin(c, "register", d, 0, FALSE)
  /\ conf' = [conf EXCEPT ![d] = lag]
  /\ UNCHANGED <<now, evidence, estate, runs, score, assertion>>

patch_config(c, d, lag) ==
  /\ conf[d] # NoConf
  /\ Begin(c, "register", d, 0, FALSE)
  /\ conf' = [conf EXCEPT ![d] = lag]
  /\ UNCHANGED <<now, evidence, estate, runs, score, assertion>>

delete_config(c, d) ==
  /\ conf[d] # NoConf
  /\ Begin(c, "retract", d, 0, FALSE)
  /\ conf' = [conf EXCEPT ![d] = NoConf]
  /\ score' = [score EXCEPT ![d] = [t \in Instants |-> "none"]]
  /\ UNCHANGED <<now, evidence, estate, runs, assertion>>

(* Fault for checking: the entity stays.                                   *)
datahub_assertion_kept(c) ==
  /\ client[c].pc \in {"register", "retract"}
  /\ End(c)
  /\ assertion' = IF client[c].pc = "register" THEN assertion \cup {client[c].ds} ELSE assertion
  /\ UNCHANGED <<now, evidence, changes, estate, runs, conf, score, muddled>>

(* register_assertion after PUT and PATCH, hard_delete_entity after DELETE. *)
datahub_assertion(c) ==
  /\ client[c].pc \in {"register", "retract"}
  /\ End(c)
  /\ assertion' = IF client[c].pc = "register" THEN assertion \cup {client[c].ds}
                  ELSE assertion \ {client[c].ds}
  /\ UNCHANGED <<now, evidence, changes, estate, runs, conf, score, muddled>>

datahub_fails(c) ==
  /\ client[c].pc \in {"register", "retract"}
  /\ End(c)
  /\ muddled' = muddled \cup {client[c].ds}
  /\ UNCHANGED <<now, evidence, changes, estate, runs, conf, score, assertion>>

(* record_result finds the conf, and inserts without looking again: the     *)
(* results have no foreign key to it.  Any data_time will do.               *)
record_result(c, d, at, pass) ==
  /\ conf[d] # NoConf
  /\ at # 0
  /\ Begin(c, "insert", d, at, pass)
  /\ UNCHANGED <<now, evidence, estate, runs, conf, score, assertion>>

insert_result(c) ==
  /\ client[c].pc = "insert"
  /\ End(c)
  /\ score' = [score EXCEPT ![client[c].ds][client[c].at] = IF client[c].pass THEN "pass" ELSE "fail"]
  /\ UNCHANGED <<now, evidence, changes, estate, runs, conf, assertion, muddled>>

----------------------------------------------------------------------------
EvidenceStep ==
  /\ EvidenceNext
  /\ UNCHANGED <<estate, runs, validation>>

DefinitionRequest ==
  \E m \in Keys :
    \/ delete_metric_config(m)
    \/ \E def \in Definition : create_metric_config(m, def) \/ replace_metric_config(m, def)

RunStep(w) == _run_inner(w) \/ store(w) \/ _replace_dataset_verdicts(w)

RunRequest ==
  \E w \in Workers :
    \/ run_dies(w)
    \/ \E m \in Keys : \/ scheduled_run(w, m)
                       \/ \E instant \in Instants \ {0}, dry \in BOOLEAN : requested_run(w, m, instant, dry)

ClientStep(c) == datahub_assertion(c) \/ insert_result(c)

ValidationRequest ==
  \E c \in Clients, d \in Datasets :
    \/ delete_config(c, d) \/ datahub_fails(c)
    \/ \E lag \in Lags : upsert_config(c, d, lag) \/ patch_config(c, d, lag)
    \/ \E at \in Instants, pass \in BOOLEAN : record_result(c, d, at, pass)

Next ==
  \/ EvidenceStep \/ estate_changes \/ DefinitionRequest \/ RunRequest \/ ValidationRequest
  \/ \E w \in Workers : RunStep(w)
  \/ \E m \in Keys : lock_expires(m)
  \/ \E c \in Clients : ClientStep(c)

(* The clock goes on, the sweep and the tier DAG come round, runs and       *)
(* requests that were begun go on, and a key of Redis expires.              *)
Fairness ==
  /\ WF_vars(Tick /\ UNCHANGED <<estate, runs, validation>>)
  /\ WF_vars(Observe /\ UNCHANGED <<estate, runs, validation>>)
  /\ \A p \in Passes : WF_vars(insert_observations(p) /\ UNCHANGED <<estate, runs, validation>>)
  /\ \A m \in Keys : WF_vars(\E w \in Workers : scheduled_run(w, m))
  /\ \A w \in Workers : WF_vars(RunStep(w))
  /\ \A c \in Clients : WF_vars(ClientStep(c))
  /\ \A m \in Keys : WF_vars(holder[m] = Lost /\ lock_expires(m))

Spec == Init /\ [][Next]_vars
FairSpec == Spec /\ Fairness

----------------------------------------------------------------------------
(* Types of the tables and of the runs and requests under way.             *)
MetricsTypeOK ==
  /\ EvidenceTypeOK /\ LockTypeOK
  /\ owner \in [Datasets -> Regulars \cup {NoSource}]
  /\ registered \subseteq Datasets /\ documented \subseteq Datasets
  /\ defn \in [Keys -> Definition \cup {NoMetric}]
  /\ result \in [Keys -> Result \cup {NoResult}]
  /\ stored \in [Keys -> Verdicts]
  /\ work \in [Workers -> [pc : {"idle", "measure", "store", "commit"},
                           instant : Instants, dry : BOOLEAN, out : Verdicts, seen : Verdicts]]
  /\ overlap \subseteq Keys
  /\ conf \in [Datasets -> Lags \cup {NoConf}]
  /\ score \in [Datasets -> [Instants -> {"none", "pass", "fail"}]]
  /\ assertion \subseteq Datasets
  /\ client \in [Clients -> [pc : {"idle", "register", "retract", "insert"}, ds : Datasets \cup {NoDataset},
                             at : Instants, pass : BOOLEAN]]
  /\ muddled \subseteq Datasets

(* A freshness verdict is earned: behind a stored `met` there is an          *)
(* ingestion that took place, of the dataset or on behalf of the source that *)
(* answers for it, no older than the window and not in the future.  Dry      *)
(* runs, failed and cancelled executions, other sources' runs and unusable   *)
(* time stamps never make a dataset fresh (ingestion_freshness.measure).     *)
EarnedFreshness ==
  \A m \in Keys, d \in Datasets :
    LET v == stored[m][d] IN
    v # NoVerdict /\ v.type = "ingestion-freshness" /\ v.met =>
      \E f \in facts : /\ f.at = v.evidence /\ f.at >= v.instant - Window /\ f.at <= now + Skew
                       /\ f.of \in Family(owner[d]) \cup {d} \cup Mapped[owner[d]]

(* The newest result and the verdicts stored for a metric are of one run     *)
(* unless two runs stored at once, which takes a run that outlived its lock   *)
(* (_run_inner: "the two can never describe different runs").                *)
OfOneRun(m) ==
  LET rows == {d \in Datasets : stored[m][d] # NoVerdict} IN
  IF result[m] = NoResult THEN rows = {}
  ELSE /\ {d \in rows : ~stored[m][d].met} = result[m].failing
       /\ Cardinality({d \in rows : stored[m][d].met}) = result[m].met

ResultMatchesVerdicts == \A m \in Keys \ overlap : OfOneRun(m)

(* The comment itself, without an exception.  It does not hold: a DELETE at   *)
(* READ COMMITTED leaves rows that another run commits after it.            *)
NeverOfDifferentRuns == \A m \in Keys : OfOneRun(m)

(* Between validation requests DataHub holds an assertion for exactly the    *)
(* datasets with a conf, whatever requests came before and whichever of them *)
(* DataHub failed, as soon as one change of the conf has gone through that no *)
(* other request overlapped (upsert_config, patch_config, delete_config).    *)
AssertionFollowsConf ==
  \A d \in Datasets \ muddled :
    (\A c \in Clients : client[c].ds # d) => (d \in assertion <=> conf[d] # NoConf)

(* What an enabled metric should say of a dataset by now: an independent     *)
(* reading of the tables.                                                   *)
Expected(m, d) ==
  LET Mine(e) == owner[d] # NoSource /\ e.src \in Family(owner[d]) /\ e.ok
      own == {e \in events : Mine(e) /\ e.ds = d}
      any == {e \in events : Mine(e) /\ e.by # "dry_run"} IN
  IF d \notin registered \cap defn[m].filter THEN "unknown" ELSE
  CASE defn[m].type = "doc-health" -> IF d \in documented THEN "met" ELSE "missed"
    [] defn[m].type = "ingestion-freshness" ->
         IF \E e \in (IF own = {} THEN any ELSE own) : e.at >= now - Window THEN "met" ELSE "missed"
    [] defn[m].type = "validation-score" ->
         IF conf[d] = NoConf THEN "unknown"
         ELSE IF \E t \in Instants : /\ score[d][t] = "pass"
                                     /\ t <= now - conf[d] /\ t >= now - conf[d] - Window
                                     /\ \A u \in Instants : u > t => score[d][u] = "none"
              THEN "met" ELSE "missed"

Shown(m, d) == IF stored[m][d] = NoVerdict THEN "unknown" ELSE IF stored[m][d].met THEN "met" ELSE "missed"

(* Once the world stands still, the scheduled runs of an enabled metric that   *)
(* has a tier make its verdicts what the evidence says now and keep them so, whatever    *)
(* late, dead, lapsed, dry or backlogged runs and lost locks came before      *)
(* (run, _run_inner, list_active_for_tier).                                  *)
VerdictsConverge ==
  <>[](\A m \in Keys : defn[m] # NoMetric /\ defn[m].enabled /\ defn[m].tier # NoTier =>
         \A d \in Datasets : d \in registered => Shown(m, d) = Expected(m, d))

(* A run behind its schedule calls a dataset fresh only if one on time would  *)
(* have, from an ingestion inside the window that ends at its instant (run:    *)
(* "a retried or backlogged run measures the interval it is *for*").  It does  *)
(* not hold: the window has no upper end, and the newest evidence is read.    *)
BacklogMeasuresItsInterval ==
  \A m \in Keys, d \in Datasets :
    LET v == stored[m][d] IN
    v # NoVerdict /\ v.type = "ingestion-freshness" /\ v.met =>
      \E f \in facts : f.at >= v.instant - Window /\ f.at <= v.instant + Skew

============================================================================

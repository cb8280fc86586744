------------------------------ MODULE Evidence ------------------------------
(* The ingestion events: what the runs of extractors, the execution         *)
(* requests of DataHub, the Operation aspects of its datasets and their     *)
(* lastIngested stamps leave in the events table, and what the readers of   *)
(* that table make of it.  Instants are whatever a writer of DataHub put    *)
(* there: 0 stands for every value that is no instant at all (absent, not a *)
(* number, not positive), and a value may lie in the future.               *)
EXTENDS Integers, FiniteSets

CONSTANTS
  Sources,     \* ingestion_source rows
  Parent,      \* the regular source of a CLI wrapper, or NoSource
  Mode,        \* their modes
  Datasets,
  Mapped,      \* the datasets linked to each source
  Requests,    \* execution requests of DataHub
  RequestOf,   \* the source that each is a request of
  Passes,      \* sweeps that may be observing at once: no lock keeps them apart
  Skew,        \* _OBSERVED_AT_MAX_SKEW
  OpLimit,     \* how many Operations one read returns
  MaxTime,     \* bound: the clock
  MaxChanges,  \* bound: reports of DataHub, runs and requests
  NoSource, NoDataset, NoRequest

Regulars == {s \in Sources : Parent[s] = NoSource}
Family(s) == {e \in Sources : e = s \/ Parent[e] = s}
Instants == 0 .. MaxTime + Skew + 1

ASSUME EvidenceAssumption ==
  /\ NoSource \notin Sources /\ NoDataset \notin Datasets /\ NoRequest \notin Requests
  /\ Parent \in [Sources -> Sources \cup {NoSource}]
  /\ \A s \in Sources : Parent[s] # NoSource => Parent[s] \in Regulars /\ Mode[s] = "DATAHUB_MANAGED"
  /\ Mode \in [Sources -> {"ACTIVE_CUSTOM_MANAGED", "PASSIVE", "DATAHUB_MANAGED"}]
  /\ Mapped \in [Sources -> SUBSET Datasets]
  /\ RequestOf \in [Requests -> {s \in Sources : Mode[s] = "DATAHUB_MANAGED"}]
  /\ Skew \in Nat /\ OpLimit \in Nat /\ MaxTime \in Nat \ {0} /\ MaxChanges \in Nat

VARIABLES
  now,
  exec,      \* execution requests: status, start and requested instants
  ops,       \* instants of the ingesting Operations of each dataset
  last,      \* lastIngested of each dataset, 0 where DataHub has none
  events,    \* the events table, INGESTION.COMPLETE and INGESTION.FAIL
  pending,   \* what each observing sweep is about to insert
  twice,     \* auxiliary: sources and signals of which a row was inserted that was there
  crossed,   \* auxiliary: sources and signals that two sweeps observed at once
  facts,     \* auxiliary: the ingestions that took place, by source or by dataset
  changes

observing == <<pending, twice, crossed>>
evidence == <<exec, ops, last, events, observing, facts>>
evidenceVars == <<now, evidence, changes>>

Producers == {"run", "dry_run", "mirror", "passive", "last_ingested"}
Observers == {"passive", "last_ingested"}
Event == [src : Sources, ok : BOOLEAN, by : Producers, ds : Datasets \cup {NoDataset},
          req : Requests \cup {NoRequest}, at : 1 .. MaxTime + Skew]
Outcomes == {"SUCCESS", "FAILURE", "CANCELLED"}
NoPass == [src |-> NoSource, by |-> "none", new |-> {}]

EvidenceInit ==
  /\ now = 1
  /\ exec = [q \in Requests |-> [st |-> "none", start |-> 0, asked |-> 0]]
  /\ ops = [d \in Datasets |-> {}]
  /\ last = [d \in Datasets |-> 0]
  /\ events = {}
  /\ pending = [p \in Passes |-> NoPass]
  /\ twice = {}
  /\ crossed = {}
  /\ facts = {}
  /\ changes = 0

Change == changes < MaxChanges /\ changes' = changes + 1

Tick ==
  /\ now < MaxTime
  /\ now' = now + 1
  /\ UNCHANGED <<evidence, changes>>

----------------------------------------------------------------------------
(* DataHub.  A writer stamps the present, nothing, or a time yet to come.   *)

Fact(of, at) == facts' = facts \cup {[of |-> of, at |-> at]}

hub_execution_starts(q, start, asked) ==
  /\ exec[q].st = "none"
  /\ Change
  /\ exec' = [exec EXCEPT ![q] = [st |-> "RUNNING", start |-> start, asked |-> asked]]
  /\ UNCHANGED <<now, ops, last, events, observing, facts>>

hub_execution_ends(q, st) ==
  /\ exec[q].st = "RUNNING"
  /\ exec' = [exec EXCEPT ![q].st = st]
  /\ facts' = IF st = "SUCCESS"
              THEN facts \cup {[of |-> RequestOf[q], at |-> t] : t \in {exec[q].start, exec[q].asked} \ {0}}
              ELSE facts
  /\ UNCHANGED <<now, ops, last, events, observing, changes>>

hub_operation(d, at) ==
  /\ Change
  /\ ops' = [ops EXCEPT ![d] = @ \cup {at}]
  /\ Fact(d, at)
  /\ UNCHANGED <<now, exec, last, events, observing>>

hub_ingested(d, at) ==
  /\ Change
  /\ last' = [last EXCEPT ![d] = at]
  /\ Fact(d, at)
  /\ UNCHANGED <<now, exec, ops, events, observing>>

----------------------------------------------------------------------------
(* The observation pass of the sweep: each source and signal is a           *)
(* transaction of its own.  It reads DataHub and then the rows that the     *)
(* table holds, and what is missing is inserted and committed in a second    *)
(* step: another sweep may come between.                                   *)

(* Fault for checking: a value that cannot be used is taken for the present.*)
_observed_at_clamped(at) == {IF at = 0 \/ at > now + Skew THEN now ELSE at}

(* The instant that a written value stands for, none if it is rejected.     *)
_observed_at(at) == {t \in {at} : 0 < t /\ t <= now + Skew}

(* The sweep p is about to insert the events of new.                       *)
Collect(p, s, by, new) ==
  /\ pending[p] = NoPass /\ new # {}
  /\ pending' = [pending EXCEPT ![p] = [src |-> s, by |-> by, new |-> new]]
  /\ crossed' = IF \E o \in Passes : pending[o].src = s /\ pending[o].by = by
                THEN crossed \cup {<<s, by>>} ELSE crossed
  /\ UNCHANGED <<now, exec, ops, last, events, twice, facts, changes>>

_existing_observation_keys(s, by) ==
  {<<e.ds, e.at>> : e \in {x \in events : x.src = s /\ x.by = by /\ x.ok}}

Observation(s, by, d, t) ==
  [src |-> s, ok |-> TRUE, by |-> by, ds |-> d, req |-> NoRequest, at |-> t]

(* An outcome is mirrored once per request URN, at the start instant or     *)
(* else at the requested one.                                              *)
MirroredAt(q) == IF _observed_at(exec[q].start) # {} THEN _observed_at(exec[q].start)
                 ELSE _observed_at(exec[q].asked)

(* Fault for checking: the row is looked up by its instant.                 *)
Unmirrored_instant(s) ==
  {q \in Requests : /\ RequestOf[q] = s /\ exec[q].st \in {"SUCCESS", "FAILURE"}
                    /\ \A e \in events : ~(e.src = s /\ e.by = "mirror" /\ e.at \in MirroredAt(q))}

Unmirrored(s) ==
  {q \in Requests : /\ RequestOf[q] = s /\ exec[q].st \in {"SUCCESS", "FAILURE"}
                    /\ \A e \in events : ~(e.src = s /\ e.req = q)}

Mirrored(s, q, t) ==
  [src |-> s, ok |-> exec[q].st = "SUCCESS", by |-> "mirror", ds |-> NoDataset, req |-> q, at |-> t]

_mirror_execution_requests(p, s) ==
  /\ Mode[s] = "DATAHUB_MANAGED"
  /\ Collect(p, s, "mirror", UNION {{Mirrored(s, q, t) : t \in MirroredAt(q)} : q \in Unmirrored(s)})

(* One read returns OpLimit Operations of a dataset at most, or fails.      *)
_observe_passive_operations(p, s) ==
  /\ Mode[s] = "PASSIVE"
  /\ \E got \in [Mapped[s] -> SUBSET Instants] :
       /\ \A d \in Mapped[s] : got[d] \subseteq ops[d] /\ Cardinality(got[d]) <= OpLimit
       /\ Collect(p, s, "passive",
            {Observation(s, "passive", k[1], k[2]) :
               k \in {x \in Mapped[s] \X Instants : \E w \in got[x[1]] : x[2] \in _observed_at(w)}
                     \ _existing_observation_keys(s, "passive")})

(* Wrappers are passed over: lastIngested belongs to the dataset.           *)
_observe_last_ingested_for_source(p, s) ==
  /\ s \in Regulars
  /\ Collect(p, s, "last_ingested",
       {Observation(s, "last_ingested", k[1], k[2]) :
          k \in {x \in Mapped[s] \X Instants : x[2] \in _observed_at(last[x[1]])}
                \ _existing_observation_keys(s, "last_ingested")})

(* Two rows of one execution, or of one dataset, signal and instant.        *)
SameRow(e, f) ==
  e.src = f.src /\ e.by = f.by /\ IF e.by = "mirror" THEN e.req = f.req ELSE e = f

(* The inserts are committed: no constraint of the table refuses a second   *)
(* row.  A row that is there already counts once in every reader.           *)
insert_observations(p) ==
  /\ pending[p] # NoPass
  /\ events' = events \cup pending[p].new
  /\ twice' = IF \E e \in pending[p].new, f \in events : SameRow(e, f)
              THEN twice \cup {<<pending[p].src, pending[p].by>>} ELSE twice
  /\ pending' = [pending EXCEPT ![p] = NoPass]
  /\ UNCHANGED <<now, exec, ops, last, crossed, facts, changes>>

(* The transaction fails, or the sweep dies: nothing is booked.             *)
observation_fails(p) ==
  /\ pending[p] # NoPass
  /\ Change
  /\ pending' = [pending EXCEPT ![p] = NoPass]
  /\ UNCHANGED <<now, exec, ops, last, events, twice, crossed, facts>>

(* The end of a run of an extractor.  A dry run writes nothing to DataHub   *)
(* and is recorded all the same.                                           *)
_record_source_event(s, ok, dry) ==
  /\ Mode[s] = "ACTIVE_CUSTOM_MANAGED"
  /\ Change
  /\ events' = events \cup {[src |-> s, ok |-> ok, by |-> IF dry THEN "dry_run" ELSE "run",
                             ds |-> NoDataset, req |-> NoRequest, at |-> now]}
  /\ facts' = IF ok /\ ~dry THEN facts \cup {[of |-> s, at |-> now]} ELSE facts
  /\ UNCHANGED <<now, exec, ops, last, observing>>

----------------------------------------------------------------------------
(* The readers.  0: no evidence.                                           *)
Latest(es) == IF es = {} THEN 0 ELSE CHOOSE t \in {e.at : e \in es} : \A e \in es : e.at <= t

_owner_by_entity_id(s) == Family(s)

latest_ingestion_observed_by_dataset(s, d) ==
  Latest({e \in events : e.src \in _owner_by_entity_id(s) /\ e.ok /\ e.by \in Observers /\ e.ds = d})

(* Fault for checking: dry runs count.                                     *)
latest_ingestion_complete_by_source_dry(s) ==
  Latest({e \in events : e.src \in _owner_by_entity_id(s) /\ e.ok})

latest_ingestion_complete_by_source(s) ==
  Latest({e \in events : e.src \in _owner_by_entity_id(s) /\ e.ok /\ e.by # "dry_run"})

----------------------------------------------------------------------------
HubReports ==
  \/ \E q \in Requests, w \in {<<now, 0>>, <<0, 0>>, <<now + Skew + 1, now>>} :
       hub_execution_starts(q, w[1], w[2])
  \/ \E q \in Requests, st \in Outcomes : hub_execution_ends(q, st)
  \/ \E d \in Datasets : hub_operation(d, now)
  \/ \E d \in Datasets, at \in {now, now + Skew + 1} : hub_ingested(d, at)

Observe ==
  \E p \in Passes, s \in Sources : \/ _mirror_execution_requests(p, s)
                                   \/ _observe_passive_operations(p, s)
                                   \/ _observe_last_ingested_for_source(p, s)

EvidenceNext ==
  \/ Tick \/ HubReports \/ Observe
  \/ \E p \in Passes : insert_observations(p) \/ observation_fails(p)
  \/ \E s \in Sources, ok, dry \in BOOLEAN : _record_source_event(s, ok, dry)

EvidenceSpec == EvidenceInit /\ [][EvidenceNext]_evidenceVars

EvidenceTypeOK ==
  /\ now \in 1 .. MaxTime
  /\ exec \in [Requests -> [st : {"none", "RUNNING"} \cup Outcomes,
                            start : Instants, asked : Instants]]
  /\ ops \in [Datasets -> SUBSET Instants]
  /\ last \in [Datasets -> Instants]
  /\ events \subseteq Event
  /\ pending \in [Passes -> [src : Sources \cup {NoSource}, by : Producers \cup {"none"}, new : SUBSET Event]]
  /\ twice \subseteq Sources \X Producers /\ crossed \subseteq Sources \X Producers
  /\ facts \subseteq [of : Sources \cup Datasets, at : Instants]
  /\ changes \in 0 .. MaxChanges

(* Whatever is written to DataHub: an event lies at an instant that DataHub  *)
(* reported or a run ended, and never beyond the clock by more than the      *)
(* skew, so that no later evidence is shut out (_observed_at: "rejected,     *)
(* never clamped and never defaulted").                                     *)
EvidenceIsReported ==
  \A e \in events : /\ e.at <= now + Skew
                    /\ e.by \in Observers => [of |-> e.ds, at |-> e.at] \in facts
                    /\ e.by = "mirror" => e.at \in {exec[e.req].start, exec[e.req].asked}

(* However often the sweeps read the same reports, whatever became of an     *)
(* instant in between and however their transactions failed: an execution    *)
(* request, and an instant of a dataset, is booked a second time on a source  *)
(* only where two sweeps observed that source and signal at once, the case    *)
(* that _existing_observation_keys names ("two concurrent sweeps can each     *)
(* leave a duplicate row behind").                                          *)
BookedOnceApart == twice \subseteq crossed

(* Identity is the execution-request URN (_mirror_execution_requests: "each  *)
(* request yields at most one event ... so repeated syncs and status          *)
(* transitions never duplicate").  It does not hold: the lookup and the       *)
(* insert of two overlapping sweeps interleave.                             *)
OneEventPerRequest == \A k \in twice : k[2] # "mirror"

============================================================================

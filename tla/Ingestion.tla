----------------------------- MODULE Ingestion -----------------------------
(* Ingestion sources, the links from sources to datasets and the dataset   *)
(* registry, as the sync sweep, the run of an extractor, the source        *)
(* endpoints and the registry checks read and write them.  A sweep is one  *)
(* database session: an action ends where it commits or waits for DataHub, *)
(* and what it has read by then is kept in sweep[w].                       *)
EXTENDS Naturals, FiniteSets

CONSTANTS
  Datasets,    \* dataset URNs that DataHub may hold
  Ghosts,      \* URNs that only the attribute read returns (no dataset of the enumeration)
  Regular,     \* ingestion source URNs of DataHub without a CLI marker
  Wrappers,    \* ingestion source URNs of DataHub with one
  ParentUrn,   \* the pipeline_name in a wrapper's recipe, a regular URN or NoUrn
  Recipes,     \* recipes: see Recipe
  Estate,      \* DataHub at the start
  FirstRows,   \* sources authored before the start
  Sweeps,      \* sweeps that may be under way at once
  Runs,        \* runs of extractors that may be under way at once
  Checks,      \* registry checks and admin syncs that may be under way at once
  Ids,         \* primary keys of ingestion_source
  Modes,       \* the modes that a request may ask for
  MaxChanges,  \* bound: changes in DataHub, requests and runs
  MaxFaults,   \* bound: failing calls and incomplete enumerations
  NoUrn, NoId, NoRow, NotListed

Urns == Regular \cup Wrappers
Known == Datasets \cup Ghosts
Links == {"none", "matched", "pipeline_name", "emitted"}
Flags == {"absent", "false", "true"}
Stamps == Regular \cup Ids \cup {NoUrn}

(* A recipe is the branch of build_matcher_checked that its config selects, *)
(* with the names that its patterns allow and deny and the names that its   *)
(* database prefix admits.                                                  *)
Keys == {"schema_pattern", "table_pattern", "topic_patterns", "dataset_pattern", "none", "unreadable"}
Recipe == [key : Keys, allow : SUBSET Datasets, deny : SUBSET Datasets, prefix : SUBSET Datasets]

Hub == [srcs : SUBSET Urns, recipe : [Urns -> Recipes], data : SUBSET Datasets,
        stamp : [Datasets -> Stamps]]

ASSUME IngestionAssumption ==
  /\ Datasets \cap Ghosts = {}
  /\ Regular \cap Wrappers = {}
  /\ ParentUrn \in [Wrappers -> Regular \cup {NoUrn}]
  /\ Recipes \subseteq Recipe
  /\ Modes \subseteq {"ACTIVE_CUSTOM_MANAGED", "PASSIVE", "DATAHUB_MANAGED"}
  /\ MaxChanges \in Nat /\ MaxFaults \in Nat
  /\ NoUrn \notin Urns \cup Ids /\ Urns \cap Ids = {}
  /\ NoId \notin Ids
  /\ NotListed \notin Recipes
  /\ Estate \in Hub

Row == [mode : {"ACTIVE_CUSTOM_MANAGED", "PASSIVE", "DATAHUB_MANAGED"},
        urn : Urns \cup {NoUrn}, parent : Ids \cup {NoId}, recipe : Recipes]

ASSUME RowAssumption ==
  /\ NoRow \notin Row
  /\ DOMAIN FirstRows \subseteq Ids
  /\ \A i \in DOMAIN FirstRows : /\ FirstRows[i] \in Row /\ FirstRows[i].mode # "DATAHUB_MANAGED"
                                 /\ FirstRows[i].urn = NoUrn /\ FirstRows[i].parent = NoId

VARIABLES
  hub,      \* DataHub: sources with their recipes, datasets, pipelineName of each dataset
  row,      \* ingestion_source
  used,     \* ids given out so far
  link,     \* ingestion_source_dataset: the derivation of each pair
  reg,      \* dataset_registry.datahub_registered
  sweep, run, check,
  health,   \* the datahub-api health row
  changes, faults

tables == <<row, used, link, reg>>
bounds == <<changes, faults>>
vars == <<hub, row, used, link, reg, sweep, run, check, health, changes, faults>>

----------------------------------------------------------------------------
(* The matcher.                                                            *)

(* The recipe could be read, its deciding key has a pattern set and the    *)
(* patterns compile: an empty match set is evidence.                       *)
Evaluated(r) == r.key # "unreadable"

has_selection_patterns(r) == r.key \notin {"none", "unreadable"}

build_matcher_checked(r, names) ==
  IF has_selection_patterns(r) THEN (names \cap r.prefix \cap r.allow) \ r.deny ELSE {}

----------------------------------------------------------------------------
(* Rows.                                                                   *)

Live == {i \in Ids : row[i] # NoRow}
Managed(i) == row[i] # NoRow /\ row[i].mode = "DATAHUB_MANAGED"
(* scalar_one_or_none: the row of a URN, or none; two rows are an error.   *)
RowsOf(u) == {i \in Ids : Managed(i) /\ row[i].urn = u}
Unique(us) == \A u \in us : Cardinality(RowsOf(u)) <= 1
RowOf(u) == IF RowsOf(u) = {} THEN NoId ELSE CHOOSE i \in RowsOf(u) : TRUE

NoLinks == [d \in Datasets |-> "none"]

(* Rows that go with the rows of gone: ON DELETE CASCADE to the wrappers    *)
(* of a source.                                                            *)
Cascade(gone) == gone \cup {i \in Live : row[i].parent \in gone}

DeleteRows(gone) ==
  /\ row' = [i \in Ids |-> IF i \in Cascade(gone) THEN NoRow ELSE row[i]]
  /\ link' = [i \in Ids |-> IF i \in Cascade(gone) THEN NoLinks ELSE link[i]]

(* The source that covers a dataset best, wrappers resolved to their        *)
(* parents: emitted before pipeline_name before matched, then regular       *)
(* sources before wrappers; last_seen_at decides among the rest, so any of  *)
(* the best may be the answer.                                             *)
_reverse_lookup_rank(i, d) ==
  2 * (CASE link[i][d] = "emitted" -> 0 [] link[i][d] = "pipeline_name" -> 1 [] OTHER -> 2)
    + (IF row[i].parent = NoId THEN 0 ELSE 1)

Covering(d) == {i \in Live : link[i][d] # "none"}

(* Fault for checking: a wrapper is returned as it is.                      *)
reverse_lookup_unresolved(d) ==
  {i \in Covering(d) : \A j \in Covering(d) : _reverse_lookup_rank(i, d) <= _reverse_lookup_rank(j, d)}

reverse_lookup(d) ==
  LET best == {i \in Covering(d) :
                 \A j \in Covering(d) : _reverse_lookup_rank(i, d) <= _reverse_lookup_rank(j, d)}
      Up(i) == IF row[i].parent # NoId /\ row[i].parent \in Live THEN row[i].parent ELSE i
  IN {Up(i) : i \in best}

----------------------------------------------------------------------------
IdleSweep == [pc |-> "idle", list |-> [u \in Urns |-> NotListed], found |-> [u \in Urns |-> NoId],
              data |-> {}, snap |-> [i \in Ids |-> NoRow], old |-> [i \in Ids |-> {}],
              rows |-> [d \in Known |-> "absent"]]
IdleRun == [pc |-> "idle", id |-> NoId, emitted |-> {}]
IdleCheck == [pc |-> "idle", urn |-> NoUrn, data |-> {}]

Init ==
  /\ hub = Estate
  /\ row = [i \in Ids |-> IF i \in DOMAIN FirstRows THEN FirstRows[i] ELSE NoRow]
  /\ used = DOMAIN FirstRows
  /\ link = [i \in Ids |-> NoLinks]
  /\ reg = [d \in Known |-> "absent"]
  /\ sweep = [w \in Sweeps |-> IdleSweep]
  /\ run = [r \in Runs |-> IdleRun]
  /\ check = [c \in Checks |-> IdleCheck]
  /\ health = "unknown"
  /\ changes = 0
  /\ faults = 0

Change == changes < MaxChanges /\ changes' = changes + 1 /\ UNCHANGED faults
Fault == faults < MaxFaults /\ faults' = faults + 1 /\ UNCHANGED changes

----------------------------------------------------------------------------
(* DataHub.                                                                *)

hub_source(u, r) ==
  /\ Change
  /\ hub' = [hub EXCEPT !.srcs = @ \cup {u}, !.recipe[u] = r]
  /\ hub' # hub
  /\ UNCHANGED <<tables, sweep, run, check, health>>

hub_source_gone(u) ==
  /\ u \in hub.srcs
  /\ Change
  /\ hub' = [hub EXCEPT !.srcs = @ \ {u}]
  /\ UNCHANGED <<tables, sweep, run, check, health>>

(* A connector of DataHub writes a dataset and stamps its source's URN.     *)
hub_ingest(d, u) ==
  /\ Change
  /\ hub' = [hub EXCEPT !.data = @ \cup {d}, !.stamp[d] = u]
  /\ hub' # hub
  /\ UNCHANGED <<tables, sweep, run, check, health>>

hub_dataset_gone(d) ==
  /\ d \in hub.data
  /\ Change
  /\ hub' = [hub EXCEPT !.data = @ \ {d}, !.stamp[d] = NoUrn]
  /\ UNCHANGED <<tables, sweep, run, check, health>>

----------------------------------------------------------------------------
(* The source endpoints.  _reject_if_datahub_managed: rows of DataHub are   *)
(* read-only here.  parse_recipe asks for a source type only, so patterns   *)
(* that cannot be read are stored.                                         *)

(* uuid4: ids are opaque, so one that was never used stands for all.       *)
NewId == CHOOSE i \in Ids : i \notin used

Authored(m, r) == m \in Modes /\ r \in Recipes

create_source(m, r) ==
  /\ used # Ids
  /\ Authored(m, r) /\ m # "DATAHUB_MANAGED"
  /\ Change
  /\ row' = [row EXCEPT ![NewId] = [mode |-> m, urn |-> NoUrn, parent |-> NoId, recipe |-> r]]
  /\ used' = used \cup {NewId}
  /\ UNCHANGED <<hub, link, reg, sweep, run, check, health>>

replace_source(i, m, r) ==
  /\ i \in Live /\ ~Managed(i)
  /\ Authored(m, r)
  /\ Change
  /\ row' = [row EXCEPT ![i].mode = m, ![i].recipe = r]
  /\ row' # row
  /\ UNCHANGED <<hub, used, link, reg, sweep, run, check, health>>

(* PATCH: name, schedule and recipe; the mode stays.                       *)
patch_source(i, r) ==
  /\ i \in Live /\ ~Managed(i)
  /\ Authored(row[i].mode, r)
  /\ Change
  /\ row' = [row EXCEPT ![i].recipe = r]
  /\ row' # row
  /\ UNCHANGED <<hub, used, link, reg, sweep, run, check, health>>

delete_source(i) ==
  /\ i \in Live /\ ~Managed(i)
  /\ Change
  /\ DeleteRows({i})
  /\ UNCHANGED <<hub, used, reg, sweep, run, check, health>>

----------------------------------------------------------------------------
(* The sweep.                                                              *)

Listed(w) == {u \in Urns : sweep[w].list[u] # NotListed}

(* Fault for checking: the parent is looked for among the wrappers.         *)
Linked_wrappers(w) == {u \in Wrappers \cap Listed(w) : ParentUrn[u] \in Wrappers}

(* Wrappers whose pipeline_name is a regular source of this sweep; the      *)
(* others are orphans.                                                     *)
Linked(w) == {u \in Wrappers \cap Listed(w) : ParentUrn[u] \in Listed(w)}
Seen(w) == (Regular \cap Listed(w)) \cup Linked(w)

Goto(w, pc) == sweep' = [sweep EXCEPT ![w].pc = pc]

(* Any exception that escapes _run_sweep: the open transaction is rolled    *)
(* back and the health row says so.                                        *)
Escape(w) ==
  /\ sweep' = [sweep EXCEPT ![w] = IdleSweep]
  /\ health' = "error"
  /\ UNCHANGED <<hub, tables, run, check>>

sync_fails(w) == sweep[w].pc \notin {"idle", "reconcile", "attrs"} /\ Fault /\ Escape(w)

(* What DataHub answers: its sources, and its datasets or, from a search    *)
(* index that lags, some or none of them.                                  *)
enumerate_datasets == IF faults < MaxFaults THEN SUBSET hub.data ELSE {hub.data}
list_ingestion_sources == [u \in Urns |-> IF u \in hub.srcs THEN hub.recipe[u] ELSE NotListed]

(* The sources of DataHub, then the row of each regular one is looked up.   *)
sync_start(w) ==
  LET list == list_ingestion_sources
      us == Regular \cap hub.srcs IN
  /\ sweep[w].pc = "idle"
  /\ UNCHANGED bounds
  /\ IF Unique(us)
     THEN /\ sweep' = [sweep EXCEPT ![w] = [IdleSweep EXCEPT !.pc = "pass_a", !.list = list,
                          !.found = [u \in Urns |-> IF u \in us THEN RowOf(u) ELSE NoId]]]
          /\ UNCHANGED <<hub, tables, run, check, health>>
     ELSE Escape(w)

(* _upsert_managed_row for the URNs us: rows found are updated, the others  *)
(* inserted under new ids; id gives every URN its row.                     *)
Fresh(w, us) == {u \in us : sweep[w].found[u] = NoId}
NewIds(w, us) == {f \in [Fresh(w, us) -> Ids \ used] : \A u, v \in Fresh(w, us) : f[u] = f[v] => u = v}
IdOf(w, us) == LET f == CHOOSE f \in NewIds(w, us) : TRUE IN
               [u \in Urns |-> IF u \in Fresh(w, us) THEN f[u] ELSE sweep[w].found[u]]
Gone(w, us) == \E u \in us \ Fresh(w, us) : sweep[w].found[u] \notin Live

_upsert_managed_row(w, us, parent) ==
  LET id == IdOf(w, us)
      Source(i) == CHOOSE u \in us : id[u] = i IN
  /\ row' = [i \in Ids |-> IF \E u \in us : id[u] = i
                           THEN [mode |-> "DATAHUB_MANAGED", urn |-> Source(i),
                                 parent |-> parent[Source(i)], recipe |-> sweep[w].list[Source(i)]]
                           ELSE row[i]]
  /\ used' = used \cup {id[u] : u \in us}

pass_a(w) ==
  LET us == Regular \cap Listed(w) IN
  /\ sweep[w].pc = "pass_a"
  /\ UNCHANGED bounds
  /\ IF Gone(w, us) THEN Escape(w) ELSE
       /\ NewIds(w, us) # {}
       /\ _upsert_managed_row(w, us, [u \in us |-> NoId])
       /\ IF Unique(Linked(w))
          THEN /\ sweep' = [sweep EXCEPT ![w].pc = "pass_b",
                      ![w].found = [u \in Urns |-> IF u \in us THEN IdOf(w, us)[u]
                                                  ELSE IF u \in Linked(w) THEN RowOf(u) ELSE NoId]]
               /\ UNCHANGED health
          ELSE sweep' = [sweep EXCEPT ![w] = IdleSweep] /\ health' = "error"
       /\ UNCHANGED <<hub, link, reg, run, check>>

pass_b(w) ==
  LET us == Linked(w)
      parent == [u \in us |-> sweep[w].found[ParentUrn[u]]] IN
  /\ sweep[w].pc = "pass_b"
  /\ UNCHANGED bounds
  /\ IF Gone(w, us) \/ \E u \in us : parent[u] \notin Live THEN Escape(w) ELSE
       /\ NewIds(w, us) # {}
       /\ _upsert_managed_row(w, us, parent)
       /\ Goto(w, "remove")
       /\ UNCHANGED <<hub, link, reg, run, check, health>>

(* Stale rows go; then the enumeration and the snapshot of all sources.     *)
Stale(w) == {i \in Ids : Managed(i) /\ row[i].urn # NoUrn /\ row[i].urn \notin Seen(w)}

remove_stale(w) ==
  /\ sweep[w].pc = "remove"
  /\ DeleteRows(Stale(w))
  /\ \E data \in enumerate_datasets :
       /\ IF data = hub.data THEN UNCHANGED bounds ELSE Fault
       /\ sweep' = [sweep EXCEPT ![w] = [IdleSweep EXCEPT !.pc = "map", !.data = data, !.snap = row']]
  /\ UNCHANGED <<hub, used, reg, run, check, health>>

(* Step 2, source by source: the stored matched rows are read, matched rows *)
(* are upserted below the stronger derivations, and what was read and no    *)
(* longer matches is deleted by its key, whatever it is by then, where the  *)
(* patterns were evaluated.  The sources have no row in common, so that one *)
(* read and one commit of all stand for the loop.                          *)
Matched(w, i) == IF sweep[w].snap[i] = NoRow THEN {}
                 ELSE build_matcher_checked(sweep[w].snap[i].recipe, sweep[w].data)

existing_matcher_rows(w) ==
  /\ sweep[w].pc = "map"
  /\ sweep' = [sweep EXCEPT ![w].pc = "prune",
                            ![w].old = [i \in Ids |-> IF sweep[w].snap[i] = NoRow THEN {}
                                                      ELSE {d \in Datasets : link[i][d] = "matched"}]]
  /\ UNCHANGED <<hub, tables, run, check, health, bounds>>

(* Fault for checking: patterns that were not evaluated prune as well.      *)
Pruned_degraded(w, i) == sweep[w].old[i] \ Matched(w, i)

Pruned(w, i) == IF sweep[w].snap[i] # NoRow /\ Evaluated(sweep[w].snap[i].recipe)
                THEN sweep[w].old[i] \ Matched(w, i) ELSE {}

MappedLink(w, i, d) ==
  IF d \in Pruned(w, i) THEN "none"
  ELSE IF link[i][d] = "none" /\ d \in Matched(w, i) THEN "matched" ELSE link[i][d]

map_datasets(w) ==
  /\ sweep[w].pc = "prune"
  /\ UNCHANGED bounds
  /\ IF \E i \in Ids \ Live : Matched(w, i) # {} THEN Escape(w) ELSE
     /\ link' = [i \in Ids |-> [d \in Datasets |-> MappedLink(w, i, d)]]
     /\ sweep' = [sweep EXCEPT ![w].pc = "reconcile", ![w].old = IdleSweep.old, ![w].rows = reg]
     /\ UNCHANGED <<hub, row, used, reg, run, check, health>>

(* Step 2b.  An insert that meets a row inserted since rolls the step back, *)
(* and a failing step is skipped; deregistration needs a non-empty         *)
(* enumeration.                                                            *)
(* Fault for checking: an empty enumeration deregisters.                    *)
Reconciled_noGuard(w, d) ==
  CASE d \in sweep[w].data /\ sweep[w].rows[d] \in {"absent", "false"} -> "true"
    [] d \notin sweep[w].data /\ sweep[w].rows[d] = "true" -> "false"
    [] OTHER -> reg[d]

Reconciled(w, d) ==
  LET data == sweep[w].data IN
  CASE d \in data /\ sweep[w].rows[d] \in {"absent", "false"} -> "true"
    [] d \notin data /\ sweep[w].rows[d] = "true" /\ data # {} -> "false"
    [] OTHER -> reg[d]

reconcile_registry(w) ==
  /\ sweep[w].pc = "reconcile"
  /\ sweep' = [sweep EXCEPT ![w].pc = "attrs", ![w].rows = IdleSweep.rows]
  /\ \/ /\ UNCHANGED bounds
        /\ IF \E d \in sweep[w].data : sweep[w].rows[d] = "absent" /\ reg[d] # "absent"
           THEN UNCHANGED reg
           ELSE reg' = [d \in Known |-> Reconciled(w, d)]
     \/ Fault /\ UNCHANGED reg
  /\ UNCHANGED <<hub, row, used, link, run, check, health>>

(* Step 3.  A URN that is new here enters unregistered.                     *)
upsert_dataset_attributes(read) ==
  reg' = [d \in Known |-> IF d \in read /\ reg[d] = "absent" THEN "false" ELSE reg[d]]

(* The scroll may stop early, skips what it cannot read, and returns URNs    *)
(* that the enumeration leaves out.                                        *)
get_dataset_attributes == SUBSET (hub.data \cup Ghosts)

_sync_dataset_attributes(w) ==
  /\ sweep[w].pc = "attrs"
  /\ Goto(w, "pipeline")
  /\ \E read \in get_dataset_attributes : upsert_dataset_attributes(read)
  /\ UNCHANGED <<hub, row, used, link, run, check, health, bounds>>

(* Step 4.  The sources that a pipelineName stands for, by the snapshot.    *)
PipelineSources(w, name) ==
  LET snap == sweep[w].snap
      Urn(i) == IF i # NoId /\ snap[i] # NoRow /\ snap[i].mode = "DATAHUB_MANAGED" /\ snap[i].parent = NoId
                THEN snap[i].urn ELSE NoUrn IN
  {i \in Ids :
     /\ snap[i] # NoRow /\ name # NoUrn
     /\ \/ snap[i].mode = "DATAHUB_MANAGED" /\ snap[i].parent = NoId /\ name = snap[i].urn
        \/ snap[i].mode = "DATAHUB_MANAGED" /\ snap[i].parent # NoId /\ name = Urn(snap[i].parent)
        \/ snap[i].mode = "ACTIVE_CUSTOM_MANAGED" /\ name = i}

Stamped(w, i) == {d \in sweep[w].data : i \in PipelineSources(w, hub.stamp[d])}

pipeline_links(w) ==
  /\ sweep[w].pc = "pipeline"
  /\ UNCHANGED bounds
  /\ IF \E i \in Ids \ Live : Stamped(w, i) # {} THEN Escape(w) ELSE
     /\ link' = [i \in Ids |-> [d \in Datasets |->
                   IF d \in Stamped(w, i) /\ link[i][d] # "emitted" THEN "pipeline_name" ELSE link[i][d]]]
     /\ sweep' = [sweep EXCEPT ![w] = IdleSweep]
     /\ health' = "ok"
     /\ UNCHANGED <<hub, row, used, reg, run, check>>

----------------------------------------------------------------------------
(* The run of an extractor: the crawl writes to DataHub under the id of the *)
(* source; the links follow in a transaction of their own, once all went    *)
(* well.  A source deleted meanwhile makes that transaction fail.          *)

run_start(r, i) ==
  /\ run[r].pc = "idle"
  /\ i \in Live /\ row[i].mode = "ACTIVE_CUSTOM_MANAGED"
  /\ Change
  /\ run' = [run EXCEPT ![r] = [pc |-> "crawl", id |-> i, emitted |-> {}]]
  /\ UNCHANGED <<hub, tables, sweep, check, health>>

run_extractor(r) ==
  /\ run[r].pc = "crawl"
  /\ \E out \in SUBSET Datasets \ {{}} :
       /\ hub' = [hub EXCEPT !.data = @ \cup out,
                             !.stamp = [d \in Datasets |-> IF d \in out THEN run[r].id ELSE @[d]]]
       /\ \/ UNCHANGED bounds /\ run' = [run EXCEPT ![r].pc = "record", ![r].emitted = out]
          \/ Fault /\ run' = [run EXCEPT ![r] = IdleRun]
  /\ UNCHANGED <<tables, sweep, check, health>>

(* Fault for checking: a derivation that the readers do not know.           *)
_upsert_dataset_mappings_custom(r) ==
  /\ run[r].pc = "record"
  /\ link' = IF run[r].id \in Live
             THEN [link EXCEPT ![run[r].id] = [d \in Datasets |-> IF d \in run[r].emitted THEN "custom" ELSE @[d]]]
             ELSE link
  /\ run' = [run EXCEPT ![r] = IdleRun]
  /\ UNCHANGED <<hub, row, used, reg, sweep, check, health, bounds>>

_upsert_dataset_mappings(r) ==
  LET i == run[r].id IN
  /\ run[r].pc = "record"
  /\ link' = IF i \in Live
             THEN [link EXCEPT ![i] = [d \in Datasets |-> IF d \in run[r].emitted /\ @[d] = "none"
                                                        THEN "emitted" ELSE @[d]]]
             ELSE link
  /\ run' = [run EXCEPT ![r] = IdleRun]
  /\ UNCHANGED <<hub, row, used, reg, sweep, check, health, bounds>>

----------------------------------------------------------------------------
(* ensure_dataset_registered for a dataset without a row: DataHub is asked, *)
(* then the row is inserted; an insert that meets a row is rolled back, and *)
(* a refusal leaves nothing.                                               *)

ensure_dataset_registered(c, d) ==
  /\ check[c].pc = "idle"
  /\ reg[d] = "absent"
  /\ Change
  /\ check' = [check EXCEPT ![c] = [pc |-> "insert", urn |-> d, data |-> hub.data]]
  /\ UNCHANGED <<hub, tables, sweep, run, health>>

insert_registered(c) ==
  /\ check[c].pc = "insert"
  /\ reg' = IF reg[check[c].urn] = "absent" /\ check[c].urn \in check[c].data
            THEN [reg EXCEPT ![check[c].urn] = "true"] ELSE reg
  /\ check' = [check EXCEPT ![c] = IdleCheck]
  /\ UNCHANGED <<hub, row, used, link, sweep, run, health, bounds>>

(* sync_with_datahub, over all rows: flips, no inserts, and no guard on an  *)
(* empty enumeration.                                                      *)
sync_with_datahub(c) ==
  /\ check[c].pc = "idle"
  /\ changes < MaxChanges /\ changes' = changes + 1
  /\ \E data \in enumerate_datasets :
       /\ faults' = IF data = hub.data THEN faults ELSE faults + 1
       /\ check' = [check EXCEPT ![c] = [pc |-> "flip", urn |-> NoUrn, data |-> data]]
  /\ UNCHANGED <<hub, tables, sweep, run, health>>

mark_all(c) ==
  /\ check[c].pc = "flip"
  /\ reg' = [d \in Known |-> IF reg[d] = "absent" THEN "absent"
                             ELSE IF d \in check[c].data THEN "true" ELSE "false"]
  /\ check' = [check EXCEPT ![c] = IdleCheck]
  /\ UNCHANGED <<hub, row, used, link, sweep, run, health, bounds>>

----------------------------------------------------------------------------
HubStep ==
  \/ \E u \in Urns : hub_source_gone(u) \/ \E r \in Recipes : hub_source(u, r)
  \/ \E d \in Datasets : hub_dataset_gone(d) \/ \E u \in Regular \cup {NoUrn} : hub_ingest(d, u)

SourceRequest ==
  \/ \E m \in Modes, r \in Recipes : create_source(m, r) \/ \E i \in Ids : replace_source(i, m, r)
  \/ \E i \in Ids : delete_source(i) \/ \E r \in Recipes : patch_source(i, r)

SweepStep(w) ==
  \/ sync_start(w) \/ pass_a(w) \/ pass_b(w) \/ remove_stale(w) \/ existing_matcher_rows(w)
  \/ map_datasets(w) \/ reconcile_registry(w) \/ _sync_dataset_attributes(w) \/ pipeline_links(w)

RunStep(r) == run_extractor(r) \/ _upsert_dataset_mappings(r)
CheckStep(c) == insert_registered(c) \/ mark_all(c)

Next ==
  \/ HubStep \/ SourceRequest
  \/ \E w \in Sweeps : SweepStep(w) \/ sync_fails(w)
  \/ \E r \in Runs : RunStep(r) \/ \E i \in Ids : run_start(r, i)
  \/ \E c \in Checks : CheckStep(c) \/ sync_with_datahub(c) \/ \E d \in Datasets : ensure_dataset_registered(c, d)

(* The DAG starts a sweep every two hours, and a request that was begun goes on. *)
Fairness ==
  /\ \A w \in Sweeps : WF_vars(SweepStep(w))
  /\ \A r \in Runs : WF_vars(RunStep(r))
  /\ \A c \in Checks : WF_vars(CheckStep(c))

Spec == Init /\ [][Next]_vars
FairSpec == Spec /\ Fairness

----------------------------------------------------------------------------
(* Types of the tables, of the sessions under way and of DataHub.          *)
IngestionTypeOK ==
  /\ hub \in Hub
  /\ row \in [Ids -> Row \cup {NoRow}]
  /\ used \subseteq Ids
  /\ link \in [Ids -> [Datasets -> Links]]
  /\ reg \in [Known -> Flags]
  /\ sweep \in [Sweeps -> [pc : {"idle", "pass_a", "pass_b", "remove", "map", "prune", "reconcile", "attrs", "pipeline"},
                            list : [Urns -> Recipes \cup {NotListed}], found : [Urns -> Ids \cup {NoId}],
                            data : SUBSET Datasets, snap : [Ids -> Row \cup {NoRow}],
                            old : [Ids -> SUBSET Datasets], rows : [Known -> Flags]]]
  /\ run \in [Runs -> [pc : {"idle", "crawl", "record"}, id : Ids \cup {NoId}, emitted : SUBSET Datasets]]
  /\ check \in [Checks -> [pc : {"idle", "insert", "flip"}, urn : Datasets \cup {NoUrn}, data : SUBSET Datasets]]
  /\ health \in {"unknown", "ok", "error"}
  /\ changes \in 0 .. MaxChanges /\ faults \in 0 .. MaxFaults

(* The source that answers for a dataset is never a CLI wrapper: whatever   *)
(* sweeps, deletions and cascades have left in the tables, the wrapper with *)
(* the best link resolves to a stored regular source (reverse_lookup,       *)
(* parent_source_id ON DELETE CASCADE).                                     *)
OwnersAreRegular == \A d \in Datasets : \A i \in reverse_lookup(d) : row[i].parent = NoId

(* No derivation is replaced by a weaker one, in whatever order sweep and   *)
(* run write it (map_datasets, pipeline_links, _upsert_dataset_mappings).   *)
(* A link is lost only with its source, or to a sweep that read it as       *)
(* `matched`, evaluated the patterns over its snapshot and no longer         *)
(* matched it; and it is still `matched` when it is lost, unless another     *)
(* sweep overlaps: the row is deleted by its key.                           *)
Strength(x) == CASE x = "none" -> 0 [] x = "matched" -> 1 [] x = "pipeline_name" -> 2 [] x = "emitted" -> 3

LinksOnlyStrengthen ==
  [][\A i \in Ids, d \in Datasets :
       \/ Strength(link'[i][d]) >= Strength(link[i][d])
       \/ row'[i] = NoRow
       \/ /\ link'[i][d] = "none"
          /\ \E w \in Sweeps : /\ sweep[w].pc = "prune" /\ d \in sweep[w].old[i] \ Matched(w, i)
                               /\ sweep[w].snap[i] # NoRow /\ Evaluated(sweep[w].snap[i].recipe)
                               /\ link[i][d] = "matched" \/ Sweeps # {w}]_vars

(* What the comment at the prune says: "this loop can only delete            *)
(* matched-derivation rows".  It does not hold of two sweeps that overlap:   *)
(* one of them deletes what the other has upgraded since it was read.        *)
OnlyMatchedPruned ==
  [][\A i \in Ids, d \in Datasets :
       link'[i][d] = "none" /\ row'[i] # NoRow => link[i][d] \in {"none", "matched"}]_vars

(* A sweep deregisters only what its enumeration leaves out, and never       *)
(* empties the registry by itself, however little DataHub answers: one       *)
(* dataset at least stays registered, unless another session wrote the       *)
(* registry since the sweep read it (reconcile_registry: an empty answer     *)
(* "must not mass-deregister a non-empty registry").  An incomplete answer   *)
(* does deregister datasets that DataHub has; MirrorConverges brings them    *)
(* back.                                                                    *)
Registered == {d \in Known : reg[d] = "true"}

RegistryNotEmptied ==
  [][\A w \in Sweeps : sweep[w].pc = "reconcile" /\ sweep'[w].pc = "attrs" =>
       /\ (Registered \ Registered') \cap sweep[w].data = {}
       /\ sweep[w].rows = reg /\ Registered # {} => Registered' # {}]_vars

(* DataHub as the tables should show it: a row for each regular source and  *)
(* each wrapper with a stored parent, no other managed row, the registered  *)
(* datasets are those that DataHub has, where it has any, and the health    *)
(* row says so.                                                             *)
Mirrored ==
  /\ {row[i].urn : i \in {j \in Ids : Managed(j)}} \ {NoUrn}
       = {u \in hub.srcs : u \in Regular \/ ParentUrn[u] \in hub.srcs}
  /\ \A i \in Ids : Managed(i) /\ row[i].urn # NoUrn => row[i].recipe = hub.recipe[row[i].urn]
  /\ health = "ok"
  /\ hub.data # {} => Registered = hub.data

(* Once DataHub stands still and calls stop failing, the sweeps make the     *)
(* tables mirror it and keep them so, whatever failed sweeps, late registry *)
(* inserts, admin syncs and stale snapshots left behind (sync; the comment   *)
(* at reconcile_registry: "self-corrects on the next sweep").               *)
MirrorConverges == <>[]Mirrored

(* For the overlap of two sweeps: one row for each source of DataHub         *)
(* (_upsert_managed_row is "matched on datahub_source_urn").  It does not    *)
(* hold: two sweeps both find no row, and no constraint stops the second.     *)
OneRowPerManagedSource == \A u \in Urns : Cardinality(RowsOf(u)) <= 1

============================================================================

# DataSpoke: a TLA+ model of its core

DataSpoke is a sidecar to DataHub: a FastAPI service (`src/src/api`, `src/src/backend`) over
PostgreSQL, Redis and the DataHub API, with Airflow DAGs (`src/src/workflows`) that call its
internal activities on a schedule. Everything that is hard about it comes from requests and
runs that share tables, a cache and an external system without sharing a transaction. This
directory models those parts, checks them with TLC and proves the main results with TLAPS.

## Inventory

| Component | State | Operations | What is hard | What makes it correct |
|---|---|---|---|---|
| Credential store (`backend/auth/users.py`, `api_tokens.py`, `reset.py`, `privilege.py`, `oauth_google.py`; `api/routers/auth.py`, `admin.py`) | `users`, `api_tokens`, `password_reset_tokens` | register, login, change password, mint, revoke, reset request / confirm, Google login / bind / unbind, delete | requests read, wait for a row lock and only then write; a Google bind hands a row to someone else while requests of the earlier holder are in flight | after a bind the earlier holder has no way back; a released binding ends its sessions; no row without a way to sign in; caps hold; links work once; no lock cycle |
| Session tokens (`backend/auth/tokens.py`) | JWTs outside, a revocation set in Redis | issue, refresh, revoke | check-then-mark rotation, a ttl that rounds to zero | a token is used once; the epoch gate |
| Run lock (`shared/cache/client.py`) | one Redis key per source, conf, metric; one for the ontology | `set_nx`, `delete_if_value` | ttl passes under a running holder, lost replies, crashed holders | two runs only if one has outlived its ttl |
| Metadata generation (`backend/metagen`) | confs, boundaries, items, candidates; editable aspects in DataHub | conf and boundary changes, run, review | runs and reviews interleave statement by statement; DataHub is written after the commit | one approved candidate per item; DataHub shows it; orphans survive; no approved row is deleted |
| Ontology generation (`backend/ontogen`) | nodes, edges, triples, dataset memberships, the node index | conf, run, review with a gate for triples | verdicts while a run is in flight, a gate that is checked before the commit, rows reused by name or through an index | an approved triple has parts that a human has approved; runs take no verdict back; only accepted debates give vetted rows |
| Debate (`metagen/debate.py`, `ontogen/debate.py`, the validators, `shared/llm/client.py`) | turns and transcript of one run | tool iterations, producer and reviewer turns, partition, storing | two nested loops over answers that may be missing, malformed, invalid or repeated | ends; alternates; discusses no offer twice; only agreed rows count as approved |
| Ingestion (`backend/ingestion`) | sources, links to datasets, events | source changes, extractor run, sync sweep, reverse lookup | the sweep is a row of transactions over snapshots, with failing calls and edits in between | the tables come to mirror DataHub; strong links survive; owners are regular sources |
| Dataset registry (`shared/db/registry.py`) | `dataset_registry` | reconcile, attribute upsert, on-demand insert, admin sync | late inserts, an enumeration that leaves datasets out, placeholders | the registry is not emptied for want of an answer; in the end it is DataHub's estate |
| Ingestion evidence (`ingestion/service.py`, the observation passes) | `events` | mirror executions, observe Operations and lastIngested, record runs | writer-supplied instants, dry runs, sweeps that look and insert at once | evidence is what was reported, and booked once unless two sweeps met |
| Metrics (`backend/metrics`) | definitions, results, verdict rows | definition changes, scheduled, requested, dry run | lapsed locks, overlapping stores, scope and type changes | verdicts are earned, of one run, and converge |
| Validation (`backend/validation`) | confs, results; assertions in DataHub | conf changes, posted results | DataHub follows the commit, and a failed call is not retried | an assertion for each conf, again after a failure |
| Dataset filter (`shared/dataset_filter.py`) | none | parse, format, compile to SQL | nesting cap, mixing of operators, NULL under negation | the parser accepts the grammar; the canonical form is the same filter; the SQL means what it says |
| Peripherals (`backend/admin`) and Kafka consumer (`shared/datahub/consumer.py`, `events.py`) | settings row, password Secret, health row, offsets | PATCH, rotation, reconnect, poll, dispatch, commit, report | two stores without a transaction, at-least-once delivery, sticky faults | the consumer comes to use what is stored; no event behind the first commit is passed over; ok is earned |
| Role projection, tier fan-out, rate limiting, workflows, routing, clients, UI | | | | not modelled, see the end |

How they interact: runs of ingestion, metagen, ontogen and metrics share the run lock; metagen and
ontogen run debates; the sweep fills the registry and the evidence that metrics measure; filters
choose the scope of metagen, ontogen and metric runs from the registry; validation results are
another input of metrics; the consumer feeds metadata events to the same process.

## Modules

* `Credentials` models the credential store. A request is one transaction at READ COMMITTED:
  an unlocked read that authorises it (`AuthenticateJwt`, `issue_reset_token_read`, ...), the
  `users` row lock and the re-validation under it (`lock_user`, `Revalidates`,
  `LockAndGoOn` / `LockAndGiveUp` / `LockAndLogin`), then its write and commit (`patch_me`,
  `mint`, `confirm_reset`, `bind_google_identity` and its commit, ...). Rows that a statement has
  written and not committed are locked (`pats`, `resets` of a request) and others wait for them.
  Passwords, tokens and JWTs remember the *tenure* in which they were produced: the number of
  binds the row has seen. No action reads it; the properties do. A refresh re-issues a JWT
  with the claims of the old one, so it adds no state and has no action.
* `RunLock` models the Redis lock that ingestion, ontogen, metagen and metrics share.
* `Metagen` extends `RunLock`: its confs are the keys and its runs the workers. It models the
  tables, the runs (load, lock, clear, debate outcome, count, choose, evict, insert) and the reviews
  (read, sibling, demotion, verdict, then `get_aspect` and `emit_aspect` outside the
  transaction). A candidate stands for its text; the debate is an arbitrary subset of the items
  it is given. Two variables are auxiliary. `unsynced`: the items two reviews of whose aspect
  overlapped, or whose DataHub write failed or was cut off. `evicted`: the candidates that a run deleted although a review
  had approved them since they were chosen; DataHub goes on showing such a candidate, and `DataHubFollowsReview` says that this is the
  only way in which it shows something that is not approved.
* `Ontogen` extends `RunLock`, with the one key of the ontology. A run loads the rows it may reuse, has
  the outcome of its debate, resolves the LLM's proposals one by one (`propose_match` by name,
  `propose_similar` through the index, `propose_new` with a fresh id, `propose_triple`), commits nodes, edges and
  triples in three transactions and refreshes the index. Between any two of these a review may read,
  pass the gate or commit. The LLM is free: any terms, any confidence, any triples. Nodes and edges
  share the function `part`, since their rows go through the same steps. `endorsed` is auxiliary: the parts a
  human has approved at some time. The memberships that one transaction writes are written together.
* `Validators` holds the validators of both services and `partition_clean_rows` as operators over
  payloads; `Debate` is the debate of either service: the tool loop of `complete_with_tools`
  (`no_proposal`, `invalid_proposal`, `valid_proposal`), `producer_turn`, `reviewer_turn`, and
  what the run stores of the last offer. A payload stands for its canonical hash. `Negotiation` is
  the abstract protocol: two parties alternate, no offer is discussed twice, an agreement is the answer
  to the last offer, and there is a result after `limit` moves. `Debate` is checked to implement it
  (`Negotiates`): the tool loop is a stutter, the transcript maps to the offers tabled.
* `Ingestion` models DataHub's sources and datasets (`hub`), the source rows, their links, the registry,
  the sweep (`sync_start`, `pass_a` and `pass_b` for managed rows and CLI wrappers, `remove_stale`, `map_datasets`,
  `reconcile_registry`, `_sync_dataset_attributes`, `pipeline_links`), extractor runs and on-demand
  registry checks. An action is one transaction, one read of DataHub, or one half of a transaction whose rows are read in the first half and
  written by key in the second (`existing_matcher_rows`, `map_datasets`); a sweep carries what it read (`list`,
  `data`, `snap`, `old`, `rows`) to the actions that use it. `enumerate_datasets` answers with the estate or, at the cost of a fault, with
  any part of it. Recipes are abstracted to whether their
  patterns can be evaluated and what they match.
* `Evidence` models the `events` that count as evidence of ingestion, what DataHub's writers report (an instant,
  none, or one in the future) and the readers that metrics use. An observation is two steps: a sweep (`Passes`) reads DataHub and
  the rows that are booked (`Collect`), and later inserts what was missing (`insert_observations`) or fails. `facts` is auxiliary: what really
  took place; so are `twice` and `crossed`, the sources and signals on which a row was doubled, and which two sweeps observed at once. `Metrics` extends it and `RunLock`: definitions, runs (`run`, `_run_inner`, `store`,
  `_replace_dataset_verdicts`), the three measurers, and the validation confs, results and assertions
  that one of them reads. A filter is here the set of datasets it selects. Scheduled runs are of the enabled metrics of a tier
  (`list_active_for_tier`); a metric without a tier runs on demand only. `overlap` and `muddled` are auxiliary: metrics that two runs
  stored at once; datasets whose validation requests overlapped or whose DataHub call failed, until a change of the conf goes through alone.
* `DatasetFilter` has the syntax tree, its compilation in SQL's three-valued logic and the selection it
  should make; `FilterParser` the parser, the canonical form and the grammar as it is written down, and a text that is edited token by token
  (`TextSpec`). The parser is the recursive descent of `_parse_expr` and `_parse_term`: what is parsed from each position on, and where it ends.
  Its loop over operators is a recursive function of the round (`Rounds`), and its recursion is written out level by
  level, since parentheses nest two deep at most. The grammar says which spans of a text are a predicate, a term or an expression, the
  latter if it can be cut at one kind of operator into terms; it knows nothing of the order in which the parser reads.
* `Peripherals` models the settings row, the Secret, PATCH requests (validation, Secret, row, each a
  step, with the insert race and the unlocked path of a patch without a password) and the consumer
  (build, poll, dispatch, commit, the periodic check and report).
* `MC...` modules give the constants their values for TLC, `...Proofs` modules hold the theorems.

An operator whose name is another operator's name with an underscore and a word that is not in
the code (`lock_user_noWait`) is a faulty version of it: it is used by no action, and shows that
the property it is listed with in `PROJECT.json` notices the fault.

## Runs

| Run | Instance | Shows |
|---|---|---|
| `credentials_reset` | 1 row, 2 identities, 2 tokens, 1 link, 2 requests, cap 1, epoch to 3 | the reset on link, sessions of a binding, auth methods, token cap, single use, lock order |
| `credentials_accounts` | 2 rows, 1 identity, 1 token, 1 link, 2 requests: mint, reset request and confirm, Google login, admin revoke, deletion | deletions are complete; every request ends |
| `credentials_rename` | 1 row with display names that change | **violated**: a login that renames keeps a session past the release of its binding |
| `metagen_runs` | 2 runs of one conf, 1 reviewer, 1 item, 2 candidates, limit 1 with eviction, dry runs | the lock, orphans |
| `metagen_reviews` | 2 reviewers, 2 columns of one dataset, 2 candidates, 1 run at a time with limit 1 and eviction | one approved candidate; DataHub shows it, races of a run with a review included |
| `ontogen_reviews` | 1 run at a time, 2 reviewers, 1 node name, 1 edge label, 1 triple, 5 runs and reviews in all | the gate, verdicts against runs, vetted rows |
| `ingestion_sweep` | a managed source and its wrapper, a custom source, 2 datasets, a placeholder, 1 sweep, 1 run, 1 check, 2 changes, 1 fault | owners, links, deregistration, convergence of the mirror |
| `metrics_runs` | 4 sources in 3 modes, 1 dataset, 1 metric with or without a tier, 2 runs, 1 sweep, 1 validation client, 2 instants, 2 changes | instants of events are reported ones, no row is booked twice by one sweep after another, earned freshness, one run per display, assertions, convergence of verdicts |
| `filter_texts` | 2 literals, a predicate of each kind, three levels, 1 edit: half a million texts | parser against grammar, the canonical form parsed back, SQL against description |
| `debate_loop` | 6 ontogen and 5 metagen payloads that break each rule, 2 iterations, limits 2 to 6 | refinement of `Negotiation`, stored rows, termination |
| `peripherals_consumer` | 2 requests of 4 bodies, fresh or configured, 2 events, 2 faults | offsets, health, convergence to the stored connection |
| `peripherals_rotation` | 2 requests | **violated**: a patch writes an old version counter back over a rotation |

Bounds. In `Credentials`, two requests are enough for every pairwise race, and locks make a third wait; two
identities on one row give bind, release and bind again (epoch 3); one token at the cap and one to
exceed it. In `Metagen`, two candidates are an approved one and its rival, or a victim and its successor.
`MaxEpoch`, the numbers of tokens, links and candidates, and the one conf are the bounds; they
appear in the guards `EpochBudget`, `RoomFor` and `RoomForCandidate`. In `Ontogen`, `MaxStarted` bounds the runs and reviews ever begun:
five are a run, the approval of a node, of an edge and of their triple, and one more review or run to race them.
`MaxProposals` and `MaxTriples` bound one LLM output, `MaxSuffix` the suffix of an id; `Dry` and `Switches` are
the flags a run and the conf may be given. The items of one output resolve to
different rows: two that reuse one row would only write its memberships twice.
In `Ingestion` and `Metrics`, `MaxChanges` bounds what the environment does (a source edited, a dataset gone, a request made) and
`MaxFaults` the calls that fail; sweeps and scheduled runs are not bounded. Two changes are a cause and a
rival: a dataset that goes while its insert is under way, a conf replaced while a run measures, a lapsed run and
its successor. `MaxTime` is one instant more than the window, so that evidence can grow stale.
`Passes` are the sweeps that may observe at once: one in `metrics_runs`, where the reports change between its two steps and from one sweep to the next;
for any number of them, `BookedTwiceOnlyCrossed` is proved, and two are the instance of `Evidence_passes.cfg`;
`OpLimit` is the page of one read of Operations, `Ahead` how far a requested instant may lie ahead of the clock, and `Tiers` the one tier beside
none. In `Debate` six turns are three offers, so that an offer can repeat the one before the last. In `Peripherals`, two requests are a rotation and what races it, two
events one committed and one in flight. Identities, tokens, requests, runs and reviewers of the first three are symmetric.

`CHECK_DEADLOCK FALSE` is set where the program may stop: once every user is deleted, every
bounded key is used up with nothing left in flight, a debate is over, a text is edited, or all changes are made and the tables have converged.

Fairness. `credentials_accounts`: a request that has begun is carried on by the server, and
PostgreSQL grants a row lock to its waiters in order of arrival: strong fairness of a request's
steps. PostgreSQL's deadlock detector rolls a transaction of a wait cycle back: weak fairness of
`AbortVictim`. Deletion does create such cycles (children before the row), which is why it is part
of this run and not of `NoLockCycle`. `ingestion_sweep`: the DAG starts a sweep every two hours (`datahub_sync_hourly`, `0 */2 * * *`) and requests under way go on. `metrics_runs`:
the clock and the observation pass come round, and so does the DAG of each tier, which starts the enabled metrics of that tier and no others; runs and requests go on, and a key of a dead run expires. `debate_loop`: every call to a model returns
or raises. `peripherals_consumer`: requests go on, the consumer's loop does, a consumer that died is restarted, and its periodic check comes. No
fairness is assumed of changes, faults, reviewers or writers.

## Findings

1. **A renaming login outlives its binding** (`credentials_rename`). `update_name` refreshes the whole
   row, so a callback authorised before an unbind issues its refresh token under the new epoch,
   although `delete_user_google_binding` says that sessions of the released binding do not survive.
2. **A patch hides a rotation** (`peripherals_rotation`). A PATCH without a password reads the row without a lock and
   writes all its settings back; a rotation in between loses its version counter, and the consumer keeps the old password.

Statements of the docs that the code does not keep, defined in the modules and not checked by a run of their own:

* `Metagen!ApprovedKept` (`BACKEND_SCHEMA.md:795`: "baseline metagen never deletes `approved` candidate rows"). The victim of the per-item budget is
  chosen by an unlocked SELECT and deleted by primary key; a review may approve it in between. DataHub goes on showing its text.
* `Evidence!OneEventPerRequest` (docstring of `_mirror_execution_requests`). The lookup of an execution request and its insert are two statements with
  nothing behind them, and a requested sync may run beside the periodic one: two sweeps book one execution twice. The newest instant is the same, so
  no metric is misled.
* `Ingestion!OnlyMatchedPruned` (comment at the prune of `map_datasets`). A row read as `matched` is deleted by its key; another sweep may have
  upgraded it to `pipeline_name` since. A later sweep writes it again.
* `Metrics!NeverOfDifferentRuns` (comment in `_run_inner`). When a run has outlived its lock and stores at once with the next one, each
  DELETE sees only what was committed before it, so that rows of both may stand beside the result of one. The next run replaces them all.
* `Credentials!OneRevokeEvent`: two admin revokes of one token each write the event, since `revoke` decides from an unlocked read.
* `Ontogen!ReusePool`: the node index keeps the status a node was inserted with, so that a rejected node is reused.
* `Ontogen!MembershipsStand`: `_upsert_dataset_node_maps` writes the status that follows from the LLM's confidence over approved memberships.
* `Debate!RowsValid`: on exhaustion, rows that fail a rule are stored all the same, because `partition_clean_rows` is given no errors.
* `Metrics!BacklogMeasuresItsInterval`: a backlogged run counts an ingestion after the interval it is for.
* `Ingestion!OneRowPerManagedSource`: two sweeps at once may both insert a source of DataHub.

The first four take two actors that meet, and TLC finds each in a small instance kept beside those of the runs: `Metagen_evict.cfg`,
`Evidence_mirror.cfg` (module `MCEvidence`), `Ingestion_overlap.cfg` and `Metrics_overlap.cfg`. `Evidence_passes.cfg`, with two sweeps that observe at
once, satisfies `BookedOnceApart`.

## Proofs

All theorems hold for every value of the constants that satisfies the modules' assumptions, so for any number of
users, runs, reviewers, sweeps, sources and datasets, all limits and all payloads. The assumptions are: null values are not members and
limits are natural numbers; an LLM payload is one its schema class accepts, or malformed (`DebateAssumption`); a PATCH body and the
stored settings have the fields and types of their schemas (`PeripheralsAssumption`); a source with a parent, which is a CLI
wrapper, is `DATAHUB_MANAGED` and its parent is no wrapper (`EvidenceAssumption`: `_upsert_managed_row` is the only
code that sets a parent, and sets the mode with it); NULL is none of the values of a column
(`FilterAssumption`); the predicates and tokens from which texts are made are predicates and tokens (`TextAssumption`). Hardly any of the
properties is inductive, since a step writes what an earlier step has checked; the inductive invariant of each module
says what stays true in between, and TLC checked it on the instances of the runs before it was proved.

* `CredentialsProofs`. `RowInv` adds what a request in flight may rely on: the holder of a row lock is the
  request that is past its lock step, its row is live, what it re-validated still holds because
  nobody else can write the row, and the child rows it has swept are its own user's. From it:
  `TypeCorrect`, `AuthMethodStays`, `DeletionComplete`, `ResetLinksAreSingleUse`,
  `EpochMovesOnlyWithBinding` and, without user deletion, `LockOrder`.
  `CapInv` adds that a mint that has counted still has room, since only a mint under the same row lock brings a token of that
  user to life: `MintRespectsCap`.
  `TenureInv` relates tenures to epochs: a JWT whose epoch is
  the row's was issued in the row's tenure, a request that has re-validated acts in it, and a sweep
  under the row lock has seen every token there is. From it `ResetOnLink` and `SessionsEndWithBinding`, under the
  assumption that no login renames its row; `credentials_rename` shows that the assumption is needed.
* `RunLockProofs`. `LockInv`: a run inside its ttl has its key, and a key names a run that works under it. From
  it `LockExclusive`.
* `MetagenProofs`. Every step of `Metagen` is a step of `RunLock` or leaves it alone (`LockSteps`), so `LockInv`
  carries over: `RunsExclusive`, and `MetagenImplementsLock` states the refinement. `MetagenInv` adds that runs and reviews name candidates that exist or have
  existed, that a review's sibling is not its candidate, and that a victim belongs to the run's conf unless
  the conf is deleted. From it `MetagenTypeCorrect`, `ApprovedIsUnique` and `OrphansAreKept`.
  `DataHubInv` follows a review through its statements: it is alone on its item (`Alone`), what it read is still so and
  what it committed stands (`ReviewsSound`), the aspect it read is still the one DataHub holds (`AspectRead`), and only between
  its commit and its write is it ahead of DataHub (`AspectsShown`). Runs clear only what is rejected; what they evict may have been approved since it was chosen,
  and then DataHub shows a candidate of `evicted`. From it
  `DataHubIsFollowed`, for reviews of several columns of one aspect too.
* `OntogenProofs`. `LockSteps` carries `LockInv` over again: `OntogenRunsExclusive`, `OntogenImplementsLock`. The gate and the commit of a triple
  are different steps, and so are the choice of a status and the transaction that inserts it. `OntogenInv` states what
  survives in between: a review has `seen` only parts that are endorsed (`ReviewOK`), an approved part is endorsed
  (`EndorsedOK`), and a proposal in flight has a status of the LLM's, `llm_approved` only if the debate was accepted
  (`RunOK`). From it `OntogenTypeCorrect` and `PartsOfTriplesEndorsed`; `EveryTablesStep`, which says what one step may
  do to a status, then gives `HumanVerdictsStand` and `VettedOnly`.
* `DebateProofs`. `PartitionLeavesNoError` is about the operators alone: of any ontogen output, of any length, what
  `partition_clean_rows` leaves has no error. The rows left are numbered by their rank, and `RankBijective` shows that ranks
  neither lose nor repeat a row; a duplicate or a dangling reference among them would be one among the rows they come from.
  `PartitionCorrect` applies it to the debate; it is proved and part of no run, since the one caller of `partition_clean_rows` gives it no errors. `TurnInv` says
  what the last entries of the history are in each phase, and that an accepted debate ends with the Reviewer's `accept` of the payload at hand. From it
  `DebateTypeCorrect`, `StoredIsAgreed` and, step by step, the refinement `DebateNegotiates`: a `producer_turn` tables an offer or repeats
  one, a `reviewer_turn` answers it, everything else is a stutter. The refinement is of the safety part, which is all `Negotiation!Spec` has.
  `DebateKeepsPromise` counts what it comes to: within `max_turns` there were as many different offers as offers made, but for a repeated one that ends the debate.
* `MetricsProofs`. `EvidenceInv`: what DataHub reports did take place, an event is backed by a report, and so is what a sweep is about to insert
  (`PendingSound`): `EvidenceReported`. What it is about to insert was not booked unless another sweep has crossed it (`PendingNew`, `PendingApart`):
  `BookedTwiceOnlyCrossed`, for any number of sweeps. The newest evidence is well defined, as a bounded set of instants has a greatest member (`Greatest`).
  `RunInv` carries what a run has measured to what it stores: `EarnedNow` stays true because facts are never taken back, and `StoringAlone`
  says that a run which is alone in its transaction sees every verdict row there is: `FreshnessIsEarned`, `ResultsAreOfOneRun`. `ValidationInv`
  says how far DataHub is behind in each step of a request: `AssertionsFollowConfs`. `LockInv` gives `MetricRunsExclusive` and `MetricsImplementLock`, all parts `MetricsTypeCorrect`, which is proved and is part of no run.
* `IngestionProofs`. `IngestionInv`: ids are never given out twice (`LiveUsed`), a parent is a stored regular row (`ParentsRegular`), a row a sweep has
  found under a URN has that URN as long as it is there (`FoundStands`), links belong to live rows (`LinksLive`), and what a sweep has read as
  `matched` is `matched` still unless another sweep overlaps (`ReadMatched`). Deletion cascades to wrappers (`DeleteKeeps`), and the upsert of a sweep gives different URNs
  different rows although its lookups are older than its inserts (`UpsertIds`). From it `IngestionTypeCorrect`, `OwnersStayRegular`, and the action properties
  `LinksStrengthen` and `RegistryStays`. The run has one sweep at a time; the theorems hold for any number at once. What `LinksStrengthen` says of
  overlapping sweeps is less than of one: a link that was upgraded after it was read can be lost (`OnlyMatchedPruned`, under Findings).
* `SettingsProofs`, the consumer. `ConsumerInv`: behind the client's position everything was handled, an event that is about to be committed was
  dispatched (`HandledInv`), and a connected client without a latched fault has been seen working (`EvidenceInv`). From it
  `CommitsFollowHandling` and `OkIsEarned`.
* `SettingsProofs`, the filter. These theorems are about every sequence of tokens, of any length, and not only about those of the run.
  `EveryFilterIsDefinite`: for every syntax tree the SQL is true of exactly the rows the description selects; three-valued AND and OR of definite
  children are definite, level by level.
  `EveryTextIsParsed`: a text is accepted if and only if the grammar derives it. What is proved level by level is that terms are exact (from `i` a term is parsed
  and ends before `j` if and only if the span is one) and that expressions are exact where no operator follows. Within a level the loop
  is followed round by round: what it has read is a span cut at the operators it has seen (`LoopIsSound`), and a span that can be cut is read to its
  end, as no other cut can begin or end differently (`LoopIsComplete`).
  `EveryFormIsRead`: the canonical form of every filter that is parsed from some text is accepted to its last token and parsed to the same filter.
  A formatted operand is read where it stands in a longer text (`At`, `Reads`), the operands of a node are linked by
  its operator (`ChainLinked`), and the loop follows the links (`LinkedLoop`); again level by level (`LevelReads`, `FormsRead`).
  `ParserIsTheGrammar`, `ScopesAreDefinite` and `MeaningIsKept` are these results for the texts of `TextSpec`, which stay sequences of tokens.
  That the loop's recursive function is well defined (`Recursion`), and induction over its rounds (`Induction`), are proved from the
  well-foundedness of the natural numbers (`Least`), with sets in the place of predicates.

Only model-checked: `RequestsEnd`, `MirrorConverges`, `VerdictsConverge`, `DebateEnds` and `ConsumerConverges`, because liveness under fairness is out of
the prover's reach. The property of `peripherals_rotation` is false, as the finding says, and `SessionsOfBinding` is with renaming logins.

## Not modelled

* Refresh rotation and the Redis revocation set: a refresh carries the claims of the old token on, and none of the properties depends on it.
* Role projection: one call and one commit, put right by a nightly job that overwrites DataHub.
* Tier fan-out: a loop over runs that are modelled; what is left is SQLAlchemy's handling of a failed session.
* Rate limiting: counted by a library; the rest is the derivation of a client address from headers.
* The circuit breaker and transport retries of the DataHub client: services see a call that fails, which is modelled where they handle it.
* The Langfuse and SMTP peripherals and the runtime configuration: the merge is that of `Peripherals`, without a consumer.
* A metadata proposal that names one item twice: the items of a proposal are a set in `Metagen` (the validator reports it, see `DupItems`, and the debate goes on; a run that stores what an exhausted debate left does not look for it again).
* The characters of a filter text, its caps on length and literals, and the check of `dataset_urn` literals.
* Prompts, embeddings, the crawl of a database, masking of secrets, event read endpoints, HTTP schemas, workflow files, charts and the web UI:
  data, text or reads that hold no state these properties are about.

## Plan

1. Refresh rotation and role projection.
2. The caps of a filter on characters and literals, and the check of `dataset_urn` literals.
3. The fan-out over a tier, with the database session that its confs share.

------------------------------ MODULE Ontogen ------------------------------
(***************************************************************************)
(* Ontology generation (src/backend/ontogen/service.py): runs that propose *)
(* nodes, edges and triples, and human reviews of each of them.            *)
(*                                                                         *)
(* Runs are the Workers of RunLock, on its one key.  A run commits nodes,  *)
(* edges and triples in three transactions; each is one action here,       *)
(* because it only inserts rows that are not there and overwrites map      *)
(* rows: a concurrent commit comes before or after it, or fails it         *)
(* (run_fails).  A review takes a step for each of its reads and one for   *)
(* its commit.                                                             *)
(*                                                                         *)
(* The LLM proposes anything: terms, its confidence in them, datasets, and *)
(* triples of any ids.  Descriptions, scores and seeds are left out.       *)
(***************************************************************************)
EXTENDS RunLock, Integers, FiniteSets

CONSTANTS
  NodeNames, EdgeLabels,  \* what nodes and edges may be called
  Slugs, SlugOf,          \* to_snake of a name or label
  LongSlugs,              \* those over 64 characters, which assert_node_id refuses
  Datasets,
  Reviewers,              \* reviews that may be in flight at the same time
  MaxSuffix,              \* bound on the suffix of an id
  MaxProposals,           \* bound on the nodes and edges of one LLM output
  MaxTriples,             \* bound on its triples
  MaxStarted,             \* bound on the runs and reviews ever begun
  NoId, NoTerm,
  Dry,                    \* the dry_run flags a run may be started with
  Switches                \* the values is_enabled may be set to

Terms == NodeNames \cup EdgeLabels
Ids(terms) == {<<SlugOf[t], n>> : t \in terms, n \in 0..MaxSuffix}
NodeIds == Ids(NodeNames)
EdgeIds == Ids(EdgeLabels)
PartIds == NodeIds \cup EdgeIds
Triples == NodeIds \X EdgeIds \X NodeIds
PartsOf(t) == {t[1], t[2], t[3]}

\* Nodes and edges are different tables: their ids are kept apart.
ASSUME OntogenAssumption ==
  /\ SlugOf \in [Terms -> Slugs] /\ LongSlugs \subseteq Slugs
  /\ NodeNames \cap EdgeLabels = {} /\ NodeIds \cap EdgeIds = {}
  /\ PartIds \cap Triples = {}
  /\ MaxSuffix \in Nat /\ MaxProposals \in Nat /\ MaxTriples \in Nat /\ MaxStarted \in Nat
  /\ Keys # {}
  /\ NoId \notin PartIds \cup Triples /\ NoTerm \notin Terms
  /\ Dry \subseteq BOOLEAN /\ Switches \subseteq BOOLEAN

VARIABLES
  enabled,   \* ontogen_config.is_enabled; no row counts as disabled
  part,      \* ontogen_nodes and ontogen_edges
  triple,    \* ontogen_triples: their status
  nodeMap,   \* dataset_node_map: the status of a dataset's membership
  index,     \* node_embeddings: the status column of that table
  run,       \* runs in flight
  review,    \* reviews in flight
  started,   \* how many runs and reviews have begun
  endorsed   \* auxiliary: nodes and edges that a human has approved at some time

tables == <<part, triple, nodeMap>>
vars == <<lockVars, enabled, tables, index, run, review, started, endorsed>>

Status == {"llm_pending", "llm_approved", "approved", "rejected"}
Verdicts == {"approved", "rejected"}
OptStatus == Status \cup {"absent"}
Part == [status : OptStatus, name : Terms \cup {NoTerm}]

NoMaps == [d \in Datasets |-> "absent"]

\* A proposal once resolved: the row it stands for, whether that row is reused, and the
\* memberships it brings.
Proposal == [id : PartIds, name : Terms, status : Status, reuse : BOOLEAN,
             maps : [Datasets -> OptStatus]]
TripleProposal == [id : Triples, status : Status]

\* byName is node_name_to_id and edge_label_to_id, as loaded in step 7.
Run == [pc : {"idle", "locked", "loaded", "debated", "edges", "triples", "embed", "done"},
        dry : BOOLEAN, byName : [Terms -> PartIds \cup {NoId}], accepted : BOOLEAN,
        props : SUBSET Proposal, tprops : SUBSET TripleProposal]
NoNames == [t \in Terms |-> NoId]
IdleRun == [pc |-> "idle", dry |-> FALSE, byName |-> NoNames, accepted |-> FALSE,
            props |-> {}, tprops |-> {}]

Review == [pc : {"idle", "write", "maps"}, id : PartIds \cup Triples \cup {NoId},
           verdict : Verdicts \cup {"none"}, loaded : OptStatus,
           maps : [Datasets -> OptStatus], seen : SUBSET PartIds]
IdleReview == [pc |-> "idle", id |-> NoId, verdict |-> "none", loaded |-> "absent",
               maps |-> NoMaps, seen |-> {}]

RunTypeOK(r) ==
  /\ r.pc \in {"idle", "locked", "loaded", "debated", "edges", "triples", "embed", "done"}
  /\ r.dry \in BOOLEAN /\ r.accepted \in BOOLEAN
  /\ r.byName \in [Terms -> PartIds \cup {NoId}]
  /\ \A p \in r.props : p \in Proposal
  /\ \A p \in r.tprops : p \in TripleProposal

OntogenTypeOK ==
  /\ LockTypeOK
  /\ enabled \in BOOLEAN
  /\ part \in [PartIds -> Part]
  /\ triple \in [Triples -> OptStatus]
  /\ nodeMap \in [NodeIds -> [Datasets -> OptStatus]]
  /\ index \in [NodeIds -> OptStatus]
  /\ DOMAIN run = Workers /\ \A w \in Workers : RunTypeOK(run[w])
  /\ review \in [Reviewers -> Review]
  /\ started \in 0..MaxStarted
  /\ endorsed \subseteq PartIds

Init ==
  /\ LockInit
  /\ enabled = FALSE
  /\ part = [x \in PartIds |-> [status |-> "absent", name |-> NoTerm]]
  /\ triple = [t \in Triples |-> "absent"]
  /\ nodeMap = [n \in NodeIds |-> NoMaps]
  /\ index = [n \in NodeIds |-> "absent"]
  /\ run = [w \in Workers |-> IdleRun]
  /\ review = [v \in Reviewers |-> IdleReview]
  /\ started = 0 /\ endorsed = {}

----------------------------------------------------------------------------
\* State functions.

Present(x) == part[x].status # "absent"
Eligible(x) == part[x].status \in {"approved", "llm_approved", "llm_pending"}

\* The rows that search_node_embeddings may return.
Indexed == {n \in NodeIds : index[n] \in {"approved", "llm_approved"}}

\* assert_node_id, assert_edge_id.
ValidId(x) == x[1] \notin LongSlugs

\* make_snake_id(t, known) is <<SlugOf[t], n>>: the slug, or the first suffix of it that
\* is not known.
make_snake_id(t, known, n) ==
  /\ <<SlugOf[t], n>> \notin known
  /\ \A m \in 0..(n - 1) : <<SlugOf[t], m>> \in known

status_for_outcome_byScore(confident, accepted) ==
  IF confident THEN "llm_approved" ELSE "llm_pending"

status_for_outcome(confident, accepted) ==
  IF accepted /\ confident THEN "llm_approved" ELSE "llm_pending"

\* Bound: runs and reviews begin MaxStarted times in all.
Start == started < MaxStarted /\ started' = started + 1

----------------------------------------------------------------------------
\* put_conf, patch_conf; delete_conf goes back to the default.
put_conf(b) ==
  /\ enabled' = b
  /\ UNCHANGED <<lockVars, tables, index, run, review, started, endorsed>>

----------------------------------------------------------------------------
\* Runs.

SetRun(w, rec) ==
  /\ run' = [run EXCEPT ![w] = rec]
  /\ UNCHANGED <<enabled, review, endorsed>>

singleton == CHOOSE k \in Keys : TRUE

\* The lock comes first ...
run_locked(w, dry) ==
  /\ run[w].pc = "idle"
  /\ set_nx(w, singleton)
  /\ Start
  /\ SetRun(w, [IdleRun EXCEPT !.pc = "locked", !.dry = dry])
  /\ UNCHANGED <<tables, index>>

run_refused(w) ==
  /\ run[w].pc = "idle"
  /\ set_nx_refused(w, singleton) \/ set_nx_unacknowledged(w, singleton)
  /\ UNCHANGED <<enabled, tables, index, run, review, started, endorsed>>

\* ... then the conf: ONTOGEN_DISABLED ...
run_disabled(w) ==
  /\ run[w].pc = "locked"
  /\ ~enabled /\ ~run[w].dry
  /\ delete_if_value(w)
  /\ SetRun(w, IdleRun)
  /\ UNCHANGED <<started, tables, index>>

\* ... or step 7, which loads the rows for reuse by name: all but the rejected ones.
Loaded(t) ==
  LET rows == {x \in PartIds : Eligible(x) /\ part[x].name = t} IN
  IF rows = {} THEN NoId ELSE CHOOSE x \in rows : TRUE

run_load(w) ==
  /\ run[w].pc = "locked"
  /\ enabled \/ run[w].dry
  /\ SetRun(w, [run[w] EXCEPT !.pc = "loaded", !.byName = [t \in Terms |-> Loaded(t)]])
  /\ UNCHANGED <<started, lockVars, tables, index>>

\* The debate is accepted, or ends by exhaustion or a cycle; its last payload is kept.
run_debate(w, accepted) ==
  /\ run[w].pc = "loaded"
  /\ SetRun(w, [run[w] EXCEPT !.pc = "debated", !.accepted = accepted])
  /\ UNCHANGED <<started, lockVars, tables, index>>

\* all_known_ids: the loaded ids, and those given to earlier proposals.
Known(w) ==
  ({run[w].byName[t] : t \in Terms} \ {NoId}) \cup {p.id : p \in run[w].props}

\* Bound: an output has MaxProposals nodes and edges, resolved to different rows.
RoomForProposal(w, id) ==
  /\ Cardinality(run[w].props) < MaxProposals
  /\ \A p \in run[w].props : p.id # id

\* The memberships go by the confidence alone.
MapsFor(urns, confident) ==
  [d \in Datasets |-> IF d \notin urns THEN "absent"
                      ELSE IF confident THEN "llm_approved" ELSE "llm_pending"]

Propose(w, t, id, confident, reuse, urns) ==
  LET p == [id |-> id, name |-> t, reuse |-> reuse, maps |-> MapsFor(urns, confident),
            status |-> status_for_outcome(confident, run[w].accepted)]
  IN /\ RoomForProposal(w, id)
     /\ SetRun(w, [run[w] EXCEPT !.props = @ \cup {p}])
     /\ UNCHANGED <<started, lockVars, tables, index>>

\* A node or edge whose name or label is that of a loaded row is that row; a node
\* may also be one that the embedding search returns; otherwise it gets a new id.
\* Triples are composed after both.  The proposals of a dry run are only counted.
Proposing(w) == run[w].pc = "debated" /\ run[w].tprops = {} /\ ~run[w].dry

propose_match(w, t, confident, urns) ==
  /\ Proposing(w)
  /\ run[w].byName[t] # NoId
  /\ Propose(w, t, run[w].byName[t], confident, t \in NodeNames, urns)

propose_similar(w, t, hit, confident, urns) ==
  /\ Proposing(w)
  /\ t \in NodeNames /\ run[w].byName[t] = NoId
  /\ hit \in Indexed
  /\ Propose(w, t, hit, confident, TRUE, urns)

propose_new(w, t, n, confident, urns) ==
  /\ Proposing(w)
  /\ run[w].byName[t] = NoId
  /\ make_snake_id(t, Known(w), n)
  /\ Propose(w, t, <<SlugOf[t], n>>, confident, FALSE, urns)

\* Ids that are not proposals go through as they are.  A triple that step 7 loaded is
\* skipped, which persist_triples would do anyway.
propose_triple(w, t, confident) ==
  /\ run[w].pc = "debated" /\ ~run[w].dry
  /\ \A x \in PartsOf(t) : ValidId(x)
  /\ Cardinality(run[w].tprops) < MaxTriples
  /\ SetRun(w, [run[w] EXCEPT !.tprops = @ \cup
                 {[id |-> t, status |-> status_for_outcome(confident, run[w].accepted)]}])
  /\ UNCHANGED <<started, lockVars, tables, index>>

\* Inserts the proposals that have a valid id and no row; a row that is there is given
\* the new name, if it is a node.  UNIQUE (name) and UNIQUE (label) must hold.
NewPart_restatus(ps, x) ==
  LET mine == {p \in ps : p.id = x /\ ~p.reuse /\ ValidId(x)} IN
  IF mine = {} THEN part[x]
  ELSE LET p == CHOOSE p \in mine : TRUE IN [status |-> p.status, name |-> p.name]

NewPart(ps, x) ==
  LET mine == {p \in ps : p.id = x /\ ~p.reuse /\ ValidId(x)} IN
  IF mine = {} THEN part[x]
  ELSE LET p == CHOOSE p \in mine : TRUE IN
       IF ~Present(x) THEN [status |-> p.status, name |-> p.name]
       ELSE IF x \in NodeIds THEN [part[x] EXCEPT !.name = p.name]
       ELSE part[x]

\* A review that has flushed its verdict on a node holds the row.
LockedByReview(x) == \E v \in Reviewers : review[v].pc = "maps" /\ review[v].id = x

UniqueNames ==
  \A x, y \in PartIds : x # y /\ Present(x) => part[x].name # part[y].name

\* _upsert_dataset_node_maps, for reused and new nodes alike.
NewMaps(ps, n, d) ==
  LET mine == {p \in ps : p.id = n /\ p.maps[d] # "absent"} IN
  IF mine = {} THEN nodeMap[n][d] ELSE (CHOOSE p \in mine : TRUE).maps[d]

\* What the run needs no more is dropped: the loaded names, proposals that are done.
Unreused(ps) == {[p EXCEPT !.maps = NoMaps] : p \in {q \in ps : ~q.reuse}}

\* A map row refers to its node; one for a proposal skipped for its id does not, and
\* the transaction fails.
persist_nodes(w) ==
  LET ps == {p \in run[w].props : p.id \in NodeIds} IN
  /\ run[w].pc = "debated" /\ ~run[w].dry
  /\ part' = [x \in PartIds |-> NewPart(ps, x)]
  /\ \A x \in NodeIds : part'[x] # part[x] => ~LockedByReview(x)
  /\ UniqueNames'
  /\ nodeMap' = [n \in NodeIds |-> [d \in Datasets |-> NewMaps(ps, n, d)]]
  /\ \A p \in ps : p.maps # NoMaps => Present(p.id)'
  /\ SetRun(w, [run[w] EXCEPT !.pc = "edges", !.byName = NoNames, !.props = Unreused(@)])
  /\ UNCHANGED <<started, lockVars, triple, index>>

persist_edges(w) ==
  LET ps == {p \in run[w].props : p.id \in EdgeIds} IN
  /\ run[w].pc = "edges"
  /\ part' = [x \in PartIds |-> NewPart(ps, x)]
  /\ UniqueNames'
  /\ SetRun(w, [run[w] EXCEPT !.pc = "triples", !.props = @ \ ps])
  /\ UNCHANGED <<started, lockVars, triple, nodeMap, index>>

\* Inserts the triples whose parts exist and that are not there yet.
Insertable(t) == triple[t] = "absent" /\ \A x \in PartsOf(t) : Present(x)

persist_triples(w) ==
  LET new == {p \in run[w].tprops : Insertable(p.id)} IN
  /\ run[w].pc = "triples"
  /\ triple' = [t \in Triples |-> IF \E p \in new : p.id = t
                                  THEN (CHOOSE p \in new : p.id = t).status ELSE triple[t]]
  /\ SetRun(w, [run[w] EXCEPT !.pc = "embed", !.tprops = {}, !.accepted = FALSE])
  /\ UNCHANGED <<started, lockVars, part, nodeMap, index>>

\* _refresh_node_embeddings: best effort, for the proposals that were not reuse.
refresh_node_embeddings(w, done) ==
  /\ run[w].pc = "embed"
  /\ \A n \in done : Present(n) /\ \E p \in run[w].props : p.id = n
  /\ index' = [n \in NodeIds |-> IF n \in done
                                 THEN (CHOOSE p \in run[w].props : p.id = n).status
                                 ELSE index[n]]
  /\ SetRun(w, [run[w] EXCEPT !.pc = "done", !.props = {}])
  /\ UNCHANGED <<started, lockVars, tables>>

\* ONTOGEN.RUN_COMPLETE, for a dry run without having persisted anything; the finally
\* clause releases the lock.
run_complete(w) ==
  /\ run[w].pc = "done" \/ (run[w].pc = "debated" /\ run[w].dry)
  /\ delete_if_value(w)
  /\ SetRun(w, IdleRun)
  /\ UNCHANGED <<started, tables, index>>

\* An exception, in the LLM or in a transaction that is rolled back: what earlier
\* transactions of the run have committed stays.
run_fails(w) ==
  /\ run[w].pc # "idle"
  /\ delete_if_value(w)
  /\ SetRun(w, IdleRun)
  /\ UNCHANGED <<started, tables, index>>

run_crashes(w) ==
  /\ run[w].pc # "idle"
  /\ Crash(w)
  /\ SetRun(w, IdleRun)
  /\ UNCHANGED <<started, tables, index>>

lock_expires(k) ==
  /\ Expire(k)
  /\ UNCHANGED <<enabled, tables, index, run, review, started, endorsed>>

----------------------------------------------------------------------------
\* Reviews.

SetReview(v, rec) ==
  /\ review' = [review EXCEPT ![v] = rec]
  /\ UNCHANGED <<lockVars, enabled, index, run>>

ReviewOf(x, verdict, status, maps) ==
  [IdleReview EXCEPT !.pc = "write", !.id = x, !.verdict = verdict, !.loaded = status,
                     !.maps = maps]

\* get_node with its memberships (selectinload), get_edge.
review_part(v, x, verdict) ==
  /\ review[v].pc = "idle"
  /\ Present(x)
  /\ Start
  /\ SetReview(v, ReviewOf(x, verdict, part[x].status,
                            IF x \in NodeIds THEN nodeMap[x] ELSE NoMaps))
  /\ UNCHANGED <<part, triple, nodeMap, endorsed>>

\* The SELECT of a node's memberships flushes the verdict on the node, which takes the
\* row lock.  The ORM keeps the status of those it has loaded before.
review_maps(v) ==
  LET r == review[v]
      kept(d) == nodeMap[r.id][d] # "absent" /\ r.maps[d] # "absent"
  IN /\ r.pc = "write" /\ r.id \in NodeIds
     /\ ~LockedByReview(r.id)
     /\ SetReview(v, [r EXCEPT !.pc = "maps",
                     !.maps = [d \in Datasets |-> IF kept(d) THEN r.maps[d] ELSE nodeMap[r.id][d]]])
     /\ UNCHANGED <<started, part, triple, nodeMap, endorsed>>

\* get_triple ...
review_triple(v, t, verdict) ==
  /\ review[v].pc = "idle"
  /\ triple[t] # "absent"
  /\ Start
  /\ SetReview(v, ReviewOf(t, verdict, triple[t], NoMaps))
  /\ UNCHANGED <<part, triple, nodeMap, endorsed>>

\* ... and the dependency gate, which reads the subject, the edge and the object one after
\* the other: ONTOGEN_TRIPLE_DEPENDENCY_PENDING unless a human has approved each.
Passes_llm(x) == part[x].status \in {"approved", "llm_approved"}
Passes(x) == part[x].status = "approved"

NextPart(t, seen) ==
  IF t[1] \notin seen THEN t[1] ELSE IF t[2] \notin seen THEN t[2] ELSE t[3]

review_triple_gate(v) ==
  LET r == review[v]
      x == NextPart(r.id, r.seen)
  IN /\ r.pc = "write" /\ r.id \in Triples /\ r.verdict = "approved"
     /\ x \notin r.seen
     /\ SetReview(v, IF Passes(x) THEN [r EXCEPT !.seen = @ \cup {x}] ELSE IdleReview)
     /\ UNCHANGED <<started, part, triple, nodeMap, endorsed>>

\* The ORM leaves out a column that keeps the value it was loaded with.
Written_verdict(r, old) == IF r.verdict = "approved" THEN "approve" ELSE "reject"
Written(r, old) == IF r.loaded = r.verdict THEN old ELSE r.verdict

\* The row, the memberships of a node, and commit.
review_part_commit(v) ==
  LET r == review[v] IN
  /\ r.id \in PartIds /\ r.pc = (IF r.id \in NodeIds THEN "maps" ELSE "write")
  /\ part' = [part EXCEPT ![r.id].status = Written(r, @)]
  /\ nodeMap' = [n \in NodeIds |-> [d \in Datasets |->
                   IF n = r.id /\ r.maps[d] \notin {"absent", r.verdict}
                   THEN r.verdict ELSE nodeMap[n][d]]]
  /\ endorsed' = IF r.verdict = "approved" THEN endorsed \cup {r.id} ELSE endorsed
  /\ SetReview(v, IdleReview)
  /\ UNCHANGED <<triple, started>>

review_triple_commit(v) ==
  LET r == review[v] IN
  /\ r.pc = "write" /\ r.id \in Triples
  /\ r.verdict = "approved" => PartsOf(r.id) \subseteq r.seen
  /\ triple' = [triple EXCEPT ![r.id] = Written(r, @)]
  /\ SetReview(v, IdleReview)
  /\ UNCHANGED <<started, part, nodeMap, endorsed>>

----------------------------------------------------------------------------
\* Only nodes have dataset_urns.
UrnsFor(t) == IF t \in NodeNames THEN SUBSET Datasets ELSE {{}}

ProposalNext(w) ==
  \/ \E t \in Terms, confident \in BOOLEAN : \E urns \in UrnsFor(t) :
       \/ propose_match(w, t, confident, urns)
       \/ \E n \in 0..MaxSuffix : propose_new(w, t, n, confident, urns)
       \/ \E hit \in NodeIds : propose_similar(w, t, hit, confident, urns)
  \/ \E t \in Triples, confident \in BOOLEAN : propose_triple(w, t, confident)

RunNext(w) ==
  \/ \E dry \in Dry : run_locked(w, dry)
  \/ run_refused(w) \/ run_disabled(w) \/ run_load(w)
  \/ \E accepted \in BOOLEAN : run_debate(w, accepted)
  \/ ProposalNext(w)
  \/ persist_nodes(w) \/ persist_edges(w) \/ persist_triples(w)
  \/ \E done \in SUBSET NodeIds : refresh_node_embeddings(w, done)
  \/ run_complete(w) \/ run_fails(w) \/ run_crashes(w)

ReviewNext(v) ==
  \/ \E x \in PartIds, verdict \in Verdicts : review_part(v, x, verdict)
  \/ \E t \in Triples, verdict \in Verdicts : review_triple(v, t, verdict)
  \/ review_maps(v) \/ review_triple_gate(v)
  \/ review_part_commit(v) \/ review_triple_commit(v)

Next ==
  \/ \E b \in Switches : put_conf(b)
  \/ \E w \in Workers : RunNext(w)
  \/ \E k \in Keys : lock_expires(k)
  \/ \E v \in Reviewers : ReviewNext(v)

Spec == Init /\ [][Next]_vars

----------------------------------------------------------------------------
\* Properties.

\* BACKEND_LLM.md, status lifecycle: approved and rejected are set by the human review
\* endpoint.  Whatever a run has loaded before the verdict, it never takes one back.
VerdictsStand ==
  [][/\ \A x \in PartIds : part[x].status \in Verdicts => part'[x].status \in Verdicts
     /\ \A t \in Triples : triple[t] \in Verdicts => triple'[t] \in Verdicts]_vars

\* BACKEND.md, review: "the human must explicitly approve each component first": every
\* part of an approved triple has been approved by a human before, however reviews of
\* the parts and of the triple interleave.
TriplePartsEndorsed ==
  \A t \in Triples : triple[t] = "approved" => PartsOf(t) \subseteq endorsed

\* BACKEND_LLM.md, termination: rows of a debate that was not accepted persist as
\* llm_pending "regardless of confidence_score": a node, edge or triple is llm_approved
\* from the commit of a run whose debate was accepted, and from nothing else.
LlmApprovedIsVetted ==
  [][(\/ \E x \in PartIds : part'[x].status = "llm_approved" /\ part[x].status # "llm_approved"
      \/ \E t \in Triples : triple'[t] = "llm_approved" /\ triple[t] # "llm_approved")
     => \E w \in Workers : run[w].accepted /\ run'[w] # run[w]]_vars

\* BACKEND.md, inference pipeline: "The reuse pool spans all non-rejected statuses".  It
\* does not hold: the index keeps the status a node was inserted with.
ReusePool ==
  \A w \in Workers : \A p \in run[w].props :
    p.reuse => \E t \in Terms : run[w].byName[t] = p.id

\* BACKEND.md, review: approving a node marks "the node and its dataset_node_map
\* memberships as approved".  Only a review changes an approved membership; it does not
\* hold, since a run that reuses the node writes its own status over them.
MembershipsStand ==
  [][\A n \in NodeIds, d \in Datasets :
       nodeMap[n][d] \in Verdicts => nodeMap'[n][d] \in Verdicts]_vars

============================================================================

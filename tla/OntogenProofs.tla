--------------------------- MODULE OntogenProofs ---------------------------
(***************************************************************************)
(* Proofs about ontology generation, for any number of terms, datasets,    *)
(* runs and reviews.                                                       *)
(***************************************************************************)
EXTENDS Ontogen, RunLockProofs

LlmStatus == {"llm_pending", "llm_approved"}

\* What a run is about to insert has a status of the LLM's, llm_approved only if its
\* debate was accepted.  Once the triples are in, the status is for the index alone.
ProposalOK(r, p) ==
  /\ p.status \in LlmStatus
  /\ p.status = "llm_approved" => r.accepted \/ r.pc = "embed"
RunOK ==
  \A w \in Workers :
    /\ run[w].pc \in {"locked", "loaded"} => run[w].props = {} /\ run[w].tprops = {}
    /\ \A p \in run[w].props : ProposalOK(run[w], p)
    /\ \A p \in run[w].tprops : ProposalOK(run[w], p) /\ run[w].pc # "embed"

\* What a review of a triple has found approved has been endorsed, though it may be
\* rejected before the review commits.
ReviewOK ==
  \A v \in Reviewers :
    /\ review[v].pc # "idle" => review[v].verdict \in Verdicts
    /\ review[v].seen \subseteq endorsed

\* A node or edge is approved only by a human.
EndorsedOK == \A x \in PartIds : part[x].status = "approved" => x \in endorsed

OntogenInv == OntogenTypeOK /\ RunOK /\ ReviewOK /\ EndorsedOK /\ TriplePartsEndorsed

\* A status before and after a step; accepted says that a run commits whose debate was.
StatusStep(old, new, accepted) ==
  \/ new = old
  \/ old = "absent" /\ new \in LlmStatus /\ (new = "llm_approved" => accepted)
  \/ new \in Verdicts

----------------------------------------------------------------------------
\* Ids.

\* Which ids are whose.
LEMMA IdFacts ==
  /\ NodeIds \subseteq PartIds /\ EdgeIds \subseteq PartIds
  /\ \A t \in Terms, n \in 0..MaxSuffix : <<SlugOf[t], n>> \in PartIds
  /\ \A t \in Triples : PartsOf(t) \subseteq PartIds
<1>1. NodeIds \subseteq PartIds /\ EdgeIds \subseteq PartIds
  BY DEF PartIds
<1>2. ASSUME NEW t \in Terms, NEW n \in 0..MaxSuffix PROVE <<SlugOf[t], n>> \in PartIds
  BY DEF PartIds, NodeIds, EdgeIds, Ids, Terms
<1>3. ASSUME NEW t \in Triples PROVE PartsOf(t) \subseteq PartIds
  BY <1>1 DEF Triples, PartsOf
<1> QED BY <1>1, <1>2, <1>3

----------------------------------------------------------------------------
\* The lock.

\* Every step of ontology generation is a step of the run lock, or leaves it alone.
LEMMA LockSteps == [Next]_vars => [LockNext]_lockVars
<1> SUFFICES ASSUME [Next]_vars PROVE [LockNext]_lockVars
  OBVIOUS
<1>0. singleton \in Keys
  BY OntogenAssumption DEF singleton
<1>1. CASE UNCHANGED vars
  BY <1>1 DEF vars
<1>2. ASSUME NEW b \in Switches, put_conf(b) PROVE [LockNext]_lockVars
  BY <1>2 DEF put_conf
<1>3. ASSUME NEW w \in Workers, RunNext(w) PROVE [LockNext]_lockVars
  <2>1. CASE (\E dry \in Dry : run_locked(w, dry)) \/ run_refused(w)
    BY <2>1, <1>0 DEF run_locked, run_refused, LockNext
  <2>2. CASE run_disabled(w) \/ run_complete(w) \/ run_fails(w) \/ run_crashes(w)
    BY <2>2 DEF run_disabled, run_complete, run_fails, run_crashes, LockNext
  <2>3. CASE \/ run_load(w) \/ (\E accepted \in BOOLEAN : run_debate(w, accepted))
             \/ persist_nodes(w) \/ persist_edges(w) \/ persist_triples(w)
             \/ \E done \in SUBSET NodeIds : refresh_node_embeddings(w, done)
    BY <2>3 DEF run_load, run_debate, persist_nodes, persist_edges, persist_triples,
                refresh_node_embeddings
  <2>4. CASE ProposalNext(w)
    BY <2>4, ZenonT(60) DEF ProposalNext, propose_match, propose_new, propose_similar, propose_triple,
                Propose
  <2> QED BY <1>3, <2>1, <2>2, <2>3, <2>4 DEF RunNext
<1>4. ASSUME NEW k \in Keys, lock_expires(k) PROVE [LockNext]_lockVars
  BY <1>4 DEF lock_expires, LockNext
<1>5. ASSUME NEW v \in Reviewers, ReviewNext(v) PROVE [LockNext]_lockVars
  BY <1>5 DEF ReviewNext, review_part, review_triple, review_maps, review_triple_gate,
              review_part_commit, review_triple_commit, SetReview
<1> QED BY <1>1, <1>2, <1>3, <1>4, <1>5 DEF Next

\* The lock keeps its type.
LEMMA LockTypeStep == LockTypeOK /\ [Next]_vars => LockTypeOK'
<1> SUFFICES ASSUME LockTypeOK, [Next]_vars PROVE LockTypeOK'
  OBVIOUS
<1>1. [LockNext]_lockVars
  BY LockSteps
<1> QED BY <1>1, LockAssumption DEF LockTypeOK, LockNext, lockVars, set_nx, set_nx_refused,
           set_nx_unacknowledged, delete_if_value, Crash, Expire

----------------------------------------------------------------------------
\* The invariant.

\* The record of a run that is not in flight.
LEMMA IdleRunOK == RunTypeOK(IdleRun)
  BY DEF RunTypeOK, IdleRun, NoNames

\* The record of a review that is not in flight.
LEMMA IdleReviewOK == IdleReview \in Review /\ IdleReview.pc = "idle" /\ IdleReview.seen = {}
<1>1. NoMaps \in [Datasets -> OptStatus]
  BY DEF NoMaps, OptStatus
<1> QED BY <1>1 DEF Review, IdleReview, OptStatus

\* The invariant holds in the initial states.
LEMMA InvInit == Init => OntogenInv
<1> SUFFICES ASSUME Init PROVE OntogenInv
  OBVIOUS
<1>1. OntogenTypeOK
  <2>1. LockTypeOK
    BY LockInvInit DEF Init, LockInv
  <2>2. RunTypeOK(IdleRun)
    BY IdleRunOK
  <2>3. IdleReview \in Review
    BY IdleReviewOK
  <2>4. part \in [PartIds -> Part] /\ triple \in [Triples -> OptStatus]
    BY DEF Init, Part, OptStatus
  <2>5. nodeMap \in [NodeIds -> [Datasets -> OptStatus]] /\ index \in [NodeIds -> OptStatus]
    BY DEF Init, NoMaps, OptStatus
  <2>6. enabled \in BOOLEAN /\ endorsed \subseteq PartIds
    BY DEF Init
  <2>7. started \in 0..MaxStarted
    BY OntogenAssumption DEF Init
  <2>8. DOMAIN run = Workers /\ \A w \in Workers : RunTypeOK(run[w])
    BY <2>2 DEF Init
  <2>9. review \in [Reviewers -> Review]
    BY <2>3 DEF Init
  <2> QED BY <2>1, <2>4, <2>5, <2>6, <2>7, <2>8, <2>9 DEF OntogenTypeOK
<1>2. RunOK /\ ReviewOK /\ EndorsedOK /\ TriplePartsEndorsed
  BY DEF Init, RunOK, IdleRun, ReviewOK, IdleReview, EndorsedOK, TriplePartsEndorsed
<1> QED BY <1>1, <1>2 DEF OntogenInv

\* A step of a run that leaves the tables alone: its record must keep its shape.
LEMMA RecordStep ==
  ASSUME OntogenInv, NEW w \in Workers, NEW rec, LockTypeOK',
         RunTypeOK(rec),
         \A p \in rec.props : ProposalOK(rec, p),
         \A p \in rec.tprops : ProposalOK(rec, p) /\ rec.pc # "embed",
         rec.pc \in {"locked", "loaded"} => rec.props = {} /\ rec.tprops = {},
         SetRun(w, rec), UNCHANGED tables, started' \in 0..MaxStarted,
         index' \in [NodeIds -> OptStatus]
  PROVE  OntogenInv'
<1>1. \A x \in Workers : run'[x] = IF x = w THEN rec ELSE run[x]
  BY DEF SetRun, OntogenInv, OntogenTypeOK
<1>2. OntogenTypeOK'
  BY <1>1 DEF SetRun, tables, OntogenInv, OntogenTypeOK
<1>3. RunOK'
  BY <1>1 DEF RunOK, OntogenInv
<1>4. ReviewOK' /\ EndorsedOK' /\ TriplePartsEndorsed'
  BY DEF SetRun, tables, OntogenInv, ReviewOK, EndorsedOK, TriplePartsEndorsed
<1> QED BY <1>2, <1>3, <1>4 DEF OntogenInv

\* A run that ends, however it ends.
LEMMA IdleStep ==
  ASSUME OntogenInv, NEW w \in Workers, LockTypeOK', SetRun(w, IdleRun),
         UNCHANGED <<started, tables, index>>
  PROVE  OntogenInv'
<1>1. started' \in 0..MaxStarted /\ index' \in [NodeIds -> OptStatus] /\ UNCHANGED tables
  BY DEF OntogenInv, OntogenTypeOK
<1>2. IdleRun.props = {} /\ IdleRun.tprops = {}
  BY DEF IdleRun
<1> QED BY <1>1, <1>2, IdleRunOK, RecordStep

\* Steps of a run outside its transactions.
LEMMA QuietRunStep ==
  ASSUME OntogenInv, NEW w \in Workers, LockTypeOK',
         \/ \E dry \in Dry : run_locked(w, dry)
         \/ run_refused(w) \/ run_disabled(w) \/ run_load(w)
         \/ \E accepted \in BOOLEAN : run_debate(w, accepted)
         \/ run_complete(w) \/ run_fails(w) \/ run_crashes(w)
  PROVE  OntogenInv'
<1> DEFINE r == run[w]
<1>0. /\ RunTypeOK(r) /\ started \in 0..MaxStarted /\ index \in [NodeIds -> OptStatus]
      /\ \A p \in r.props : ProposalOK(r, p)
      /\ \A p \in r.tprops : ProposalOK(r, p) /\ r.pc # "embed"
  BY DEF OntogenInv, OntogenTypeOK, RunOK
<1>1. CASE run_disabled(w) \/ run_complete(w) \/ run_fails(w) \/ run_crashes(w)
  BY <1>1, IdleStep DEF run_disabled, run_complete, run_fails, run_crashes
<1>2. CASE run_refused(w)
  BY <1>2 DEF run_refused, tables, OntogenInv, OntogenTypeOK, RunOK, ReviewOK, EndorsedOK,
              TriplePartsEndorsed
<1>3. ASSUME NEW dry \in Dry, run_locked(w, dry) PROVE OntogenInv'
  <2> DEFINE rec == [IdleRun EXCEPT !.pc = "locked", !.dry = dry]
  <2>1. RunTypeOK(rec) /\ rec.props = {} /\ rec.tprops = {}
    BY OntogenAssumption, IdleRunOK DEF RunTypeOK, IdleRun
  <2>2. started' \in 0..MaxStarted /\ index' \in [NodeIds -> OptStatus] /\ UNCHANGED tables
    <3>1. MaxStarted \in Nat /\ started < MaxStarted /\ started' = started + 1
      BY <1>3, OntogenAssumption DEF run_locked, Start
    <3>2. started' \in 0..MaxStarted
      BY <1>0, <3>1
    <3> QED BY <1>0, <1>3, <3>2 DEF run_locked
  <2>3. SetRun(w, rec)
    BY <1>3 DEF run_locked
  <2> HIDE DEF rec
  <2> QED BY <2>1, <2>2, <2>3, RecordStep
<1>4. CASE run_load(w)
  <2> DEFINE rec == [r EXCEPT !.pc = "loaded", !.byName = [t \in Terms |-> Loaded(t)]]
  <2>1. \A t \in Terms : Loaded(t) \in PartIds \cup {NoId}
    BY DEF Loaded
  <2>2. RunTypeOK(rec)
    BY <1>0, <2>1 DEF RunTypeOK
  <2>3. rec.props = {} /\ rec.tprops = {}
    BY <1>0, <1>4 DEF RunTypeOK, run_load, OntogenInv, RunOK
  <2>4. SetRun(w, rec) /\ UNCHANGED tables /\ started' = started /\ index' = index
    BY <1>4 DEF run_load
  <2> HIDE DEF rec, r
  <2> QED BY <1>0, <2>2, <2>3, <2>4, RecordStep
<1>5. ASSUME NEW accepted \in BOOLEAN, run_debate(w, accepted) PROVE OntogenInv'
  <2> DEFINE rec == [r EXCEPT !.pc = "debated", !.accepted = accepted]
  <2>1. r.props = {} /\ r.tprops = {}
    BY <1>5 DEF run_debate, OntogenInv, RunOK
  <2>2. RunTypeOK(rec)
    BY <1>0 DEF RunTypeOK
  <2>3. SetRun(w, rec) /\ UNCHANGED tables /\ started' = started /\ index' = index
    BY <1>5 DEF run_debate
  <2>4. rec.props = {} /\ rec.tprops = {}
    BY <1>0, <2>1 DEF RunTypeOK
  <2> HIDE DEF rec, r
  <2> QED BY <1>0, <2>2, <2>3, <2>4, RecordStep
<1> QED BY <1>1, <1>2, <1>3, <1>4, <1>5

\* The LLM's output, item by item.
LEMMA ProposeStep ==
  ASSUME OntogenInv, NEW w \in Workers, LockTypeOK', run[w].pc = "debated",
         NEW t \in Terms, NEW id \in PartIds, NEW confident \in BOOLEAN, NEW reuse \in BOOLEAN,
         NEW urns \in SUBSET Datasets, Propose(w, t, id, confident, reuse, urns)
  PROVE  OntogenInv'
<1> DEFINE r == run[w]
           p == [id |-> id, name |-> t, reuse |-> reuse, maps |-> MapsFor(urns, confident),
                 status |-> status_for_outcome(confident, r.accepted)]
           rec == [r EXCEPT !.props = @ \cup {p}]
<1>0. /\ RunTypeOK(r) /\ started \in 0..MaxStarted /\ index \in [NodeIds -> OptStatus]
      /\ \A q \in r.props : ProposalOK(r, q)
      /\ \A q \in r.tprops : ProposalOK(r, q) /\ r.pc # "embed"
  BY DEF OntogenInv, OntogenTypeOK, RunOK
<1>1. p \in Proposal /\ ProposalOK(r, p)
  <2>1. MapsFor(urns, confident) \in [Datasets -> OptStatus]
    BY DEF MapsFor, OptStatus, Status
  <2> QED BY <1>0, <2>1 DEF Proposal, Status, status_for_outcome, ProposalOK, LlmStatus,
                            RunTypeOK
<1>2. SetRun(w, rec) /\ UNCHANGED tables /\ started' = started /\ index' = index
  BY DEF Propose
<1> HIDE DEF p
<1>3. /\ rec.props = r.props \cup {p} /\ rec.tprops = r.tprops /\ rec.pc = r.pc
      /\ rec.accepted = r.accepted /\ rec.dry = r.dry /\ rec.byName = r.byName
  OBVIOUS
<1> HIDE DEF rec
<1>4. RunTypeOK(rec)
  BY <1>0, <1>1, <1>3 DEF RunTypeOK
<1>5. /\ \A q \in rec.props : ProposalOK(rec, q)
      /\ \A q \in rec.tprops : ProposalOK(rec, q) /\ rec.pc # "embed"
      /\ rec.pc = "debated"
  BY <1>0, <1>1, <1>3 DEF ProposalOK
<1> HIDE DEF r
<1> QED BY <1>0, <1>2, <1>4, <1>5, RecordStep

\* Any item of the output.
LEMMA ProposalStep ==
  ASSUME OntogenInv, NEW w \in Workers, LockTypeOK', ProposalNext(w)
  PROVE  OntogenInv'
<1> DEFINE r == run[w]
<1>0. /\ RunTypeOK(r) /\ started \in 0..MaxStarted /\ index \in [NodeIds -> OptStatus]
      /\ \A q \in r.props : ProposalOK(r, q)
      /\ \A q \in r.tprops : ProposalOK(r, q) /\ r.pc # "embed"
  BY DEF OntogenInv, OntogenTypeOK, RunOK
<1>1. ASSUME NEW t \in Terms, NEW confident \in BOOLEAN, NEW urns \in UrnsFor(t),
             \/ propose_match(w, t, confident, urns)
             \/ \E n \in 0..MaxSuffix : propose_new(w, t, n, confident, urns)
             \/ \E hit \in NodeIds : propose_similar(w, t, hit, confident, urns)
      PROVE  OntogenInv'
  <2>1. urns \in SUBSET Datasets
    BY DEF UrnsFor
  <2>2. CASE propose_match(w, t, confident, urns)
    <3>1. r.byName[t] \in PartIds /\ (t \in NodeNames) \in BOOLEAN
      BY <1>0, <2>2 DEF propose_match, RunTypeOK
    <3>2. r.pc = "debated" /\ Propose(w, t, r.byName[t], confident, t \in NodeNames, urns)
      BY <2>2 DEF propose_match, Proposing
    <3> QED BY <2>1, <3>1, <3>2, ProposeStep
  <2>3. ASSUME NEW n \in 0..MaxSuffix, propose_new(w, t, n, confident, urns) PROVE OntogenInv'
    <3>1. <<SlugOf[t], n>> \in PartIds
      BY IdFacts
    <3>2. r.pc = "debated" /\ Propose(w, t, <<SlugOf[t], n>>, confident, FALSE, urns)
      BY <2>3 DEF propose_new, Proposing
    <3> QED BY <2>1, <3>1, <3>2, ProposeStep
  <2>4. ASSUME NEW hit \in NodeIds, propose_similar(w, t, hit, confident, urns)
        PROVE  OntogenInv'
    <3>1. hit \in PartIds
      BY IdFacts
    <3>2. r.pc = "debated" /\ Propose(w, t, hit, confident, TRUE, urns)
      BY <2>4 DEF propose_similar, Proposing
    <3> QED BY <2>1, <3>1, <3>2, ProposeStep
  <2> QED BY <1>1, <2>2, <2>3, <2>4
<1>2. ASSUME NEW t \in Triples, NEW confident \in BOOLEAN, propose_triple(w, t, confident)
      PROVE  OntogenInv'
  <2> DEFINE p == [id |-> t, status |-> status_for_outcome(confident, r.accepted)]
             rec == [r EXCEPT !.tprops = @ \cup {p}]
  <2>1. p \in TripleProposal /\ ProposalOK(r, p)
    BY <1>0 DEF TripleProposal, Status, status_for_outcome, ProposalOK, LlmStatus, RunTypeOK
  <2>2. /\ SetRun(w, rec) /\ UNCHANGED tables /\ started' = started /\ index' = index
        /\ r.pc = "debated"
    BY <1>2 DEF propose_triple
  <2> HIDE DEF p
  <2>3. /\ rec.tprops = r.tprops \cup {p} /\ rec.props = r.props /\ rec.pc = r.pc
        /\ rec.accepted = r.accepted /\ rec.dry = r.dry /\ rec.byName = r.byName
    BY <1>0 DEF RunTypeOK
  <2> HIDE DEF rec
  <2>4. RunTypeOK(rec)
    BY <1>0, <2>1, <2>3 DEF RunTypeOK
  <2>5. /\ \A q \in rec.props : ProposalOK(rec, q)
        /\ \A q \in rec.tprops : ProposalOK(rec, q) /\ rec.pc # "embed"
        /\ rec.pc = "debated"
    BY <1>0, <2>1, <2>2, <2>3 DEF ProposalOK
  <2> HIDE DEF r
  <2> QED BY <1>0, <2>2, <2>4, <2>5, RecordStep
<1> QED BY <1>1, <1>2 DEF ProposalNext

----------------------------------------------------------------------------
\* The transactions of a run.

\* A transaction keeps the invariant if it inserts rows with a status of the LLM's and
\* changes no status that is there.
LEMMA PersistStep ==
  ASSUME OntogenInv, NEW w \in Workers, NEW rec, LockTypeOK', SetRun(w, rec),
         RunTypeOK(rec), rec.pc \notin {"locked", "loaded"},
         \A p \in rec.props : ProposalOK(rec, p),
         \A p \in rec.tprops : ProposalOK(rec, p) /\ rec.pc # "embed",
         UNCHANGED <<started, index>>,
         part' \in [PartIds -> Part], triple' \in [Triples -> OptStatus],
         nodeMap' \in [NodeIds -> [Datasets -> OptStatus]],
         \A x \in PartIds : part'[x].status = part[x].status \/ part'[x].status \in LlmStatus,
         \A t \in Triples : triple'[t] = triple[t] \/ triple'[t] \in LlmStatus
  PROVE  OntogenInv'
<1>1. \A x \in Workers : run'[x] = IF x = w THEN rec ELSE run[x]
  BY DEF SetRun, OntogenInv, OntogenTypeOK
<1>2. OntogenTypeOK'
  BY <1>1 DEF SetRun, OntogenInv, OntogenTypeOK
<1>3. RunOK'
  BY <1>1 DEF RunOK, OntogenInv
<1>4. ReviewOK' /\ EndorsedOK' /\ TriplePartsEndorsed'
  BY DEF SetRun, OntogenInv, ReviewOK, EndorsedOK, TriplePartsEndorsed, LlmStatus
<1> QED BY <1>2, <1>3, <1>4 DEF OntogenInv

\* What becomes of a node or an edge.
LEMMA NewPartOK ==
  ASSUME OntogenInv, NEW w \in Workers, NEW ps \in SUBSET run[w].props,
         run[w].pc # "embed", NEW x \in PartIds
  PROVE  /\ NewPart(ps, x) \in Part
         /\ \/ NewPart(ps, x).status = part[x].status
            \/ /\ part[x].status = "absent" /\ NewPart(ps, x).status \in LlmStatus
               /\ NewPart(ps, x).status = "llm_approved" => run[w].accepted
<1> DEFINE mine == {p \in ps : p.id = x /\ ~p.reuse /\ ValidId(x)}
           q == CHOOSE p \in mine : TRUE
<1>1. part[x] \in Part
  BY DEF OntogenInv, OntogenTypeOK
<1>2. CASE mine = {}
  BY <1>1, <1>2 DEF NewPart
<1>3. CASE mine # {}
  <2>1. q \in mine
    BY <1>3
  <2>2. q \in Proposal /\ ProposalOK(run[w], q)
    BY <2>1 DEF OntogenInv, OntogenTypeOK, RunTypeOK, RunOK
  <2>3. NewPart(ps, x) = IF ~Present(x) THEN [status |-> q.status, name |-> q.name]
                         ELSE IF x \in NodeIds THEN [part[x] EXCEPT !.name = q.name]
                         ELSE part[x]
    BY <1>3 DEF NewPart
  <2> HIDE DEF q, mine
  <2>4. q.name \in Terms /\ q.status \in Status
    BY <2>2 DEF Proposal
  <2> QED BY <1>1, <2>2, <2>3, <2>4 DEF Part, Present, OptStatus, ProposalOK
<1> QED BY <1>2, <1>3

\* The transaction that inserts nodes and writes their memberships.
LEMMA PersistNodesStep ==
  ASSUME OntogenInv, NEW w \in Workers, LockTypeOK', persist_nodes(w)
  PROVE  OntogenInv'
<1> DEFINE r == run[w]
           ps == {p \in r.props : p.id \in NodeIds}
           rec == [r EXCEPT !.pc = "edges", !.byName = NoNames, !.props = Unreused(@)]
<1>0. /\ RunTypeOK(r) /\ r.pc = "debated"
      /\ \A q \in r.props : ProposalOK(r, q)
      /\ \A q \in r.tprops : ProposalOK(r, q)
  BY DEF OntogenInv, OntogenTypeOK, RunOK, persist_nodes
<1>1. /\ rec.pc = "edges" /\ rec.byName = NoNames /\ rec.props = Unreused(r.props)
      /\ rec.tprops = r.tprops /\ rec.accepted = r.accepted /\ rec.dry = r.dry
  BY <1>0 DEF RunTypeOK
<1>2. \A p \in Unreused(r.props) : p \in Proposal /\ ProposalOK(rec, p)
  <2> SUFFICES ASSUME NEW q \in r.props PROVE LET p == [q EXCEPT !.maps = NoMaps] IN
                                              p \in Proposal /\ ProposalOK(rec, p)
    BY DEF Unreused
  <2>1. q \in Proposal /\ ProposalOK(r, q)
    BY <1>0 DEF RunTypeOK
  <2> HIDE DEF rec
  <2>2. [q EXCEPT !.maps = NoMaps] \in Proposal /\ [q EXCEPT !.maps = NoMaps].status = q.status
    <3>1. NoMaps \in [Datasets -> OptStatus]
      BY DEF NoMaps, OptStatus
    <3> QED BY <2>1, <3>1 DEF Proposal
  <2> QED BY <1>0, <1>1, <2>1, <2>2 DEF ProposalOK
<1>3. SetRun(w, rec) /\ UNCHANGED <<started, index, triple>>
  BY DEF persist_nodes
<1> HIDE DEF rec
<1>4. RunTypeOK(rec)
  BY <1>0, <1>1, <1>2 DEF RunTypeOK, NoNames
<1>5. \A p \in rec.tprops : ProposalOK(rec, p) /\ rec.pc # "embed"
  BY <1>0, <1>1 DEF ProposalOK
<1>6. part' = [x \in PartIds |-> NewPart(ps, x)]
  BY DEF persist_nodes
<1>7. /\ part' \in [PartIds -> Part]
      /\ \A x \in PartIds : part'[x].status = part[x].status \/ part'[x].status \in LlmStatus
  BY <1>0, <1>6, NewPartOK
<1>8. nodeMap' \in [NodeIds -> [Datasets -> OptStatus]]
  <2>1. ASSUME NEW n \in NodeIds, NEW d \in Datasets PROVE NewMaps(ps, n, d) \in OptStatus
    <3> DEFINE mine == {p \in ps : p.id = n /\ p.maps[d] # "absent"}
               q == CHOOSE p \in mine : TRUE
    <3>1. CASE mine = {}
      BY <3>1 DEF NewMaps, OntogenInv, OntogenTypeOK
    <3>2. CASE mine # {}
      <4>1. q \in Proposal /\ NewMaps(ps, n, d) = q.maps[d]
        BY <1>0, <3>2 DEF NewMaps, RunTypeOK
      <4> HIDE DEF q
      <4> QED BY <4>1 DEF Proposal
    <3> QED BY <3>1, <3>2
  <2>2. nodeMap' = [n \in NodeIds |-> [d \in Datasets |-> NewMaps(ps, n, d)]]
    BY DEF persist_nodes
  <2> QED BY <2>1, <2>2
<1>9. triple' \in [Triples -> OptStatus] /\ \A t \in Triples : triple'[t] = triple[t]
  BY <1>3 DEF OntogenInv, OntogenTypeOK
<1> HIDE DEF r, ps
<1> QED BY <1>1, <1>2, <1>3, <1>4, <1>5, <1>7, <1>8, <1>9, PersistStep

\* The transaction that inserts edges.
LEMMA PersistEdgesStep ==
  ASSUME OntogenInv, NEW w \in Workers, LockTypeOK', persist_edges(w)
  PROVE  OntogenInv'
<1> DEFINE r == run[w]
           ps == {p \in r.props : p.id \in EdgeIds}
           rec == [r EXCEPT !.pc = "triples", !.props = @ \ ps]
<1>0. /\ RunTypeOK(r) /\ r.pc = "edges"
      /\ \A q \in r.props : ProposalOK(r, q)
      /\ \A q \in r.tprops : ProposalOK(r, q)
  BY DEF OntogenInv, OntogenTypeOK, RunOK, persist_edges
<1>1. /\ rec.pc = "triples" /\ rec.byName = r.byName /\ rec.props \subseteq r.props
      /\ rec.tprops = r.tprops /\ rec.accepted = r.accepted /\ rec.dry = r.dry
  BY <1>0 DEF RunTypeOK
<1>2. SetRun(w, rec) /\ UNCHANGED <<started, index, triple, nodeMap>>
  BY DEF persist_edges
<1> HIDE DEF rec
<1>3. RunTypeOK(rec)
  BY <1>0, <1>1 DEF RunTypeOK
<1>4. /\ \A p \in rec.props : ProposalOK(rec, p)
      /\ \A p \in rec.tprops : ProposalOK(rec, p) /\ rec.pc # "embed"
  BY <1>0, <1>1 DEF ProposalOK
<1>5. part' = [x \in PartIds |-> NewPart(ps, x)]
  BY DEF persist_edges
<1>6. /\ part' \in [PartIds -> Part]
      /\ \A x \in PartIds : part'[x].status = part[x].status \/ part'[x].status \in LlmStatus
  BY <1>0, <1>5, NewPartOK
<1>7. /\ triple' \in [Triples -> OptStatus] /\ \A t \in Triples : triple'[t] = triple[t]
      /\ nodeMap' \in [NodeIds -> [Datasets -> OptStatus]]
  BY <1>2 DEF OntogenInv, OntogenTypeOK
<1> HIDE DEF r, ps
<1> QED BY <1>1, <1>2, <1>3, <1>4, <1>6, <1>7, PersistStep

\* What becomes of a triple.
LEMMA NewTripleOK ==
  ASSUME OntogenInv, NEW w \in Workers, persist_triples(w), NEW t \in Triples
  PROVE  /\ triple'[t] \in OptStatus
         /\ \/ triple'[t] = triple[t]
            \/ /\ triple[t] = "absent" /\ triple'[t] \in LlmStatus
               /\ triple'[t] = "llm_approved" => run[w].accepted
<1> DEFINE new == {p \in run[w].tprops : Insertable(p.id)}
           q == CHOOSE p \in new : p.id = t
<1>1. triple'[t] = IF \E p \in new : p.id = t THEN q.status ELSE triple[t]
  BY DEF persist_triples
<1>2. CASE \E p \in new : p.id = t
  <2>1. q \in run[w].tprops /\ Insertable(q.id) /\ q.id = t
    BY <1>2
  <2>2. q \in TripleProposal /\ ProposalOK(run[w], q) /\ run[w].pc = "triples"
    BY <2>1 DEF OntogenInv, OntogenTypeOK, RunTypeOK, RunOK, persist_triples
  <2>3. triple[t] = "absent" /\ triple'[t] = q.status
    BY <1>1, <1>2, <2>1 DEF Insertable
  <2> HIDE DEF q
  <2> QED BY <2>2, <2>3 DEF ProposalOK, LlmStatus, OptStatus, Status
<1>3. CASE ~(\E p \in new : p.id = t)
  BY <1>1, <1>3 DEF OntogenInv, OntogenTypeOK
<1> QED BY <1>2, <1>3

\* The transaction that inserts triples.
LEMMA PersistTriplesStep ==
  ASSUME OntogenInv, NEW w \in Workers, LockTypeOK', persist_triples(w)
  PROVE  OntogenInv'
<1> DEFINE r == run[w]
           rec == [r EXCEPT !.pc = "embed", !.tprops = {}, !.accepted = FALSE]
<1>0. /\ RunTypeOK(r)
      /\ \A q \in r.props : ProposalOK(r, q)
  BY DEF OntogenInv, OntogenTypeOK, RunOK
<1>1. /\ rec.pc = "embed" /\ rec.byName = r.byName /\ rec.props = r.props
      /\ rec.tprops = {} /\ rec.accepted = FALSE /\ rec.dry = r.dry
  BY <1>0 DEF RunTypeOK
<1>2. SetRun(w, rec) /\ UNCHANGED <<started, index, part, nodeMap>>
  BY DEF persist_triples
<1> HIDE DEF rec
<1>3. RunTypeOK(rec)
  BY <1>0, <1>1 DEF RunTypeOK
<1>4. /\ \A p \in rec.props : ProposalOK(rec, p)
      /\ \A p \in rec.tprops : ProposalOK(rec, p) /\ rec.pc # "embed"
  BY <1>0, <1>1 DEF ProposalOK
<1>5. /\ triple' \in [Triples -> OptStatus]
      /\ \A t \in Triples : triple'[t] = triple[t] \/ triple'[t] \in LlmStatus
  <2>1. DOMAIN triple' = Triples /\ triple' = [t \in Triples |-> triple'[t]]
    BY DEF persist_triples
  <2> QED BY <2>1, NewTripleOK
<1>6. /\ part' \in [PartIds -> Part]
      /\ nodeMap' \in [NodeIds -> [Datasets -> OptStatus]]
      /\ \A x \in PartIds : part'[x].status = part[x].status
  BY <1>2 DEF OntogenInv, OntogenTypeOK
<1> HIDE DEF r
<1> QED BY <1>1, <1>2, <1>3, <1>4, <1>5, <1>6, PersistStep

\* The index, after the transactions.
LEMMA RefreshStep ==
  ASSUME OntogenInv, NEW w \in Workers, LockTypeOK', NEW done \in SUBSET NodeIds,
         refresh_node_embeddings(w, done)
  PROVE  OntogenInv'
<1> DEFINE r == run[w]
           rec == [r EXCEPT !.pc = "done", !.props = {}]
<1>0. /\ RunTypeOK(r) /\ r.pc = "embed" /\ r.tprops = {}
      /\ started \in 0..MaxStarted /\ index \in [NodeIds -> OptStatus]
  BY DEF OntogenInv, OntogenTypeOK, RunOK, refresh_node_embeddings
<1>1. /\ rec.pc = "done" /\ rec.byName = r.byName /\ rec.props = {}
      /\ rec.tprops = {} /\ rec.accepted = r.accepted /\ rec.dry = r.dry
  BY <1>0 DEF RunTypeOK
<1>2. SetRun(w, rec) /\ UNCHANGED tables /\ started' = started
  BY DEF refresh_node_embeddings
<1>3. index' \in [NodeIds -> OptStatus]
  <2>1. ASSUME NEW n \in done PROVE (CHOOSE p \in r.props : p.id = n).status \in OptStatus
    <3>1. \E p \in r.props : p.id = n
      BY DEF refresh_node_embeddings
    <3>2. (CHOOSE p \in r.props : p.id = n) \in r.props
      BY <3>1
    <3>3. (CHOOSE p \in r.props : p.id = n) \in Proposal
      BY <1>0, <3>2 DEF RunTypeOK
    <3> QED BY <3>3 DEF Proposal, OptStatus
  <2> QED BY <1>0, <2>1 DEF refresh_node_embeddings
<1> HIDE DEF rec
<1>4. RunTypeOK(rec)
  BY <1>0, <1>1 DEF RunTypeOK
<1> HIDE DEF r
<1> QED BY <1>0, <1>1, <1>2, <1>3, <1>4, RecordStep

----------------------------------------------------------------------------
\* Reviews.

\* A step of a review that writes no table: its record must keep its shape.
LEMMA ReviewRecordStep ==
  ASSUME OntogenInv, NEW v \in Reviewers, NEW rec \in Review, LockTypeOK',
         rec.pc # "idle" => rec.verdict \in Verdicts, rec.seen \subseteq endorsed,
         started' \in 0..MaxStarted, SetReview(v, rec),
         UNCHANGED <<part, triple, nodeMap, endorsed>>
  PROVE  OntogenInv'
<1>1. \A u \in Reviewers : review'[u] = IF u = v THEN rec ELSE review[u]
  BY DEF SetReview, OntogenInv, OntogenTypeOK
<1>2. review' \in [Reviewers -> Review]
  BY DEF SetReview, OntogenInv, OntogenTypeOK
<1>3. OntogenTypeOK'
  BY <1>2 DEF SetReview, OntogenInv, OntogenTypeOK
<1>4. ReviewOK'
  BY <1>1 DEF ReviewOK, OntogenInv
<1>5. RunOK' /\ EndorsedOK' /\ TriplePartsEndorsed'
  BY DEF SetReview, OntogenInv, RunOK, EndorsedOK, TriplePartsEndorsed
<1> QED BY <1>3, <1>4, <1>5 DEF OntogenInv

\* The first read of a review.
LEMMA ReviewBegins ==
  ASSUME OntogenInv, NEW v \in Reviewers, LockTypeOK',
         \/ \E x \in PartIds, verdict \in Verdicts : review_part(v, x, verdict)
         \/ \E t \in Triples, verdict \in Verdicts : review_triple(v, t, verdict)
  PROVE  OntogenInv'
<1>1. ASSUME NEW x \in PartIds \cup Triples, NEW verdict \in Verdicts, NEW status \in OptStatus,
             NEW maps \in [Datasets -> OptStatus],
             Start, SetReview(v, ReviewOf(x, verdict, status, maps)),
             UNCHANGED <<part, triple, nodeMap, endorsed>>
      PROVE  OntogenInv'
  <2> DEFINE rec == ReviewOf(x, verdict, status, maps)
  <2>1. rec \in Review /\ rec.verdict = verdict /\ rec.seen = {}
    BY IdleReviewOK DEF ReviewOf, Review
  <2>2. started' \in 0..MaxStarted
    BY <1>1, OntogenAssumption DEF Start, OntogenInv, OntogenTypeOK
  <2> HIDE DEF rec
  <2> QED BY <1>1, <2>1, <2>2, ReviewRecordStep DEF rec
<1>2. ASSUME NEW x \in PartIds, NEW verdict \in Verdicts, review_part(v, x, verdict)
      PROVE  OntogenInv'
  <2> DEFINE maps == IF x \in NodeIds THEN nodeMap[x] ELSE NoMaps
  <2>1. part[x].status \in OptStatus
    BY DEF OntogenInv, OntogenTypeOK, Part
  <2>2. maps \in [Datasets -> OptStatus]
    BY DEF OntogenInv, OntogenTypeOK, NoMaps, OptStatus
  <2>3. /\ Start /\ SetReview(v, ReviewOf(x, verdict, part[x].status, maps))
        /\ UNCHANGED <<part, triple, nodeMap, endorsed>>
    BY <1>2 DEF review_part
  <2> HIDE DEF maps
  <2> QED BY <1>1, <2>1, <2>2, <2>3
<1>3. ASSUME NEW t \in Triples, NEW verdict \in Verdicts, review_triple(v, t, verdict)
      PROVE  OntogenInv'
  <2>1. triple[t] \in OptStatus /\ NoMaps \in [Datasets -> OptStatus]
    BY DEF OntogenInv, OntogenTypeOK, NoMaps, OptStatus
  <2> QED BY <1>1, <1>3, <2>1 DEF review_triple
<1> QED BY <1>2, <1>3

\* The memberships of a node.
LEMMA ReviewMapsStep ==
  ASSUME OntogenInv, NEW v \in Reviewers, LockTypeOK', review_maps(v)
  PROVE  OntogenInv'
<1> DEFINE r == review[v]
           maps == [d \in Datasets |-> IF nodeMap[r.id][d] # "absent" /\ r.maps[d] # "absent"
                                       THEN r.maps[d] ELSE nodeMap[r.id][d]]
           rec == [r EXCEPT !.pc = "maps", !.maps = maps]
<1>a. /\ r \in Review /\ r.verdict \in Verdicts /\ r.seen \subseteq endorsed
      /\ nodeMap[r.id] \in [Datasets -> OptStatus] /\ started \in 0..MaxStarted
  BY DEF review_maps, OntogenInv, OntogenTypeOK, ReviewOK
<1>b. r.maps \in [Datasets -> OptStatus]
  BY <1>a DEF Review
<1>1. /\ r \in Review /\ r.verdict \in Verdicts /\ r.seen \subseteq endorsed
      /\ maps \in [Datasets -> OptStatus] /\ started \in 0..MaxStarted
  BY <1>a, <1>b
<1>3. SetReview(v, rec) /\ UNCHANGED <<started, part, triple, nodeMap, endorsed>>
  BY DEF review_maps
<1> HIDE DEF maps
<1>2. rec \in Review /\ rec.verdict = r.verdict /\ rec.seen = r.seen
  BY <1>1 DEF Review
<1> HIDE DEF rec, r
<1> QED BY <1>1, <1>2, <1>3, ReviewRecordStep

\* A part that passes the gate is approved when it is read, and so has been endorsed.
LEMMA ReviewGateStep ==
  ASSUME OntogenInv, NEW v \in Reviewers, LockTypeOK', review_triple_gate(v)
  PROVE  OntogenInv'
<1> DEFINE r == review[v]
           x == NextPart(r.id, r.seen)
<1>1. /\ r \in Review /\ r.verdict \in Verdicts /\ r.seen \subseteq endorsed
      /\ r.id \in Triples /\ r.pc = "write" /\ started \in 0..MaxStarted
      /\ r.seen \subseteq PartIds
  BY DEF review_triple_gate, OntogenInv, OntogenTypeOK, ReviewOK, Review
<1>2. x \in PartIds
  <2>1. x \in PartsOf(r.id)
    BY DEF NextPart, PartsOf
  <2> QED BY <1>1, <2>1, IdFacts
<1>3. UNCHANGED <<started, part, triple, nodeMap, endorsed>>
  BY DEF review_triple_gate
<1>4. CASE Passes(x)
  <2> DEFINE rec == [r EXCEPT !.seen = @ \cup {x}]
  <2>1. x \in endorsed
    BY <1>2, <1>4 DEF Passes, OntogenInv, EndorsedOK
  <2>2. SetReview(v, rec)
    BY <1>4 DEF review_triple_gate
  <2> HIDE DEF x, r
  <2>3. rec \in Review /\ rec.verdict = r.verdict /\ rec.seen = r.seen \cup {x}
    BY <1>1, <1>2 DEF Review
  <2> HIDE DEF rec
  <2> QED BY <1>1, <1>3, <2>1, <2>2, <2>3, ReviewRecordStep
<1>5. CASE ~Passes(x)
  <2>1. SetReview(v, IdleReview)
    BY <1>5 DEF review_triple_gate
  <2> QED BY <1>1, <1>3, <2>1, IdleReviewOK, ReviewRecordStep
<1> QED BY <1>4, <1>5

\* What the commit of a review leaves in a status: itself, or the verdict.
LEMMA WrittenOK ==
  ASSUME OntogenInv, NEW v \in Reviewers, review[v].pc # "idle", NEW old \in OptStatus
  PROVE  /\ Written(review[v], old) \in OptStatus
         /\ \/ Written(review[v], old) = old
            \/ /\ Written(review[v], old) = review[v].verdict
               /\ review[v].verdict \in Verdicts
  BY DEF Written, OntogenInv, ReviewOK, Verdicts, OptStatus, Status

\* What the commit of a review does to a node or an edge.
LEMMA PartCommitOK ==
  ASSUME OntogenInv, NEW v \in Reviewers, review_part_commit(v), NEW x \in PartIds
  PROVE  /\ part'[x] \in Part
         /\ \/ part'[x].status = part[x].status
            \/ /\ x = review[v].id /\ part'[x].status = review[v].verdict
               /\ review[v].verdict \in Verdicts
<1> DEFINE r == review[v]
<1>1. part[x] \in Part /\ part \in [PartIds -> Part] /\ r.pc # "idle" /\ r.id \in PartIds
  BY DEF review_part_commit, OntogenInv, OntogenTypeOK
<1>2. part' = [part EXCEPT ![r.id].status = Written(r, @)]
  BY DEF review_part_commit
<1>3. CASE x = r.id
  <2>1. part[x].status \in OptStatus
    BY <1>1 DEF Part
  <2>2. part'[x] = [part[x] EXCEPT !.status = Written(r, part[x].status)]
    BY <1>1, <1>2, <1>3
  <2>3. part'[x].status = Written(r, part[x].status) /\ part'[x].name = part[x].name
    BY <1>1, <2>2 DEF Part
  <2>4. /\ Written(r, part[x].status) \in OptStatus
        /\ \/ Written(r, part[x].status) = part[x].status
           \/ Written(r, part[x].status) = r.verdict /\ r.verdict \in Verdicts
    BY <1>1, <2>1, WrittenOK
  <2>5. part'[x] \in Part
    BY <1>1, <2>2, <2>4 DEF Part
  <2> QED BY <1>3, <2>3, <2>4, <2>5
<1>4. CASE x # r.id
  BY <1>1, <1>2, <1>4
<1> QED BY <1>3, <1>4

\* The commit of a review of a node or an edge.
LEMMA PartCommitStep ==
  ASSUME OntogenInv, NEW v \in Reviewers, LockTypeOK', review_part_commit(v)
  PROVE  OntogenInv'
<1> DEFINE r == review[v]
<1>0. /\ r.id \in PartIds /\ r.verdict \in Verdicts
      /\ part \in [PartIds -> Part] /\ endorsed \subseteq PartIds
      /\ review \in [Reviewers -> Review]
  BY DEF review_part_commit, OntogenInv, OntogenTypeOK, ReviewOK
<1>1. /\ SetReview(v, IdleReview) /\ UNCHANGED <<triple, started>>
      /\ endorsed' = IF r.verdict = "approved" THEN endorsed \cup {r.id} ELSE endorsed
  BY DEF review_part_commit
<1>2. endorsed \subseteq endorsed' /\ endorsed' \subseteq PartIds
  BY <1>0, <1>1
<1>3. part' \in [PartIds -> Part]
  <2>1. DOMAIN part' = PartIds /\ part' = [x \in PartIds |-> part'[x]]
    BY <1>0 DEF review_part_commit
  <2> QED BY <2>1, PartCommitOK
<1>4. nodeMap' \in [NodeIds -> [Datasets -> OptStatus]]
  BY <1>0 DEF review_part_commit, OntogenInv, OntogenTypeOK, Verdicts, OptStatus, Status
<1>5. review' = [review EXCEPT ![v] = IdleReview] /\ IdleReview \in Review
  BY <1>1, IdleReviewOK DEF SetReview
<1>6. OntogenTypeOK'
  BY <1>0, <1>1, <1>2, <1>3, <1>4, <1>5 DEF SetReview, OntogenInv, OntogenTypeOK
<1>7. ReviewOK'
  BY <1>0, <1>2, <1>5 DEF OntogenInv, ReviewOK, IdleReview
<1>8. EndorsedOK'
  <2> SUFFICES ASSUME NEW x \in PartIds, part'[x].status = "approved" PROVE x \in endorsed'
    BY DEF EndorsedOK
  <2> QED BY <1>1, <1>2, PartCommitOK DEF OntogenInv, EndorsedOK
<1>9. RunOK' /\ TriplePartsEndorsed'
  BY <1>1, <1>2 DEF SetReview, OntogenInv, RunOK, TriplePartsEndorsed
<1> QED BY <1>6, <1>7, <1>8, <1>9 DEF OntogenInv

\* What the commit of a review does to a triple.
LEMMA TripleCommitOK ==
  ASSUME OntogenInv, NEW v \in Reviewers, review_triple_commit(v), NEW t \in Triples
  PROVE  /\ triple'[t] \in OptStatus
         /\ \/ triple'[t] = triple[t]
            \/ /\ t = review[v].id /\ triple'[t] = review[v].verdict
               /\ review[v].verdict \in Verdicts
  BY WrittenOK DEF review_triple_commit, OntogenInv, OntogenTypeOK

\* The commit of a review of a triple.
LEMMA TripleCommitStep ==
  ASSUME OntogenInv, NEW v \in Reviewers, LockTypeOK', review_triple_commit(v)
  PROVE  OntogenInv'
<1> DEFINE r == review[v]
<1>0. /\ r.pc = "write" /\ r.id \in Triples /\ r.verdict \in Verdicts
      /\ r.verdict = "approved" => PartsOf(r.id) \subseteq endorsed
      /\ review \in [Reviewers -> Review] /\ triple \in [Triples -> OptStatus]
  BY DEF review_triple_commit, OntogenInv, OntogenTypeOK, ReviewOK
<1>1. SetReview(v, IdleReview) /\ UNCHANGED <<started, part, nodeMap, endorsed>>
  BY DEF review_triple_commit
<1>2. triple' \in [Triples -> OptStatus]
  <2>1. DOMAIN triple' = Triples /\ triple' = [t \in Triples |-> triple'[t]]
    BY <1>0 DEF review_triple_commit
  <2> QED BY <2>1, TripleCommitOK
<1>3. review' = [review EXCEPT ![v] = IdleReview] /\ IdleReview \in Review
  BY <1>1, IdleReviewOK DEF SetReview
<1>4. OntogenTypeOK'
  BY <1>1, <1>2, <1>3 DEF SetReview, OntogenInv, OntogenTypeOK
<1>5. ReviewOK'
  BY <1>0, <1>1, <1>3 DEF OntogenInv, ReviewOK, IdleReview
<1>6. TriplePartsEndorsed'
  <2> SUFFICES ASSUME NEW t \in Triples, triple'[t] = "approved"
               PROVE  PartsOf(t) \subseteq endorsed'
    BY DEF TriplePartsEndorsed
  <2> QED BY <1>0, <1>1, TripleCommitOK DEF OntogenInv, TriplePartsEndorsed
<1>7. RunOK' /\ EndorsedOK'
  BY <1>1 DEF SetReview, OntogenInv, RunOK, EndorsedOK
<1> QED BY <1>4, <1>5, <1>6, <1>7 DEF OntogenInv

----------------------------------------------------------------------------
\* The induction.

\* No step of the specification leaves the invariant.
LEMMA InvStep == OntogenInv /\ [Next]_vars => OntogenInv'
<1> SUFFICES ASSUME OntogenInv, [Next]_vars PROVE OntogenInv'
  OBVIOUS
<1>0. LockTypeOK'
  BY LockTypeStep DEF OntogenInv, OntogenTypeOK
<1>1. CASE UNCHANGED vars
  BY <1>1, <1>0 DEF vars, tables, OntogenInv, OntogenTypeOK, RunOK, ReviewOK, EndorsedOK,
              TriplePartsEndorsed
<1>2. ASSUME NEW b \in Switches, put_conf(b) PROVE OntogenInv'
  <2>1. b \in BOOLEAN
    BY OntogenAssumption
  <2> QED BY <1>0, <1>2, <2>1 DEF put_conf, tables, OntogenInv, OntogenTypeOK, RunOK,
                                  ReviewOK, EndorsedOK, TriplePartsEndorsed
<1>3. ASSUME NEW w \in Workers, RunNext(w) PROVE OntogenInv'
  <2>1. CASE \E done \in SUBSET NodeIds : refresh_node_embeddings(w, done)
    BY <1>0, <2>1, RefreshStep
  <2>2. CASE persist_nodes(w) \/ persist_edges(w) \/ persist_triples(w)
    BY <1>0, <2>2, PersistNodesStep, PersistEdgesStep, PersistTriplesStep
  <2>3. CASE ProposalNext(w)
    BY <1>0, <2>3, ProposalStep
  <2>4. CASE \/ \E dry \in Dry : run_locked(w, dry)
             \/ run_refused(w) \/ run_disabled(w) \/ run_load(w)
             \/ \E accepted \in BOOLEAN : run_debate(w, accepted)
             \/ run_complete(w) \/ run_fails(w) \/ run_crashes(w)
    BY <1>0, <2>4, QuietRunStep
  <2> QED BY <1>3, <2>1, <2>2, <2>3, <2>4 DEF RunNext
<1>4. ASSUME NEW k \in Keys, lock_expires(k) PROVE OntogenInv'
  BY <1>0, <1>4 DEF lock_expires, tables, OntogenInv, OntogenTypeOK, RunOK, ReviewOK,
                    EndorsedOK, TriplePartsEndorsed
<1>5. ASSUME NEW v \in Reviewers, ReviewNext(v) PROVE OntogenInv'
  BY <1>0, <1>5, ReviewBegins, ReviewMapsStep, ReviewGateStep, PartCommitStep,
     TripleCommitStep DEF ReviewNext
<1> QED BY <1>1, <1>2, <1>3, <1>4, <1>5 DEF Next

\* How the statuses of the tables may change: a run inserts with a status of the LLM's,
\* a review writes a verdict, and nothing else writes one.
TablesStep ==
  LET accepted == \E w \in Workers : run[w].accepted /\ run'[w] # run[w] IN
  /\ \A x \in PartIds : StatusStep(part[x].status, part'[x].status, accepted)
  /\ \A t \in Triples : StatusStep(triple[t], triple'[t], accepted)

\* A transaction of a run, seen from the tables.
LEMMA PersistTables ==
  ASSUME OntogenInv, NEW w \in Workers,
         persist_nodes(w) \/ persist_edges(w) \/ persist_triples(w)
  PROVE  TablesStep
<1> DEFINE accepted == \E u \in Workers : run[u].accepted /\ run'[u] # run[u]
<1>0. run[w].pc \in {"debated", "edges", "triples"} /\ run'[w].pc # run[w].pc
  <2>1. PICK rec : /\ SetRun(w, rec) /\ rec.pc # run[w].pc
                   /\ run[w].pc \in {"debated", "edges", "triples"}
    <3>0. RunTypeOK(run[w])
      BY DEF OntogenInv, OntogenTypeOK
    <3>1. CASE persist_nodes(w)
      <4>1. [run[w] EXCEPT !.pc = "edges", !.byName = NoNames, !.props = Unreused(@)].pc
              = "edges"
        BY <3>0 DEF RunTypeOK
      <4> QED BY <3>1, <4>1 DEF persist_nodes
    <3>2. CASE persist_edges(w)
      <4>1. [run[w] EXCEPT !.pc = "triples",
                           !.props = @ \ {p \in run[w].props : p.id \in EdgeIds}].pc
              = "triples"
        BY <3>0 DEF RunTypeOK
      <4> QED BY <3>2, <4>1 DEF persist_edges
    <3>3. CASE persist_triples(w)
      <4>1. [run[w] EXCEPT !.pc = "embed", !.tprops = {}, !.accepted = FALSE].pc = "embed"
        BY <3>0 DEF RunTypeOK
      <4> QED BY <3>3, <4>1 DEF persist_triples
    <3> QED BY <3>1, <3>2, <3>3
  <2>2. run'[w] = rec
    BY <2>1 DEF SetRun, OntogenInv, OntogenTypeOK
  <2> QED BY <2>1, <2>2
<1>1. run[w].accepted => accepted
  BY <1>0
<1> HIDE DEF accepted
<1>2. ASSUME NEW x \in PartIds PROVE StatusStep(part[x].status, part'[x].status, accepted)
  <2>1. CASE persist_triples(w)
    BY <2>1 DEF persist_triples, StatusStep
  <2>2. ASSUME NEW ps \in SUBSET run[w].props, part'[x] = NewPart(ps, x)
        PROVE  StatusStep(part[x].status, part'[x].status, accepted)
    BY <1>0, <1>1, <2>2, NewPartOK DEF StatusStep
  <2>3. CASE persist_nodes(w)
    <3>1. part'[x] = NewPart({p \in run[w].props : p.id \in NodeIds}, x)
      BY <2>3 DEF persist_nodes
    <3> QED BY <3>1, <2>2
  <2>4. CASE persist_edges(w)
    <3>1. part'[x] = NewPart({p \in run[w].props : p.id \in EdgeIds}, x)
      BY <2>4 DEF persist_edges
    <3> QED BY <3>1, <2>2
  <2> QED BY <2>1, <2>3, <2>4
<1>3. ASSUME NEW t \in Triples PROVE StatusStep(triple[t], triple'[t], accepted)
  <2>1. CASE persist_triples(w)
    BY <1>1, <2>1, NewTripleOK DEF StatusStep
  <2>2. CASE persist_nodes(w) \/ persist_edges(w)
    BY <2>2 DEF persist_nodes, persist_edges, StatusStep
  <2> QED BY <2>1, <2>2
<1> QED BY <1>2, <1>3 DEF TablesStep, accepted

\* Every step, seen from the tables.
LEMMA EveryTablesStep == OntogenInv /\ [Next]_vars => TablesStep
<1> SUFFICES ASSUME OntogenInv, [Next]_vars PROVE TablesStep
  OBVIOUS
<1>0. ASSUME UNCHANGED <<part, triple>> PROVE TablesStep
  BY <1>0 DEF TablesStep, StatusStep
<1>1. CASE UNCHANGED vars
  BY <1>0, <1>1 DEF vars, tables
<1>2. ASSUME NEW b \in Switches, put_conf(b) PROVE TablesStep
  BY <1>0, <1>2 DEF put_conf, tables
<1>3. ASSUME NEW w \in Workers, RunNext(w) PROVE TablesStep
  <2>1. CASE persist_nodes(w) \/ persist_edges(w) \/ persist_triples(w)
    BY <2>1, PersistTables
  <2>2. CASE ProposalNext(w)
    BY <1>0, <2>2, ZenonT(60) DEF ProposalNext, propose_match, propose_new, propose_similar,
                      propose_triple, Propose, tables
  <2>3. CASE \/ \E dry \in Dry : run_locked(w, dry)
             \/ run_refused(w) \/ run_disabled(w) \/ run_load(w)
             \/ \E accepted \in BOOLEAN : run_debate(w, accepted)
             \/ \E done \in SUBSET NodeIds : refresh_node_embeddings(w, done)
             \/ run_complete(w) \/ run_fails(w) \/ run_crashes(w)
    BY <1>0, <2>3 DEF run_locked, run_refused, run_disabled, run_load, run_debate,
                      refresh_node_embeddings, run_complete, run_fails, run_crashes, tables
  <2> QED BY <1>3, <2>1, <2>2, <2>3 DEF RunNext
<1>4. ASSUME NEW k \in Keys, lock_expires(k) PROVE TablesStep
  BY <1>0, <1>4 DEF lock_expires, tables
<1>5. ASSUME NEW v \in Reviewers, ReviewNext(v) PROVE TablesStep
  <2>1. CASE review_part_commit(v)
    BY <2>1, PartCommitOK DEF review_part_commit, TablesStep, StatusStep
  <2>2. CASE review_triple_commit(v)
    BY <2>2, TripleCommitOK DEF review_triple_commit, TablesStep, StatusStep
  <2>3. CASE \/ \E x \in PartIds, verdict \in Verdicts : review_part(v, x, verdict)
             \/ \E t \in Triples, verdict \in Verdicts : review_triple(v, t, verdict)
             \/ review_maps(v) \/ review_triple_gate(v)
    BY <1>0, <2>3 DEF review_part, review_triple, review_maps, review_triple_gate
  <2> QED BY <1>5, <2>1, <2>2, <2>3 DEF ReviewNext
<1> QED BY <1>1, <1>2, <1>3, <1>4, <1>5 DEF Next

----------------------------------------------------------------------------
\* The theorems.

\* Type correctness of _run_inference, the reviews and the conf endpoints.
THEOREM OntogenTypeCorrect == Spec => []OntogenTypeOK
<1>1. OntogenInv => OntogenTypeOK
  BY DEF OntogenInv
<1> QED BY <1>1, InvInit, InvStep, PTL DEF Spec

\* Every part of an approved triple has been approved by a human, although review_triple
\* checks the gate in one step and commits in another, without locking the parts.
THEOREM PartsOfTriplesEndorsed == Spec => []TriplePartsEndorsed
<1>1. OntogenInv => TriplePartsEndorsed
  BY DEF OntogenInv
<1> QED BY <1>1, InvInit, InvStep, PTL DEF Spec

\* No run takes back a verdict on a node, an edge or a triple, whatever it has loaded
\* before the verdict and however many runs there are.
THEOREM HumanVerdictsStand == Spec => VerdictsStand
<1>1. OntogenInv /\ [Next]_vars =>
        [/\ \A x \in PartIds : part[x].status \in Verdicts => part'[x].status \in Verdicts
         /\ \A t \in Triples : triple[t] \in Verdicts => triple'[t] \in Verdicts]_vars
  BY EveryTablesStep DEF TablesStep, StatusStep, Verdicts
<1> QED BY <1>1, InvInit, InvStep, PTL DEF Spec, VerdictsStand

\* A row becomes llm_approved only in a transaction of a run whose debate was accepted:
\* status_for_outcome is applied before the transactions, to rows that later ones insert.
THEOREM VettedOnly == Spec => LlmApprovedIsVetted
<1>1. OntogenInv /\ [Next]_vars =>
        [(\/ \E x \in PartIds : part'[x].status = "llm_approved" /\ part[x].status # "llm_approved"
          \/ \E t \in Triples : triple'[t] = "llm_approved" /\ triple[t] # "llm_approved")
         => \E w \in Workers : run[w].accepted /\ run'[w] # run[w]]_vars
  BY EveryTablesStep DEF TablesStep, StatusStep, Verdicts
<1> QED BY <1>1, InvInit, InvStep, PTL DEF Spec, LlmApprovedIsVetted

\* Two runs of ontology generation at work at the same time: one has outlived its ttl.
THEOREM OntogenRunsExclusive == Spec => []Exclusive
<1>1. Init => LockInv
  BY LockInvInit DEF Init
<1>2. LockInv /\ [Next]_vars => LockInv'
  BY LockSteps, LockInvStep
<1> QED BY <1>1, <1>2, LockInvExclusive, PTL DEF Spec

\* Ontology generation implements the run lock, with its one key.
THEOREM OntogenImplementsLock == Spec => LockSpec
<1>1. Init => LockInit
  BY DEF Init
<1> QED BY <1>1, LockSteps, PTL DEF Spec, LockSpec

============================================================================

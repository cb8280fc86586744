---------------------------- MODULE DebateProofs ----------------------------
(* The debate, for any limits and any proposals of the models: it implements *)
(* Negotiation, what it stores was agreed, and the partition of a proposal    *)
(* leaves rows without errors.                                               *)
EXTENDS Debate, FiniteSetTheorems, FunctionTheorems, TLAPS

\* The phases and the turns: whose turn it is, and what the last entries of the
\* history say of the payload and of the outcome.
TurnInv ==
  /\ phase \in {"producer", "offered"} => turns % 2 = 0 /\ turns < max_turns
  /\ phase = "producer" => iteration < MaxIterations
  /\ phase = "reviewer" => turns % 2 = 1 /\ turns < max_turns
  /\ phase \in {"producer", "offered", "reviewer", "failed"} <=> outcome = "open"
  /\ phase # "done" => stored = {}
  /\ turns = 0 => payload = Nothing
  /\ turns % 2 = 1 => history[turns].offer = payload
  /\ turns % 2 = 0 /\ turns # 0 => history[turns - 1].offer = payload
  /\ outcome = "accept" => turns % 2 = 0 /\ turns # 0 /\ history[turns] = Reviewed("accept")

DebateInv == DebateTypeOK /\ TurnInv /\ StoredWasAgreed

------------------------------------------------------------------------------
\* The partition of a proposal.

\* The ranks of the members of a finite set of numbers are 1 up to its size, each once
\* and in order: an injection between sets of the same size.
LEMMA RankBijective ==
  ASSUME NEW set, set \subseteq Nat, IsFiniteSet(set)
  PROVE  /\ Cardinality(set) \in Nat
         /\ \A k \in set : Rank(set, k) \in 1 .. Cardinality(set)
         /\ \A k, l \in set : k < l => Rank(set, k) < Rank(set, l)
         /\ \A i \in 1 .. Cardinality(set) : \E k \in set : Rank(set, k) = i
<1> DEFINE Upto(k) == {j \in set : j <= k}
           n == Cardinality(set)
           f == [k \in set |-> Rank(set, k)]
<1>0. n \in Nat /\ \A k \in set : k \in Nat
  BY FS_CardinalityType
<1>1. ASSUME NEW k \in set
      PROVE  /\ Upto(k) \in SUBSET set /\ k \in Upto(k)
             /\ IsFiniteSet(Upto(k)) /\ Rank(set, k) = Cardinality(Upto(k)) /\ Rank(set, k) \in Nat
  BY <1>0, FS_Subset, FS_CardinalityType DEF Rank
<1>2. ASSUME NEW k \in set, NEW l \in set, k < l
      PROVE  Upto(k) \in SUBSET Upto(l) /\ l \notin Upto(k)
  <2>1. k \in Nat /\ l \in Nat
    BY <1>0
  <2>2. ASSUME NEW j \in Upto(k) PROVE j \in Upto(l)
    BY <1>0, <1>2, <2>1
  <2>3. l \notin Upto(k)
    BY <1>2, <2>1
  <2> QED BY <2>2, <2>3
<1> HIDE DEF Upto, n, f
<1>3. ASSUME NEW k \in set PROVE Rank(set, k) \in 1 .. n
  <2>1. Cardinality(Upto(k)) <= n
    BY <1>1, FS_Subset DEF n
  <2>2. Cardinality(Upto(k)) # 0
    BY <1>1, FS_EmptySet
  <2> QED BY <1>0, <1>1, <2>1, <2>2
<1>4. ASSUME NEW k \in set, NEW l \in set, k < l PROVE Rank(set, k) < Rank(set, l)
  <2>1. Cardinality(Upto(k)) <= Cardinality(Upto(l)) /\ Cardinality(Upto(k)) # Cardinality(Upto(l))
    BY <1>1, <1>2, <1>4, FS_Subset
  <2> QED BY <1>1, <2>1
<1>5. \A i \in 1 .. n : \E k \in set : Rank(set, k) = i
  <2>1. f \in [set -> 1 .. n]
    BY <1>3 DEF f
  <2>2. ASSUME NEW k \in set, NEW l \in set, f[k] = f[l] PROVE k = l
    <3>1. k \in Nat /\ l \in Nat /\ Rank(set, k) = Rank(set, l) /\ Rank(set, k) \in Nat
      BY <1>0, <1>1, <2>2 DEF f
    <3>2. ~(k < l) /\ ~(l < k)
      BY <3>1, <1>4
    <3> QED BY <3>1, <3>2
  <2>3. f \in Injection(set, 1 .. n)
    BY <2>1, <2>2 DEF Injection, IsInjective
  <2>4. IsFiniteSet(1 .. n) /\ Cardinality(1 .. n) = n
    BY <1>0, FS_Interval
  <2>5. f \in Surjection(set, 1 .. n)
    BY <2>3, <2>4, FS_Injection DEF n
  <2> QED BY <2>5 DEF Surjection, f
<1> QED BY <1>0, <1>3, <1>4, <1>5 DEF n

\* o gives the index in rows of each row that is left: none of the bad ones, all of the
\* others, in their order.
Origin(o, rows, bad, left) ==
  /\ o \in [DOMAIN left -> Kept(rows, bad)]
  /\ \A i \in DOMAIN left : left[i] = rows[o[i]]
  /\ \A i, j \in DOMAIN left : i < j => o[i] < o[j]
  /\ \A k \in Kept(rows, bad) : \E i \in DOMAIN left : o[i] = k

\* What Without leaves are rows of the original, and each has an origin.
LEMMA WithoutKeeps ==
  ASSUME NEW S, NEW rows \in Seq(S), NEW bad, NEW left, left = Without(rows, bad)
  PROVE  left \in Seq(S) /\ \E o : Origin(o, rows, bad, left)
<1> DEFINE set == Kept(rows, bad)
           n == Cardinality(set)
           o == [i \in 1 .. n |-> CHOOSE k \in set : Rank(set, k) = i]
<1>1. set \subseteq Nat /\ IsFiniteSet(set) /\ \A k \in set : rows[k] \in S
  <2>1. set \in SUBSET (1 .. Len(rows)) /\ Len(rows) \in Nat
    BY DEF Kept
  <2>2. IsFiniteSet(1 .. Len(rows))
    BY <2>1, FS_Interval
  <2>3. IsFiniteSet(set)
    BY <2>1, <2>2, FS_Subset
  <2> QED BY <2>1, <2>3
<1> HIDE DEF set
<1>2. /\ n \in Nat
      /\ \A k \in set : Rank(set, k) \in 1 .. n
      /\ \A k, l \in set : k < l => Rank(set, k) < Rank(set, l)
      /\ \A i \in 1 .. n : \E k \in set : Rank(set, k) = i
  BY <1>1, RankBijective
<1> HIDE DEF n
<1>3. \A i \in 1 .. n : o[i] \in set /\ Rank(set, o[i]) = i
  BY <1>2
<1>4. left = [i \in 1 .. n |-> rows[o[i]]]
  BY DEF Without, n, set
<1> HIDE DEF o
<1>5. left \in Seq(S) /\ DOMAIN left = 1 .. n
  <2>1. left \in [1 .. n -> S]
    BY <1>1, <1>3, <1>4
  <2>2. n \in Nat
    BY <1>2
  <2> QED BY <2>1, <2>2
<1>6. o \in [1 .. n -> set]
  BY <1>3 DEF o
<1>7. ASSUME NEW i \in 1 .. n, NEW j \in 1 .. n, i < j PROVE o[i] < o[j]
  <2>1. o[i] \in set /\ o[j] \in set /\ o[i] \in Nat /\ o[j] \in Nat
    BY <1>1, <1>3
  <2>3. i \in Nat /\ j \in Nat /\ Rank(set, o[i]) = i /\ Rank(set, o[j]) = j
    BY <1>2, <1>3
  <2>2. ~(o[j] < o[i]) /\ o[i] # o[j]
    BY <1>2, <1>7, <2>1, <2>3
  <2> QED BY <2>1, <2>2
<1>8. ASSUME NEW k \in set PROVE \E i \in 1 .. n : o[i] = k
  <2> DEFINE i == Rank(set, k)
  <2>1. i \in 1 .. n
    BY <1>2
  <2>2. o[i] \in set /\ Rank(set, o[i]) = i
    BY <1>3, <2>1
  <2>3. o[i] \in Nat /\ k \in Nat
    BY <1>1, <2>2
  <2> HIDE DEF i
  <2>4. ~(o[i] < k) /\ ~(k < o[i])
    <3>1. n \in Nat /\ i \in 1 .. n
      BY <1>2, <2>1
    <3>2. ~(o[i] < k)
      BY <1>2, <2>2, <2>3, <3>1 DEF i
    <3>3. ~(k < o[i])
      BY <1>2, <2>2, <2>3, <3>1 DEF i
    <3> QED BY <3>2, <3>3
  <2> QED BY <2>1, <2>3, <2>4
<1> QED
  <2>1. Origin(o, rows, bad, left)
    BY <1>4, <1>5, <1>6, <1>7, <1>8 DEF set, Origin
  <2> QED BY <1>5, <2>1

\* An error marks its row as bad.
LEMMA ErrorMarks ==
  ASSUME NEW errors, NEW c, NEW i, NEW code, Error(c, i, code) \in errors
  PROVE  i \in BadRows(c, errors)
<1>1. Error(c, i, code).of = c /\ Error(c, i, code).at = i
  BY DEF Error
<1> QED BY <1>1 DEF BadRows

Nodes == [id : STRING, urns : SUBSET STRING, score : Scores]
Edges == [id : STRING, score : Scores]
Triples == [s : STRING, e : STRING, o : STRING, score : Scores]

\* The errors of a proposal that has the schema's form, by rule.
LEMMA ErrorsByRule ==
  ASSUME NEW out \in OntogenSchema
  PROVE  /\ OntogenOutput(out) = out /\ out # Malformed
         /\ validate_ontogen_output(out) =
              _check_slug("nodes", out.nodes) \cup _check_slug("edges", out.edges)
                \cup Duplicates("nodes", out.nodes) \cup Duplicates("edges", out.edges)
                \cup UnknownRefs(out) \cup Provenance(out.nodes) \cup DupTriples(out.triples)
<1>1. out.form = "rows"
  BY DEF OntogenSchema
<1>2. out # Nothing /\ out # Malformed
  BY <1>1 DEF Nothing, Malformed
<1>3. OntogenOutput(out) = out
  BY <1>2 DEF OntogenOutput
<1> QED BY <1>2, <1>3 DEF validate_ontogen_output

\* partition_clean_rows: what is left of a proposal once the rows with errors and the
\* triples that refer to them are dropped has no error, for every proposal.
THEOREM PartitionLeavesNoError ==
  ASSUME NEW out \in OntogenSchema
  PROVE  validate_ontogen_output(partition_clean_rows(out, validate_ontogen_output(out))) = {}
<1> DEFINE errors == validate_ontogen_output(out)
           clean == partition_clean_rows(out, errors)
           badN == BadRows("nodes", errors)
           badE == BadRows("edges", errors)
           cascaded == {i \in DOMAIN out.triples : \/ out.triples[i].s \in IdsAt(out.nodes, badN)
                                                 \/ out.triples[i].o \in IdsAt(out.nodes, badN)
                                                 \/ out.triples[i].e \in IdsAt(out.edges, badE)}
           badT == BadRows("triples", errors) \cup cascaded
<1>1. out.nodes \in Seq(Nodes) /\ out.edges \in Seq(Edges) /\ out.triples \in Seq(Triples)
  BY DEF OntogenSchema, Nodes, Edges, Triples
<1>2. /\ clean.nodes = Without(out.nodes, badN)
      /\ clean.edges = Without(out.edges, badE)
      /\ clean.triples = Without(out.triples, badT)
      /\ clean.form = "rows"
      /\ clean = [out EXCEPT !.nodes = Without(out.nodes, badN), !.edges = Without(out.edges, badE),
                            !.triples = Without(out.triples, badT)]
  BY DEF partition_clean_rows, OntogenSchema
<1> HIDE DEF errors, clean, badN, badE, cascaded, badT
<1>n. PICK on : Origin(on, out.nodes, badN, clean.nodes)
  <2>1. out.nodes \in Seq(Nodes) /\ clean.nodes = Without(out.nodes, badN)
    BY <1>1, <1>2
  <2> QED BY <2>1, WithoutKeeps
<1>e. PICK oe : Origin(oe, out.edges, badE, clean.edges)
  <2>1. out.edges \in Seq(Edges) /\ clean.edges = Without(out.edges, badE)
    BY <1>1, <1>2
  <2> QED BY <2>1, WithoutKeeps
<1>t. PICK ot : Origin(ot, out.triples, badT, clean.triples)
  <2>1. out.triples \in Seq(Triples) /\ clean.triples = Without(out.triples, badT)
    BY <1>1, <1>2
  <2> QED BY <2>1, WithoutKeeps
<1>3. clean.nodes \in Seq(Nodes) /\ clean.edges \in Seq(Edges) /\ clean.triples \in Seq(Triples)
  BY <1>1, <1>2, WithoutKeeps
<1>4. clean \in OntogenSchema
  BY <1>2, <1>3 DEF OntogenSchema, Nodes, Edges, Triples
<1>5. errors = _check_slug("nodes", out.nodes) \cup _check_slug("edges", out.edges)
                \cup Duplicates("nodes", out.nodes) \cup Duplicates("edges", out.edges)
                \cup UnknownRefs(out) \cup Provenance(out.nodes) \cup DupTriples(out.triples)
  BY ErrorsByRule DEF errors
<1>6. _check_slug("nodes", clean.nodes) = {} /\ Provenance(clean.nodes) = {}
  <2> SUFFICES ASSUME NEW i \in DOMAIN clean.nodes
               PROVE  /\ clean.nodes[i].id \notin BadSlugs
                      /\ clean.nodes[i].urns # {} /\ clean.nodes[i].urns \subseteq InScope
    BY DEF _check_slug, Provenance
  <2>1. on[i] \in DOMAIN out.nodes /\ on[i] \notin badN /\ clean.nodes[i] = out.nodes[on[i]]
    BY <1>n DEF Kept, Origin
  <2>2. out.nodes[on[i]].id \notin BadSlugs
    BY <1>5, <2>1, ErrorMarks DEF badN, _check_slug
  <2>3. out.nodes[on[i]].urns # {}
    BY <1>5, <2>1, ErrorMarks DEF badN, Provenance
  <2>4. out.nodes[on[i]].urns \subseteq InScope
    BY <1>5, <2>1, ErrorMarks, ZenonT(60) DEF badN, Provenance
  <2> QED BY <2>1, <2>2, <2>3, <2>4
<1>7. _check_slug("edges", clean.edges) = {}
  <2> SUFFICES ASSUME NEW i \in DOMAIN clean.edges
               PROVE  clean.edges[i].id \notin BadSlugs
    BY DEF _check_slug
  <2>1. oe[i] \in DOMAIN out.edges /\ oe[i] \notin badE /\ clean.edges[i] = out.edges[oe[i]]
    BY <1>e DEF Kept, Origin
  <2> QED BY <1>5, <2>1, ErrorMarks DEF badE, _check_slug
<1>8. Duplicates("nodes", clean.nodes) = {}
  <2> SUFFICES ASSUME NEW j \in DOMAIN clean.nodes, NEW k \in 1 .. j - 1,
                      clean.nodes[j].id # NoId, clean.nodes[k].id = clean.nodes[j].id
               PROVE  FALSE
    BY DEF Duplicates
  <2>1. k \in DOMAIN clean.nodes /\ k < j
    BY <1>3
  <2>2. on[k] < on[j] /\ on[k] \in Kept(out.nodes, badN) /\ on[j] \in Kept(out.nodes, badN)
    BY <1>n, <2>1 DEF Origin
  <2>3. on[j] \in DOMAIN out.nodes /\ on[j] \notin badN /\ on[k] \in 1 .. on[j] - 1
    BY <1>1, <2>2 DEF Kept
  <2>4. out.nodes[on[j]].id # NoId /\ out.nodes[on[k]].id = out.nodes[on[j]].id
    BY <1>n, <2>1 DEF Origin
  <2>5. Error("nodes", on[j], "DUP_ID") \in errors
    BY <1>5, <2>3, <2>4 DEF Duplicates
  <2> QED BY <2>3, <2>5, ErrorMarks DEF badN
<1>9. Duplicates("edges", clean.edges) = {}
  <2> SUFFICES ASSUME NEW j \in DOMAIN clean.edges, NEW k \in 1 .. j - 1,
                      clean.edges[j].id # NoId, clean.edges[k].id = clean.edges[j].id
               PROVE  FALSE
    BY DEF Duplicates
  <2>1. k \in DOMAIN clean.edges /\ k < j
    BY <1>3
  <2>2. oe[k] < oe[j] /\ oe[k] \in Kept(out.edges, badE) /\ oe[j] \in Kept(out.edges, badE)
    BY <1>e, <2>1 DEF Origin
  <2>3. oe[j] \in DOMAIN out.edges /\ oe[j] \notin badE /\ oe[k] \in 1 .. oe[j] - 1
    BY <1>1, <2>2 DEF Kept
  <2>4. out.edges[oe[j]].id # NoId /\ out.edges[oe[k]].id = out.edges[oe[j]].id
    BY <1>e, <2>1 DEF Origin
  <2>5. Error("edges", oe[j], "DUP_ID") \in errors
    BY <1>5, <2>3, <2>4 DEF Duplicates
  <2> QED BY <2>3, <2>5, ErrorMarks DEF badE
<1>10. DupTriples(clean.triples) = {}
  <2> SUFFICES ASSUME NEW j \in DOMAIN clean.triples, NEW k \in 1 .. j - 1,
                      Parts(clean.triples[k]) = Parts(clean.triples[j])
               PROVE  FALSE
    BY DEF DupTriples
  <2>1. k \in DOMAIN clean.triples /\ k < j
    BY <1>3
  <2>2. ot[k] < ot[j] /\ ot[k] \in Kept(out.triples, badT) /\ ot[j] \in Kept(out.triples, badT)
    BY <1>t, <2>1 DEF Origin
  <2>3. ot[j] \in DOMAIN out.triples /\ ot[j] \notin badT /\ ot[k] \in 1 .. ot[j] - 1
    BY <1>1, <2>2 DEF Kept
  <2>4. Parts(out.triples[ot[k]]) = Parts(out.triples[ot[j]])
    BY <1>t, <2>1 DEF Origin
  <2>5. Error("triples", ot[j], "DUP_TRIPLE") \in errors
    BY <1>5, <2>3, <2>4 DEF DupTriples
  <2> QED BY <2>3, <2>5, ErrorMarks DEF badT
\* A triple that is left refers to rows that are left: all rows with that id are.
<1>11. UnknownRefs(clean) = {}
  <2> SUFFICES ASSUME NEW i \in DOMAIN clean.triples
               PROVE  /\ {clean.triples[i].s, clean.triples[i].o} \subseteq Ids(clean.nodes)
                      /\ clean.triples[i].e \in Ids(clean.edges)
    BY DEF UnknownRefs
  <2> DEFINE t == out.triples[ot[i]]
  <2>1. ot[i] \in DOMAIN out.triples /\ ot[i] \notin badT /\ clean.triples[i] = t
    BY <1>t DEF Kept, Origin
  <2>2. {t.s, t.o} \subseteq Ids(out.nodes)
    BY <1>5, <2>1, ErrorMarks DEF badT, UnknownRefs
  <2>3. t.e \in Ids(out.edges)
    BY <1>5, <2>1, ErrorMarks, ZenonT(60) DEF badT, UnknownRefs
  <2>4. t.s \notin IdsAt(out.nodes, badN) /\ t.o \notin IdsAt(out.nodes, badN) /\ t.e \notin IdsAt(out.edges, badE)
    BY <2>1 DEF badT, cascaded
  <2>5. ASSUME NEW x \in Ids(out.nodes), x \notin IdsAt(out.nodes, badN) PROVE x \in Ids(clean.nodes)
    <3>1. PICK k \in DOMAIN out.nodes : out.nodes[k].id = x
      BY <2>5 DEF Ids
    <3>2. k \in Kept(out.nodes, badN)
      BY <2>5, <3>1 DEF Kept, IdsAt
    <3>3. PICK j \in DOMAIN clean.nodes : on[j] = k
      BY <1>n, <3>2 DEF Origin
    <3> QED BY <1>n, <3>1, <3>3 DEF Ids, Origin
  <2>6. ASSUME NEW x \in Ids(out.edges), x \notin IdsAt(out.edges, badE) PROVE x \in Ids(clean.edges)
    <3>1. PICK k \in DOMAIN out.edges : out.edges[k].id = x
      BY <2>6 DEF Ids
    <3>2. k \in Kept(out.edges, badE)
      BY <2>6, <3>1 DEF Kept, IdsAt
    <3>3. PICK j \in DOMAIN clean.edges : oe[j] = k
      BY <1>e, <3>2 DEF Origin
    <3> QED BY <1>e, <3>1, <3>3 DEF Ids, Origin
  <2> HIDE DEF t
  <2> QED BY <2>1, <2>2, <2>3, <2>4, <2>5, <2>6
<1>12. validate_ontogen_output(clean) = {}
  BY <1>4, <1>6, <1>7, <1>8, <1>9, <1>10, <1>11, ErrorsByRule
<1> QED BY <1>12 DEF clean, errors

------------------------------------------------------------------------------
\* The turns.

LEMMA DebateInit == Init => DebateInv
<1> SUFFICES ASSUME Init PROVE DebateInv
  OBVIOUS
<1>1. DebateTypeOK
  <2>1. max_turns \in 2 .. MaxTurns /\ 0 \in 0 .. max_turns /\ 0 \in 0 .. MaxIterations
    BY DebateAssumption DEF Init
  <2>2. history \in Seq(Entry) /\ Len(history) = 0 /\ DOMAIN history = {}
    BY DEF Init
  <2> QED BY <2>1, <2>2 DEF Init, DebateTypeOK, Phases, Payloads
<1>2. TurnInv
  BY DebateAssumption DEF Init, TurnInv
<1>3. StoredWasAgreed
  BY DEF Init, StoredWasAgreed
<1> QED BY <1>1, <1>2, <1>3 DEF DebateInv

\* One iteration of the Producer's loop: it never passes MaxIterations.
LEMMA IterationStep ==
  ASSUME DebateInv, phase = "producer",
         no_proposal \/ invalid_proposal \/ valid_proposal
  PROVE  /\ DebateInv'
         /\ UNCHANGED <<service, max_turns, payload, turns, history, outcome, stored>>
         /\ phase' \in {"producer", "offered"}
<1>1. PICK p \in Payloads(service), accepted \in BOOLEAN : Iterated(p, accepted)
  <2>1. CASE no_proposal
    BY <2>1 DEF no_proposal, DebateInv, DebateTypeOK
  <2>2. CASE invalid_proposal \/ valid_proposal
    BY <2>2 DEF invalid_proposal, valid_proposal, Payloads
  <2> QED BY <2>1, <2>2
<1>2. /\ UNCHANGED <<service, max_turns, payload, turns, history, outcome, stored>>
      /\ iteration' = iteration + 1 /\ proposed' = p
      /\ phase' \in {"producer", "offered"}
      /\ phase' = "producer" => iteration' # MaxIterations
  BY <1>1 DEF Iterated
<1>3. iteration + 1 \in 0 .. MaxIterations
  BY DebateAssumption DEF DebateInv, DebateTypeOK, TurnInv
<1>4. DebateTypeOK'
  BY <1>2, <1>3 DEF DebateInv, DebateTypeOK, Entry, Payloads, Proposals, Phases
<1>5. TurnInv'
  <2>1. iteration' \in 0 .. MaxIterations /\ (phase' = "producer" => iteration' < MaxIterations)
    BY <1>2, <1>3, DebateAssumption
  <2> QED BY <1>2, <2>1 DEF DebateInv, TurnInv
<1>6. StoredWasAgreed'
  BY <1>2 DEF DebateInv, StoredWasAgreed, Range
<1> QED BY <1>2, <1>4, <1>5, <1>6 DEF DebateInv

\* What a turn adds to the history.
LEMMA HistoryGrows ==
  ASSUME DebateInv, NEW e \in Entry, history' = Append(history, e), turns' = turns + 1,
         turns < max_turns, UNCHANGED service,
         e.actor = IF turns % 2 = 0 THEN "producer" ELSE "reviewer"
  PROVE  /\ history' \in Seq(Entry') /\ Len(history') = turns' /\ turns' \in 0 .. max_turns
         /\ history'[turns'] = e
         /\ \A i \in DOMAIN history : i \in DOMAIN history' /\ history'[i] = history[i]
         /\ DOMAIN history' = DOMAIN history \cup {turns'}
         /\ \A i \in DOMAIN history' : history'[i].actor = IF i % 2 = 1 THEN "producer" ELSE "reviewer"
<1>1. turns \in Nat /\ max_turns \in Nat /\ history \in Seq(Entry) /\ Len(history) = turns
  BY DebateAssumption DEF DebateInv, DebateTypeOK
<1>2. /\ history' \in Seq(Entry) /\ Len(history') = turns' /\ turns' \in 0 .. max_turns
      /\ history'[turns'] = e
      /\ \A i \in DOMAIN history : i \in DOMAIN history' /\ history'[i] = history[i]
      /\ DOMAIN history' = DOMAIN history \cup {turns'}
  BY <1>1
<1>3. Entry' = Entry
  BY DEF Entry, Payloads, Proposals
<1>4. \A i \in DOMAIN history : history[i].actor = IF i % 2 = 1 THEN "producer" ELSE "reviewer"
  BY DEF DebateInv, DebateTypeOK
<1>5. e.actor = IF turns' % 2 = 1 THEN "producer" ELSE "reviewer"
  BY <1>1
<1> QED BY <1>2, <1>3, <1>4, <1>5

LEMMA ProducerTurn == ASSUME DebateInv, producer_turn PROVE DebateInv'
<1>1. /\ phase = "offered" /\ payload' = proposed /\ history' = Append(history, Offered(proposed))
      /\ turns' = turns + 1
      /\ UNCHANGED <<service, max_turns, iteration, proposed, stored>>
      /\ outcome' \in {"cycle_detected", "turns_exhausted", outcome}
      /\ outcome' = "open" => turns' < max_turns
      /\ phase' = IF outcome' = "open" THEN "reviewer" ELSE "over"
  <2>1. turns + 1 \in Int /\ max_turns \in Int
    BY DebateAssumption DEF DebateInv, DebateTypeOK
  <2> QED BY <2>1 DEF producer_turn, Exhausted
<1>2. turns % 2 = 0 /\ turns < max_turns /\ outcome = "open" /\ stored = {} /\ turns \in Nat
  BY <1>1 DEF DebateInv, TurnInv, DebateTypeOK
<1>3. Offered(proposed) \in Entry /\ Offered(proposed).actor = "producer" /\ Offered(proposed).offer = proposed
  BY DEF Offered, Entry, DebateInv, DebateTypeOK
<1>4. /\ history' \in Seq(Entry') /\ Len(history') = turns' /\ turns' \in 0 .. max_turns
      /\ history'[turns'] = Offered(proposed)
      /\ \A i \in DOMAIN history' : history'[i].actor = IF i % 2 = 1 THEN "producer" ELSE "reviewer"
  BY <1>1, <1>2, <1>3, HistoryGrows
<1>5. DebateTypeOK'
  BY <1>1, <1>2, <1>4 DEF DebateInv, DebateTypeOK, Payloads, Proposals, Phases, Outcomes
<1>6. turns' % 2 = 1 /\ turns' # 0
  BY <1>1, <1>2
<1>7. TurnInv'
  BY <1>1, <1>2, <1>3, <1>4, <1>6 DEF TurnInv
<1>8. StoredWasAgreed'
  BY <1>1, <1>2 DEF StoredWasAgreed
<1> QED BY <1>5, <1>7, <1>8 DEF DebateInv

LEMMA ReviewerTurn == ASSUME DebateInv, reviewer_turn PROVE DebateInv'
<1>1. PICK v \in Verdicts :
        /\ phase = "reviewer" /\ history' = Append(history, Reviewed(v)) /\ turns' = turns + 1
        /\ iteration' = 0 /\ proposed' = Nothing
        /\ UNCHANGED <<service, max_turns, payload, stored>>
        /\ outcome' \in {"accept", "turns_exhausted", outcome}
        /\ outcome' = "accept" => v = "accept" \/ outcome = "accept"
        /\ outcome' = "open" => turns' < max_turns
        /\ phase' = IF outcome' = "open" THEN "producer" ELSE "over"
  <2>1. turns + 1 \in Int /\ max_turns \in Int
    BY DebateAssumption DEF DebateInv, DebateTypeOK
  <2> QED BY <2>1 DEF reviewer_turn, Exhausted
<1>2. turns % 2 = 1 /\ turns < max_turns /\ outcome = "open" /\ stored = {} /\ turns \in Nat
  BY <1>1 DEF DebateInv, TurnInv, DebateTypeOK
<1>3. Reviewed(v) \in Entry /\ Reviewed(v).actor = "reviewer"
  BY DEF Reviewed, Entry, Payloads
<1>4. /\ history' \in Seq(Entry') /\ Len(history') = turns' /\ turns' \in 0 .. max_turns
      /\ history'[turns'] = Reviewed(v)
      /\ \A i \in DOMAIN history : history'[i] = history[i]
      /\ \A i \in DOMAIN history' : history'[i].actor = IF i % 2 = 1 THEN "producer" ELSE "reviewer"
  BY <1>1, <1>2, <1>3, HistoryGrows
<1>5. DebateTypeOK'
  BY <1>1, <1>2, <1>4, DebateAssumption DEF DebateInv, DebateTypeOK, Payloads, Proposals, Phases, Outcomes
<1>6. turns' % 2 = 0 /\ turns' # 0 /\ turns' - 1 = turns
  BY <1>1, <1>2
<1>7. history'[turns].offer = payload
  <2>1. turns \in DOMAIN history
    BY <1>2 DEF DebateInv, DebateTypeOK
  <2> QED BY <1>2, <1>4, <2>1 DEF DebateInv, TurnInv
<1>8. TurnInv'
  BY <1>1, <1>2, <1>4, <1>6, <1>7, DebateAssumption DEF TurnInv
<1>9. StoredWasAgreed'
  BY <1>1, <1>2 DEF StoredWasAgreed
<1> QED BY <1>5, <1>8, <1>9 DEF DebateInv

LEMMA CallFails == ASSUME DebateInv, call_fails PROVE DebateInv'
<1>1. DebateTypeOK'
  BY DEF call_fails, DebateInv, DebateTypeOK, Phases, Entry, Payloads, Proposals
<1>2. TurnInv'
  BY DEF call_fails, DebateInv, TurnInv
<1>3. StoredWasAgreed'
  BY DEF call_fails, DebateInv, StoredWasAgreed, Range
<1> QED BY <1>1, <1>2, <1>3 DEF DebateInv

------------------------------------------------------------------------------
\* What is stored.

\* A payload with rows has the form of its service's schema.
LEMMA PayloadForm ==
  ASSUME DebateInv
  PROVE  /\ service = "ontogen" => payload \in OntogenSchema \cup {Malformed, Nothing}
         /\ service = "metagen" => payload \in MetagenSchema \cup {Malformed, Nothing}
         /\ service = "ontogen" => proposed \in OntogenSchema \cup {Malformed, Nothing}
  BY DebateAssumption DEF DebateInv, DebateTypeOK, Payloads, Proposals

\* Rows that are approved come from an accepted debate, the payload of which the
\* Reviewer accepted in the last turn.
LEMMA AcceptedPayload ==
  ASSUME DebateInv, outcome = "accept"
  PROVE  history[turns] = Reviewed("accept") /\ history[turns - 1].offer = payload
  BY DEF DebateInv, TurnInv

LEMMA StoredRows ==
  ASSUME NEW c, NEW S, NEW rows \in Seq(S), NEW r \in Stored(c, rows)
  PROVE  /\ r.of = c /\ r.row \in Range(rows)
         /\ r.status = "llm_approved" => outcome = "accept" /\ r.row.score = "high"
         /\ outcome = "accept" /\ r.row.score = "high" => r.status = "llm_approved"
  BY DEF Stored, Range, _status_for_outcome

\* With no errors, the partition leaves rows of the proposal only.
LEMMA CleanRows ==
  ASSUME NEW S, NEW rows \in Seq(S), NEW bad
  PROVE  Without(rows, bad) \in Seq(S) /\ Range(Without(rows, bad)) \subseteq Range(rows)
<1> DEFINE left == Without(rows, bad)
<1>1. left \in Seq(S) /\ \E o : Origin(o, rows, bad, left)
  BY WithoutKeeps
<1> HIDE DEF left
<1>2. PICK o : Origin(o, rows, bad, left)
  BY <1>1
<1>3. Range(left) \subseteq Range(rows)
  BY <1>2 DEF Origin, Kept, Range
<1> QED BY <1>1, <1>3 DEF left

LEMMA OntogenRowsAgreed ==
  ASSUME DebateInv, service = "ontogen", NEW r \in OntogenRows, r.status = "llm_approved"
  PROVE  r.row.score = "high" /\ outcome = "accept" /\ r.row \in Range(payload[r.of])
<1> DEFINE out == OntogenOutput(payload)
           clean == partition_clean_rows(out, final_validation_errors)
<1>1. out # Malformed /\ out \in OntogenSchema
  <2>1. out # Malformed
    BY DEF OntogenRows
  <2>2. CASE payload = Nothing
    BY <2>1, <2>2 DEF OntogenOutput, OntogenSchema
  <2>3. CASE payload # Nothing
    BY <2>1, <2>3, PayloadForm DEF OntogenOutput
  <2> QED BY <2>1, <2>2, <2>3
<1> HIDE DEF out
<1>2. out.nodes \in Seq(Nodes) /\ out.edges \in Seq(Edges) /\ out.triples \in Seq(Triples)
  BY <1>1 DEF OntogenSchema, Nodes, Edges, Triples
<1>3. /\ \E bad : clean.nodes = Without(out.nodes, bad)
      /\ \E bad : clean.edges = Without(out.edges, bad)
      /\ \E bad : clean.triples = Without(out.triples, bad)
  BY <1>1 DEF partition_clean_rows, OntogenSchema
<1>4. r \in Stored("nodes", clean.nodes) \cup Stored("edges", clean.edges) \cup Stored("triples", clean.triples)
  BY <1>1 DEF OntogenRows, out
<1> HIDE DEF clean
<1>5. /\ r.of \in {"nodes", "edges", "triples"} /\ r.row \in Range(out[r.of])
      /\ outcome = "accept" /\ r.row.score = "high"
  <2>1. CASE r \in Stored("nodes", clean.nodes)
    <3>1. clean.nodes \in Seq(Nodes) /\ Range(clean.nodes) \subseteq Range(out.nodes)
      BY <1>2, <1>3, CleanRows
    <3>2. r.of = "nodes" /\ r.row \in Range(clean.nodes) /\ outcome = "accept" /\ r.row.score = "high"
      BY <2>1, <3>1, StoredRows
    <3> QED BY <3>1, <3>2
  <2>2. CASE r \in Stored("edges", clean.edges)
    <3>1. clean.edges \in Seq(Edges) /\ Range(clean.edges) \subseteq Range(out.edges)
      BY <1>2, <1>3, CleanRows
    <3>2. r.of = "edges" /\ r.row \in Range(clean.edges) /\ outcome = "accept" /\ r.row.score = "high"
      BY <2>2, <3>1, StoredRows
    <3> QED BY <3>1, <3>2
  <2>3. CASE r \in Stored("triples", clean.triples)
    <3>1. clean.triples \in Seq(Triples) /\ Range(clean.triples) \subseteq Range(out.triples)
      BY <1>2, <1>3, CleanRows
    <3>2. r.of = "triples" /\ r.row \in Range(clean.triples) /\ outcome = "accept" /\ r.row.score = "high"
      BY <2>3, <3>1, StoredRows
    <3> QED BY <3>1, <3>2
  <2> QED BY <1>4, <2>1, <2>2, <2>3
<1>6. payload # Nothing
  <2> SUFFICES ASSUME payload = Nothing PROVE FALSE
    OBVIOUS
  <2>1. out.nodes = <<>> /\ out.edges = <<>> /\ out.triples = <<>>
    BY DEF out, OntogenOutput
  <2>2. out[r.of] = <<>>
    BY <1>5, <2>1
  <2> QED BY <1>5, <2>2 DEF Range
<1>7. out = payload
  BY <1>6 DEF out, OntogenOutput
<1> QED BY <1>5, <1>7

LEMMA MetagenRowsAgreed ==
  ASSUME DebateInv, service = "metagen", NEW r \in MetagenRows
  PROVE  /\ r.status = "llm_approved" /\ r.row.score = "high"
         /\ outcome = "accept" /\ r.row \in Range(payload[r.of])
<1>1. /\ MetagenOutput(payload) # Malformed /\ outcome = "accept"
      /\ r \in Stored("candidates", MetagenOutput(payload).candidates) /\ r.row.score = "high"
  BY DEF MetagenRows
<1>2. MetagenOutput(payload) = payload /\ payload \in MetagenSchema
  BY <1>1, PayloadForm DEF MetagenOutput
<1> DEFINE Candidates == [urn : STRING, kind : STRING, field : STRING, value : STRING, score : Scores]
<1>3. payload.candidates \in Seq(Candidates)
  BY <1>2 DEF MetagenSchema
<1> HIDE DEF Candidates
<1>4. r.of = "candidates" /\ r.row \in Range(payload.candidates) /\ r.status = "llm_approved"
  BY <1>1, <1>2, <1>3, StoredRows
<1> QED BY <1>1, <1>4

LEMMA StoreStepKeeps == ASSUME DebateInv, StoreStep PROVE DebateInv'
<1>1. /\ phase = "over" /\ phase' = "done"
      /\ UNCHANGED <<service, max_turns, iteration, proposed, payload, turns, history, outcome>>
  BY DEF StoreStep, store_ontogen, store_metagen
<1>2. DebateTypeOK'
  BY <1>1 DEF DebateInv, DebateTypeOK, Phases, Entry, Payloads, Proposals
<1>3. TurnInv'
  BY <1>1 DEF DebateInv, TurnInv
<1>4. StoredWasAgreed'
  <2> SUFFICES ASSUME NEW r \in stored', r.status = "llm_approved" \/ service = "metagen"
               PROVE  /\ r.status = "llm_approved" /\ r.row.score = "high"
                      /\ history[turns] = Reviewed("accept")
                      /\ r.row \in Range(history[turns - 1].offer[r.of])
    BY <1>1 DEF StoredWasAgreed, Range
  <2>1. /\ r.status = "llm_approved" /\ r.row.score = "high"
        /\ outcome = "accept" /\ r.row \in Range(payload[r.of])
    <3>1. CASE store_ontogen
      BY <3>1, OntogenRowsAgreed DEF store_ontogen
    <3>2. CASE store_metagen
      BY <3>2, MetagenRowsAgreed DEF store_metagen
    <3> QED BY <3>1, <3>2 DEF StoreStep
  <2> QED BY <2>1, AcceptedPayload
<1> QED BY <1>2, <1>3, <1>4 DEF DebateInv

------------------------------------------------------------------------------
LEMMA DebateNext == DebateInv /\ [Next]_vars => DebateInv'
<1> SUFFICES ASSUME DebateInv, [Next]_vars PROVE DebateInv'
  OBVIOUS
<1>1. CASE no_proposal \/ invalid_proposal \/ valid_proposal
  BY <1>1, IterationStep DEF no_proposal, invalid_proposal, valid_proposal
<1>2. CASE producer_turn
  BY <1>2, ProducerTurn
<1>3. CASE reviewer_turn
  BY <1>3, ReviewerTurn
<1>4. CASE call_fails
  BY <1>4, CallFails
<1>5. CASE StoreStep
  BY <1>5, StoreStepKeeps
<1>6. CASE UNCHANGED vars
  <2>1. DebateTypeOK'
    BY <1>6 DEF vars, DebateInv, DebateTypeOK, Entry, Payloads, Proposals
  <2>2. TurnInv'
    BY <1>6 DEF vars, DebateInv, TurnInv
  <2>3. StoredWasAgreed'
    BY <1>6 DEF vars, DebateInv, StoredWasAgreed, Range
  <2> QED BY <2>1, <2>2, <2>3 DEF DebateInv
<1> QED BY <1>1, <1>2, <1>3, <1>4, <1>5, <1>6 DEF Next, ProducerStep

LEMMA DebateInvariant == Spec => []DebateInv
<1> QED BY DebateInit, DebateNext, PTL DEF Spec

\* run_debate: both loops stay within their limits, and the history alternates between
\* Producer and Reviewer, for all limits and whatever the models answer.
THEOREM DebateTypeCorrect == Spec => []DebateTypeOK
<1>1. DebateInv => DebateTypeOK
  BY DEF DebateInv
<1> QED BY <1>1, DebateInvariant, PTL

\* _status_for_outcome: a row is auto-approved only out of an offer that the Reviewer
\* accepted in the last turn, and metagen stores no other row.
THEOREM StoredIsAgreed == Spec => []StoredWasAgreed
<1>1. DebateInv => StoredWasAgreed
  BY DEF DebateInv
<1> QED BY <1>1, DebateInvariant, PTL

\* partition_clean_rows, for the proposals of the Producer.
THEOREM PartitionCorrect == Spec => []PartitionIsClean
<1>1. DebateInv => PartitionIsClean
  <2> SUFFICES ASSUME DebateInv, service = "ontogen", OntogenOutput(proposed) # Malformed
               PROVE  OntogenOutput(proposed) \in OntogenSchema
    BY PartitionLeavesNoError DEF PartitionIsClean
  <2>1. CASE proposed = Nothing
    BY <2>1 DEF OntogenOutput, OntogenSchema
  <2>2. CASE proposed # Nothing
    BY <2>2, PayloadForm DEF OntogenOutput
  <2> QED BY <2>1, <2>2
<1> QED BY <1>1, DebateInvariant, PTL

------------------------------------------------------------------------------
\* The debate implements the negotiation.

\* The offers of the history, a turn later.
LEMMA TabledGrows ==
  ASSUME DebateInv, NEW e \in Entry, history' = Append(history, e)
  PROVE  producer_hashes' = producer_hashes \cup (IF e.actor = "producer" THEN {e.offer} ELSE {})
<1>1. history \in Seq(Entry) /\ DOMAIN history = 1 .. Len(history) /\ Len(history) \in Nat
  BY DEF DebateInv, DebateTypeOK
<1>2. /\ DOMAIN history' = DOMAIN history \cup {Len(history) + 1}
      /\ Len(history) + 1 \notin DOMAIN history
      /\ history'[Len(history) + 1] = e
      /\ \A i \in DOMAIN history : history'[i] = history[i]
  BY <1>1
<1> QED BY <1>2 DEF producer_hashes

LEMMA NegotiationInit == Init => N!Init
<1> SUFFICES ASSUME Init PROVE N!Init
  OBVIOUS
<1>1. max_turns \in Nat \ {0, 1}
  BY DebateAssumption DEF Init
<1>2. producer_hashes = {}
  BY DEF Init, producer_hashes
<1> QED BY <1>1, <1>2 DEF Init, N!Init

\* Steps inside a turn, and the storing of the rows, are none of the negotiation's; a
\* turn is a move and a failing call breaks it off.
LEMMA NegotiationStep == DebateInv /\ [Next]_vars => [N!Next]_N!vars
<1> SUFFICES ASSUME DebateInv, [Next]_vars PROVE [N!Next]_N!vars
  OBVIOUS
<1>1. CASE no_proposal \/ invalid_proposal \/ valid_proposal
  <2>1. phase = "producer"
    BY <1>1 DEF no_proposal, invalid_proposal, valid_proposal
  <2>2. UNCHANGED <<max_turns, history, payload, turns, outcome>> /\ phase' # "failed"
    BY <1>1, <2>1, IterationStep
  <2> QED BY <2>1, <2>2 DEF N!vars, producer_hashes
<1>2. CASE producer_turn
  <2>1. phase = "offered" /\ outcome = "open" /\ turns % 2 = 0 /\ turns < max_turns
    BY <1>2 DEF producer_turn, DebateInv, TurnInv
  <2>2. Offered(proposed) \in Entry /\ Offered(proposed).actor = "producer" /\ Offered(proposed).offer = proposed
    BY DEF Offered, Entry, DebateInv, DebateTypeOK
  <2>3. producer_hashes' = producer_hashes \cup {proposed}
    BY <1>2, <2>2, TabledGrows DEF producer_turn
  <2>4. /\ payload' = proposed /\ turns' = turns + 1 /\ UNCHANGED max_turns
        /\ outcome' = IF proposed \in producer_hashes THEN "cycle_detected"
                      ELSE IF turns + 1 >= max_turns THEN "turns_exhausted" ELSE "open"
        /\ phase' # "failed"
    BY <1>2, <2>1 DEF producer_turn, Repeats, Exhausted
  <2>5. N!Offer(proposed)
    BY <2>1, <2>3, <2>4 DEF N!Offer, N!Undecided
  <2>6. proposed \in OntogenPayloads \cup MetagenPayloads \cup {Nothing}
    BY DEF DebateInv, DebateTypeOK, Payloads, Proposals
  <2> QED BY <2>5, <2>6 DEF N!Next
<1>3. CASE reviewer_turn
  <2>1. phase = "reviewer" /\ outcome = "open" /\ turns % 2 = 1 /\ turns < max_turns
    BY <1>3 DEF reviewer_turn, DebateInv, TurnInv
  <2>2. PICK v \in Verdicts :
          /\ history' = Append(history, Reviewed(v)) /\ turns' = turns + 1
          /\ UNCHANGED <<max_turns, payload>>
          /\ outcome' = IF v = "accept" THEN "accept"
                        ELSE IF turns + 1 >= max_turns THEN "turns_exhausted" ELSE "open"
          /\ phase' # "failed"
    BY <1>3, <2>1 DEF reviewer_turn, Exhausted
  <2>3. Reviewed(v) \in Entry /\ Reviewed(v).actor = "reviewer"
    BY DEF Reviewed, Entry, Payloads
  <2>4. producer_hashes' = producer_hashes
    BY <2>2, <2>3, TabledGrows
  <2>5. N!Answer(v = "accept")
    BY <2>1, <2>2, <2>4 DEF N!Answer, N!Undecided
  <2> QED BY <2>5 DEF N!Next
<1>4. CASE call_fails
  <2>1. outcome = "open" /\ phase # "failed" /\ phase' = "failed"
        /\ UNCHANGED <<max_turns, history, payload, turns, outcome>>
    BY <1>4 DEF call_fails, DebateInv, TurnInv
  <2>2. N!BreakOff
    BY <2>1 DEF N!BreakOff, producer_hashes
  <2> QED BY <2>2 DEF N!Next
<1>5. CASE StoreStep
  <2>1. phase # "failed" /\ phase' # "failed" /\ UNCHANGED <<max_turns, history, payload, turns, outcome>>
    BY <1>5 DEF StoreStep, store_ontogen, store_metagen
  <2> QED BY <2>1 DEF N!vars, producer_hashes
<1>6. CASE UNCHANGED vars
  BY <1>6 DEF vars, N!vars, producer_hashes
<1> QED BY <1>1, <1>2, <1>3, <1>4, <1>5, <1>6 DEF Next, ProducerStep

\* "Terminates on: Reviewer accept, max_turns exhausted, or cycle detected" (run_debate):
\* the nested loops, their retries and their failures implement the negotiation.
THEOREM DebateNegotiates == Spec => Negotiates
<1> QED BY DebateInvariant, NegotiationInit, NegotiationStep, PTL DEF Spec, Negotiates, N!Spec

\* What the two parties may rely on (run_debate): the talks keep to their limit, and go on only
\* within it; every second turn was an offer that had not been made before, unless the talks
\* ended with one that had; and who accepts has answered an offer that was tabled.
Promise ==
  /\ turns \in 0 .. max_turns /\ (outcome = "open" => turns < max_turns)
  /\ IsFiniteSet(producer_hashes)
  /\ Cardinality(producer_hashes)
       = IF outcome = "cycle_detected" THEN (turns - 1) \div 2 ELSE (turns + 1) \div 2
  /\ outcome = "cycle_detected" => turns % 2 = 1
  /\ outcome = "accept" => turns % 2 = 0
  /\ turns > 0 => payload \in producer_hashes

\* Halves of an even number and of those next to it.
LEMMA Halves ==
  ASSUME NEW n \in Nat
  PROVE  /\ n % 2 = 0 => (n + 1) \div 2 = n \div 2 /\ (n + 2) \div 2 = n \div 2 + 1 /\ (n + 1) % 2 = 1
         /\ n % 2 = 1 => (n + 2) \div 2 = (n + 1) \div 2 /\ (n + 1) % 2 = 0
  OBVIOUS

\* What is promised is left alone by steps inside a turn, calls that fail and the storing.
LEMMA PromiseQuiet ==
  ASSUME Promise, UNCHANGED <<max_turns, history, payload, turns, outcome>>
  PROVE  Promise'
<1>1. UNCHANGED producer_hashes
  BY DEF producer_hashes
<1> QED BY <1>1 DEF Promise

\* A turn keeps to what is promised.
LEMMA PromiseStep == DebateInv /\ Promise /\ [Next]_vars => Promise'
<1> SUFFICES ASSUME DebateInv, Promise, [Next]_vars PROVE Promise'
  OBVIOUS
<1>0. /\ turns \in Nat /\ max_turns \in Nat
      /\ IsFiniteSet(producer_hashes) /\ Cardinality(producer_hashes) \in Nat
  BY DebateAssumption, FS_CardinalityType DEF Promise, DebateInv, DebateTypeOK
<1>1. CASE no_proposal \/ invalid_proposal \/ valid_proposal
  <2>1. phase = "producer"
    BY <1>1 DEF no_proposal, invalid_proposal, valid_proposal
  <2>2. UNCHANGED <<max_turns, history, payload, turns, outcome>>
    BY <1>1, <2>1, IterationStep
  <2> QED BY <2>2, PromiseQuiet
<1>2. CASE producer_turn
  <2>1. outcome = "open" /\ turns % 2 = 0 /\ turns < max_turns
    BY <1>2 DEF producer_turn, DebateInv, TurnInv
  <2>2. Offered(proposed) \in Entry /\ Offered(proposed).actor = "producer" /\ Offered(proposed).offer = proposed
    BY DEF Offered, Entry, DebateInv, DebateTypeOK
  <2>3. producer_hashes' = producer_hashes \cup {proposed}
    BY <1>2, <2>2, TabledGrows DEF producer_turn
  <2>4. /\ payload' = proposed /\ turns' = turns + 1 /\ max_turns' = max_turns
        /\ outcome' = IF proposed \in producer_hashes THEN "cycle_detected"
                      ELSE IF turns + 1 >= max_turns THEN "turns_exhausted" ELSE "open"
    BY <1>2, <2>1 DEF producer_turn, Repeats, Exhausted
  <2>5. /\ IsFiniteSet(producer_hashes')
        /\ Cardinality(producer_hashes') = IF proposed \in producer_hashes THEN Cardinality(producer_hashes)
                                           ELSE Cardinality(producer_hashes) + 1
    BY <1>0, <2>3, FS_AddElement
  <2>6. /\ Cardinality(producer_hashes) = turns \div 2
        /\ (turns + 2) \div 2 = turns \div 2 + 1 /\ (turns + 1) % 2 = 1
    BY <1>0, <2>1, Halves DEF Promise
  <2>7. Cardinality(producer_hashes')
          = IF outcome' = "cycle_detected" THEN (turns' - 1) \div 2 ELSE (turns' + 1) \div 2
    BY <1>0, <2>4, <2>5, <2>6
  <2> QED BY <1>0, <2>1, <2>3, <2>4, <2>5, <2>6, <2>7 DEF Promise
<1>3. CASE reviewer_turn
  <2>1. outcome = "open" /\ turns % 2 = 1 /\ turns < max_turns
    BY <1>3 DEF reviewer_turn, DebateInv, TurnInv
  <2>2. PICK v \in Verdicts :
          /\ history' = Append(history, Reviewed(v)) /\ turns' = turns + 1
          /\ max_turns' = max_turns /\ payload' = payload
          /\ outcome' = IF v = "accept" THEN "accept"
                        ELSE IF turns + 1 >= max_turns THEN "turns_exhausted" ELSE "open"
    BY <1>3, <2>1 DEF reviewer_turn, Exhausted
  <2>3. Reviewed(v) \in Entry /\ Reviewed(v).actor = "reviewer"
    BY DEF Reviewed, Entry, Payloads
  <2>4. producer_hashes' = producer_hashes
    BY <2>2, <2>3, TabledGrows
  <2>5. /\ Cardinality(producer_hashes) = (turns + 1) \div 2
        /\ (turns + 2) \div 2 = (turns + 1) \div 2 /\ (turns + 1) % 2 = 0
    BY <1>0, <2>1, Halves DEF Promise
  <2>6. Cardinality(producer_hashes')
          = IF outcome' = "cycle_detected" THEN (turns' - 1) \div 2 ELSE (turns' + 1) \div 2
    BY <1>0, <2>2, <2>4, <2>5
  <2> QED BY <1>0, <2>1, <2>2, <2>4, <2>5, <2>6 DEF Promise
<1>4. CASE call_fails
  BY <1>4, PromiseQuiet DEF call_fails
<1>5. CASE StoreStep
  BY <1>5, PromiseQuiet DEF StoreStep, store_ontogen, store_metagen
<1>6. CASE UNCHANGED vars
  BY <1>6, PromiseQuiet DEF vars
<1> QED BY <1>1, <1>2, <1>3, <1>4, <1>5, <1>6 DEF Next, ProducerStep

\* run_debate keeps to max_turns, and discusses no offer twice: it has had as many different
\* offers as it made, but for the one with which a cycle is detected.
THEOREM DebateKeepsPromise == Spec => []Promise
<1>1. ASSUME Init PROVE Promise
  <2>1. producer_hashes = {} /\ turns = 0 /\ outcome = "open" /\ max_turns \in Nat \ {0, 1}
    BY <1>1, DebateAssumption DEF Init, producer_hashes
  <2>2. IsFiniteSet(producer_hashes) /\ Cardinality(producer_hashes) = 0
    BY <2>1, FS_EmptySet
  <2>3. (0 + 1) \div 2 = 0
    OBVIOUS
  <2> QED BY <2>1, <2>2, <2>3 DEF Promise
<1> QED BY <1>1, DebateInvariant, PromiseStep, PTL DEF Spec

==============================================================================

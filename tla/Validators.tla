----------------------------- MODULE Validators -----------------------------
(* The semantic validators of the two generation services, over payloads as *)
(* a model proposes them.  A payload is Nothing (the empty dict a loop       *)
(* starts from), Malformed (no instance of the output schema), or rows.      *)
(* An error is the row it is about and its code, as its path is read by     *)
(* partition_clean_rows.  Ids are normalised by the schema before the rules  *)
(* see them, so that an id is its slug; confidence scores outside [0, 1] do  *)
(* not pass the schema.                                                     *)
EXTENDS Integers, Sequences, SequencesExt

CONSTANTS
  BadSlugs,   \* ids of nodes and edges that are no slug: empty, or too long
  InScope,    \* the datasets the run has evidence for
  Allowed,    \* kinds of item that the boundary of the dataset allows
  Fields,     \* columns of schemaMetadata, empty when it is unknown
  Approved    \* <<dataset, item>> with an approved candidate when the run read them

NoId == "none"
Nothing == [form |-> "nothing"]
Malformed == [form |-> "malformed"]

\* OntogenLLMOutput and MetagenLLMOutput.
Scores == {"high", "low"}   \* at least the threshold of the conf, or below it
OntogenSchema ==
  [form : {"rows"}, nodes : Seq([id : STRING, urns : SUBSET STRING, score : Scores]),
   edges : Seq([id : STRING, score : Scores]),
   triples : Seq([s : STRING, e : STRING, o : STRING, score : Scores])]
MetagenSchema ==
  [form : {"rows"}, candidates : Seq([urn : STRING, kind : STRING, field : STRING, value : STRING, score : Scores])]

\* OntogenLLMOutput.model_validate: every collection defaults to the empty list.
OntogenOutput(p) ==
  IF p = Nothing THEN [form |-> "rows", nodes |-> <<>>, edges |-> <<>>, triples |-> <<>>] ELSE p

\* MetagenLLMOutput.model_validate: candidates are required.
MetagenOutput(p) == IF p = Nothing THEN Malformed ELSE p

Error(collection, i, code) == [of |-> collection, at |-> i, code |-> code]
SchemaError == {Error("payload", 0, "SCHEMA")}

_check_slug(collection, rows) ==
  {Error(collection, i, "SLUG_FORMAT") : i \in {j \in DOMAIN rows : rows[j].id \in BadSlugs}}

\* The first occurrence of an id stands; an absent id is never a duplicate.
Duplicates(collection, rows) ==
  {Error(collection, i, "DUP_ID") :
     i \in {j \in DOMAIN rows : rows[j].id # NoId /\ \E k \in 1 .. j - 1 : rows[k].id = rows[j].id}}

Ids(rows) == {rows[i].id : i \in DOMAIN rows}
UnknownRefs(out) ==
  {Error("triples", i, "UNKNOWN_NODE_REF") :
     i \in {j \in DOMAIN out.triples : ~ {out.triples[j].s, out.triples[j].o} \subseteq Ids(out.nodes)}}
  \cup {Error("triples", i, "UNKNOWN_EDGE_REF") :
     i \in {j \in DOMAIN out.triples : out.triples[j].e \notin Ids(out.edges)}}

Provenance(rows) ==
  {Error("nodes", i, "MISSING_DATASET_URNS") : i \in {j \in DOMAIN rows : rows[j].urns = {}}}
  \cup {Error("nodes", i, "OUT_OF_SCOPE_URN") : i \in {j \in DOMAIN rows : ~ rows[j].urns \subseteq InScope}}

Parts(t) == <<t.s, t.e, t.o>>
DupTriples(rows) ==
  {Error("triples", i, "DUP_TRIPLE") :
     i \in {j \in DOMAIN rows : \E k \in 1 .. j - 1 : Parts(rows[k]) = Parts(rows[j])}}

validate_ontogen_output(p) ==
  LET out == OntogenOutput(p)
  IN IF out = Malformed THEN SchemaError
     ELSE _check_slug("nodes", out.nodes) \cup _check_slug("edges", out.edges)
            \cup Duplicates("nodes", out.nodes) \cup Duplicates("edges", out.edges)
            \cup UnknownRefs(out) \cup Provenance(out.nodes) \cup DupTriples(out.triples)

\* The rows that are left when those at the given indices are dropped, in their order.
Kept(rows, bad) == DOMAIN rows \ bad
Rank(set, k) == Cardinality({j \in set : j <= k})
Without(rows, bad) ==
  [i \in 1 .. Cardinality(Kept(rows, bad)) |->
     rows[CHOOSE k \in Kept(rows, bad) : Rank(Kept(rows, bad), k) = i]]

BadRows(collection, errors) == {e.at : e \in {x \in errors : x.of = collection}}
IdsAt(rows, bad) == {rows[i].id : i \in bad \cap DOMAIN rows}

\* Drops the rows with errors, and the triples whose node or edge is dropped with them.
partition_clean_rows(out, errors) ==
  LET badNodes == IdsAt(out.nodes, BadRows("nodes", errors))
      badEdges == IdsAt(out.edges, BadRows("edges", errors))
      cascaded == {i \in DOMAIN out.triples : \/ out.triples[i].s \in badNodes
                                              \/ out.triples[i].o \in badNodes
                                              \/ out.triples[i].e \in badEdges}
  IN [out EXCEPT !.nodes = Without(@, BadRows("nodes", errors)),
                 !.edges = Without(@, BadRows("edges", errors)),
                 !.triples = Without(@, BadRows("triples", errors) \cup cascaded)]

------------------------------------------------------------------------------
\* Metagen.  A candidate out of scope, or whose item id is no item id, is checked no further.

Item(c) == <<c.urn, c.kind, c.field>>
Kinds == {"dataset.description", "column.description"}
Unreadable(c) == c.urn \notin InScope \/ c.kind \notin Kinds

CandidateErrors(c) ==
  IF c.urn \notin InScope THEN {"OUT_OF_SCOPE_URN"}
  ELSE IF c.kind \notin Kinds THEN {"INVALID_ITEM_ID"}
  ELSE {code \in {"UNKNOWN_FIELD_PATH", "KIND_NOT_ALLOWED", "EMPTY_VALUE", "VALUE_TOO_LARGE",
                  "ITEM_ALREADY_APPROVED"} :
          CASE code = "UNKNOWN_FIELD_PATH" ->
                 c.kind = "column.description" /\ Fields # {} /\ c.field \notin Fields
            [] code = "KIND_NOT_ALLOWED" -> c.kind \notin Allowed
            [] code = "EMPTY_VALUE" -> c.value = "empty"
            [] code = "VALUE_TOO_LARGE" -> c.value = "large"
            [] code = "ITEM_ALREADY_APPROVED" -> Item(c) \in Approved}

DupItems(rows) ==
  {i \in DOMAIN rows : ~Unreadable(rows[i]) /\ \E k \in 1 .. i - 1 : Item(rows[k]) = Item(rows[i])}

validate_metagen_output(p) ==
  LET out == MetagenOutput(p)
  IN IF out = Malformed THEN SchemaError
     ELSE UNION {{Error("candidates", i, code) : code \in CandidateErrors(out.candidates[i])} :
                   i \in DOMAIN out.candidates}
          \cup {Error("candidates", i, "DUP_ITEM") : i \in DupItems(out.candidates)}

==============================================================================

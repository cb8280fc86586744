------------------------------ MODULE MCDebate ------------------------------
(* Debates over proposals that break each rule of the validators.            *)
EXTENDS Debate

node(id, urns) == [id |-> id, urns |-> urns, score |-> "high"]
edge(id, score) == [id |-> id, score |-> score]
triple(s, e, o) == [s |-> s, e |-> e, o |-> o, score |-> "low"]
onto(nodes, edges, triples) == [form |-> "rows", nodes |-> nodes, edges |-> edges, triples |-> triples]

A == node("a", {"d"})
B == node("b", {"d"})
R == edge("r", "high")

MCOntogenPayloads ==
  {Malformed,
   onto(<<A, B>>, <<R>>, <<triple("a", "r", "b")>>),
   onto(<<A, A, node("b", {"x"})>>, <<R>>, <<triple("a", "r", "a"), triple("b", "r", "b")>>),
   onto(<<A, node("none", {}), B>>, <<R, edge("r", "low")>>, <<triple("a", "r", "b"), triple("b", "q", "b")>>),
   onto(<<B, node("bad", {"d"})>>, <<R, edge("bad", "low")>>,
        <<triple("b", "r", "bad"), triple("b", "bad", "b"), triple("b", "r", "b"), triple("b", "r", "b")>>),
   onto(<<A, B, node("a", {})>>, <<edge("none", "low"), R>>, <<triple("b", "r", "b"), triple("a", "r", "a")>>)}

cand(urn, kind, field, value, score) ==
  [urn |-> urn, kind |-> kind, field |-> field, value |-> value, score |-> score]
col(field, value, score) == cand("d", "column.description", field, value, score)
meta(rows) == [form |-> "rows", candidates |-> rows]

MCMetagenPayloads ==
  {Malformed,
   meta(<<col("f", "text", "high"), col("g", "text", "low")>>),
   meta(<<col("f", "text", "high"), col("f", "empty", "high"), col("z", "large", "high")>>),
   meta(<<cand("x", "dataset.description", "none", "text", "high"), cand("d", "tags", "none", "text", "low"),
          cand("d", "dataset.description", "none", "text", "high"), col("g", "text", "high")>>),
   meta(<<col("h", "text", "high"), col("g", "text", "high")>>)}

MCApproved == {<<"d", "column.description", "h">>}
==============================================================================

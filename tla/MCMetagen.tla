----------------------------- MODULE MCMetagen -----------------------------
(* Instances of Metagen for TLC: the items are columns of one dataset.     *)
EXTENDS Metagen, TLC

Symmetry == Permutations(Workers) \cup Permutations(Reviewers) \cup Permutations(Keys)
              \cup Permutations(Items)

MCDatasetOf == [i \in Items |-> CHOOSE d \in Datasets : TRUE]
MCKindOf == [i \in Items |-> CHOOSE k \in Kinds : TRUE]

Setting(enabled, limit, overwrite) ==
  [is_enabled |-> enabled, result_limit |-> limit, overwrite_pending |-> overwrite]
ConfsOne == {Setting(TRUE, 1, TRUE), Setting(FALSE, 1, TRUE)}
ConfsEvict == {Setting(TRUE, 1, TRUE)}
BoundariesAll == {[is_enabled |-> TRUE, allowed |-> Kinds]}

============================================================================

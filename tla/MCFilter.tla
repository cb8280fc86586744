------------------------------ MODULE MCFilter ------------------------------
(* A predicate of each kind; texts of up to three levels.                     *)
EXTENDS FilterParser

MCSamples ==
  {[node |-> "NotEquals", column |-> "origin", value |-> "l1"],
   [node |-> "NotInList", column |-> "platform_urn", values |-> <<"l1", "l2">>],
   [node |-> "ArrayNotContains", column |-> "tag_urns", value |-> "l1"],
   [node |-> "BoolEquals", column |-> "is_primary", truth |-> FALSE]}
MCStrays ==
  {Sign("("), Sign(")"), Sign("="), Word("and"), Word("or"), Word("in"), Word("name"), Quoted("l2")}

=============================================================================

----------------------------- MODULE MCOntogen -----------------------------
(* Instances of Ontogen for TLC.                                           *)
EXTENDS Ontogen, TLC

CONSTANTS buy, sell, owns, s1, s2, s3

Symmetry == Permutations(Workers) \cup Permutations(Reviewers)

\* Each term has a slug of its own.
OwnSlugs == [t \in Terms |-> IF t = owns THEN s3 ELSE IF t = sell THEN s2 ELSE s1]

============================================================================

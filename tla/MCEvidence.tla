----------------------------- MODULE MCEvidence -----------------------------
(* A managed source with its CLI wrapper and a passive one, linked to one     *)
(* dataset, observed by two sweeps.                                         *)
EXTENDS Evidence, TLC

CONSTANTS managed, wrapper, custom, passive

MCParent == [s \in Sources |-> IF s = wrapper THEN managed ELSE NoSource]
MCMode == [s \in Sources |-> CASE s = custom -> "ACTIVE_CUSTOM_MANAGED"
                               [] s = passive -> "PASSIVE"
                               [] OTHER -> "DATAHUB_MANAGED"]
MCRequestOf == [q \in Requests |-> wrapper]
MCMapped == [s \in Sources |-> Datasets]
Symmetric == Permutations(Passes)

============================================================================

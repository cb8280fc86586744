----------------------------- MODULE MCMetrics -----------------------------
(* A managed source with its CLI wrapper, a custom one and a passive one,    *)
(* all linked to one dataset.                                               *)
EXTENDS Metrics

CONSTANTS managed, wrapper, custom, passive, d1

MCParent == [s \in Sources |-> IF s = wrapper THEN managed ELSE NoSource]
MCMode == [s \in Sources |-> CASE s = custom -> "ACTIVE_CUSTOM_MANAGED"
                               [] s = passive -> "PASSIVE"
                               [] OTHER -> "DATAHUB_MANAGED"]
MCRequestOf == [q \in Requests |-> wrapper]
MCMapped == [s \in Sources |-> Datasets]
MCStart(s, type, lag) == [owner |-> [d \in Datasets |-> s], conf |-> lag,
                          defn |-> [type |-> type, filter |-> Datasets, enabled |-> TRUE,
                                   tier |-> "daily"]]
MCStarts == {MCStart(s, "ingestion-freshness", NoConf) : s \in {managed, custom}}
              \cup {MCStart(passive, "validation-score", lag) : lag \in Lags}
MCFilters == {Datasets}

============================================================================

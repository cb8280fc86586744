---------------------------- MODULE MCIngestion ----------------------------
(* Instances of Ingestion for TLC.                                         *)
EXTENDS Ingestion, TLC

CONSTANTS d1, d2, g1, u1, w1, i1

All == Datasets
AllRecipe == [key |-> "table_pattern", allow |-> All, deny |-> {}, prefix |-> All]
BadRecipe == [key |-> "unreadable", allow |-> All, deny |-> {}, prefix |-> All]

MCRecipes == {AllRecipe, BadRecipe}
MCParentUrn == [u \in {w1} |-> u1]
MCModes == {"ACTIVE_CUSTOM_MANAGED", "DATAHUB_MANAGED"}

(* A source with a wrapper, and one of two datasets written by it.          *)
MCEstate == [srcs |-> {u1, w1}, recipe |-> [u \in {u1, w1} |-> AllRecipe], data |-> {d1},
             stamp |-> (d1 :> u1 @@ d2 :> NoUrn)]

(* An active source, authored before.                                       *)
MCFirstRows == (i1 :> [mode |-> "ACTIVE_CUSTOM_MANAGED", urn |-> NoUrn, parent |-> NoId, recipe |-> AllRecipe])

(* For sweeps that overlap: no wrapper and no authored source, and a dataset *)
(* that no pipeline has stamped yet.                                        *)
NoPatterns == [AllRecipe EXCEPT !.key = "none"]
OverlapRecipes == {AllRecipe, NoPatterns}
OverlapParentUrn == [u \in {} |-> NoUrn]
OverlapEstate == [srcs |-> {u1}, recipe |-> [u \in {u1} |-> AllRecipe], data |-> {d1},
                  stamp |-> [d \in {d1} |-> NoUrn]]
OverlapRows == [i \in {} |-> NoRow]
============================================================================

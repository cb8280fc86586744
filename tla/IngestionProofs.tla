-------------------------- MODULE IngestionProofs --------------------------
(***************************************************************************)
(* Proofs about ingestion, for any number of sweeps, runs, registry checks,*)
(* sources, datasets and ids.                                              *)
(***************************************************************************)
EXTENDS Ingestion, TLAPS

Rows == [Ids -> Row \cup {NoRow}]
Sweep == [pc : {"idle", "pass_a", "pass_b", "remove", "map", "prune", "reconcile", "attrs", "pipeline"},
          list : [Urns -> Recipes \cup {NotListed}], found : [Urns -> Ids \cup {NoId}],
          data : SUBSET Datasets, snap : Rows, old : [Ids -> SUBSET Datasets],
          rows : [Known -> Flags]]
\* A run under way is the run of a source.
Run == {x \in [pc : {"idle", "crawl", "record"}, id : Ids \cup {NoId}, emitted : SUBSET Datasets] :
          x.pc # "idle" => x.id \in Ids}
Check == [pc : {"idle", "insert", "flip"}, urn : Datasets \cup {NoUrn}, data : SUBSET Datasets]

TablesType ==
  /\ row \in Rows /\ used \subseteq Ids
  /\ link \in [Ids -> [Datasets -> Links]] /\ reg \in [Known -> Flags]
SessionsType ==
  /\ sweep \in [Sweeps -> Sweep] /\ run \in [Runs -> Run] /\ check \in [Checks -> Check]
RestType ==
  /\ hub \in Hub /\ health \in {"unknown", "ok", "error"}
  /\ changes \in 0 .. MaxChanges /\ faults \in 0 .. MaxFaults

LEMMA TypeParts == TablesType /\ SessionsType /\ RestType => IngestionTypeOK
  BY DEF IngestionTypeOK, TablesType, SessionsType, RestType, Rows, Sweep, Run, Check

\* Ids of rows were given out, so a new one is nobody's.
LiveUsed == Live \subseteq used

\* The parent of a wrapper is a stored row of a regular source, which has none itself.
ParentsRegular ==
  \A i \in Live : row[i].parent # NoId =>
    /\ row[i].urn \in Wrappers /\ row[i].parent \in Live
    /\ row[row[i].parent].parent = NoId /\ row[row[i].parent].urn \in Regular

\* The row a sweep found for a URN is the row of that URN, as long as it is there.
FoundStands ==
  \A w \in Sweeps, u \in Urns : sweep[w].found[u] # NoId =>
    /\ sweep[w].found[u] \in used
    /\ sweep[w].found[u] \in Live => row[sweep[w].found[u]].urn = u

\* Links are links of stored rows.
LinksLive == \A i \in Ids, d \in Datasets : link[i][d] # "none" => i \in Live

\* What a sweep without a rival has read as matched is matched until it prunes, or gone with
\* its source.
ReadMatched ==
  \A w \in Sweeps : Sweeps = {w} /\ sweep[w].pc = "prune" =>
    \A i \in Ids, d \in Datasets : d \in sweep[w].old[i] =>
      i \in used /\ (i \in Live => link[i][d] = "matched")

IngestionInv ==
  /\ TablesType /\ SessionsType /\ RestType
  /\ LiveUsed /\ ParentsRegular /\ FoundStands /\ LinksLive /\ ReadMatched

----------------------------------------------------------------------------
LEMMA IdleTypes == IdleSweep \in Sweep /\ IdleRun \in Run /\ IdleCheck \in Check
                   /\ IdleSweep.pc = "idle" /\ \A u \in Urns : IdleSweep.found[u] = NoId
  BY DEF IdleSweep, IdleRun, IdleCheck, Sweep, Run, Check, Rows, Flags

LEMMA IngestionInvInit == Init => IngestionInv
<1> SUFFICES ASSUME Init PROVE IngestionInv
  OBVIOUS
<1> USE IngestionAssumption, RowAssumption
<1>1. TablesType
  <2>1. row \in Rows
    BY DEF Init, Rows
  <2> QED BY <2>1 DEF Init, TablesType, NoLinks, Links, Flags
<1>2. SessionsType
  BY IdleTypes DEF Init, SessionsType
<1>3. RestType
  BY DEF Init, RestType
<1>4. \A i \in Live : i \in DOMAIN FirstRows /\ row[i] = FirstRows[i]
  BY DEF Init, Live
<1>5. LiveUsed /\ ParentsRegular
  BY <1>4 DEF Init, LiveUsed, ParentsRegular
<1>6. FoundStands /\ LinksLive /\ ReadMatched
  BY IdleTypes DEF Init, FoundStands, LinksLive, ReadMatched, NoLinks
<1> QED BY <1>1, <1>2, <1>3, <1>5, <1>6 DEF IngestionInv

----------------------------------------------------------------------------
\* Types.

LEMMA HubTypes ==
  ASSUME RestType, HubStep PROVE RestType'
<1> USE IngestionAssumption DEF RestType
<1>0. ASSUME Change PROVE changes' \in 0 .. MaxChanges /\ faults' \in 0 .. MaxFaults
  BY <1>0 DEF Change
<1>1. ASSUME NEW u \in Urns, hub_source_gone(u) PROVE RestType'
  <2>1. hub' \in Hub
    BY <1>1 DEF hub_source_gone, Hub
  <2> QED BY <1>0, <1>1, <2>1 DEF hub_source_gone
<1>2. ASSUME NEW u \in Urns, NEW r \in Recipes, hub_source(u, r) PROVE RestType'
  <2>1. hub' \in Hub
    BY <1>2 DEF hub_source, Hub
  <2> QED BY <1>0, <1>2, <2>1 DEF hub_source
<1>3. ASSUME NEW d \in Datasets, hub_dataset_gone(d) PROVE RestType'
  <2>1. hub' \in Hub
    BY <1>3 DEF hub_dataset_gone, Hub, Stamps
  <2> QED BY <1>0, <1>3, <2>1 DEF hub_dataset_gone
<1>4. ASSUME NEW d \in Datasets, NEW u \in Regular \cup {NoUrn}, hub_ingest(d, u) PROVE RestType'
  <2>1. hub' \in Hub
    BY <1>4 DEF hub_ingest, Hub, Stamps
  <2> QED BY <1>0, <1>4, <2>1 DEF hub_ingest
<1> QED BY <1>1, <1>2, <1>3, <1>4 DEF HubStep

----------------------------------------------------------------------------
\* Rows.

\* A step that neither stores nor drops a row and lets every sweep keep what it found, or
\* forget it.
LEMMA RowsStill ==
  ASSUME LiveUsed, ParentsRegular, FoundStands, UNCHANGED <<row, used>>,
         \A w \in Sweeps : \/ sweep'[w].found = sweep[w].found
                           \/ \A u \in Urns : sweep'[w].found[u] = NoId
  PROVE  LiveUsed' /\ ParentsRegular' /\ FoundStands'
<1>1. Live' = Live
  BY DEF Live
<1>2. LiveUsed' /\ ParentsRegular'
  BY <1>1 DEF LiveUsed, ParentsRegular
<1>3. FoundStands'
  BY <1>1 DEF FoundStands
<1> QED BY <1>2, <1>3

\* A step of a sweep that is not about to prune, whether it has a rival or not.
LEMMA ReadElsewhere ==
  ASSUME NEW w \in Sweeps, sweep'[w].pc # "prune"
  PROVE  ReadMatched'
  BY DEF ReadMatched

\* The sweeps stand, and so does what was matched, or it is gone with its row.
LEMMA ReadKept ==
  ASSUME ReadMatched, UNCHANGED sweep, used \subseteq used',
         \A i \in used, d \in Datasets :
           i \in Live' => i \in Live /\ (link[i][d] = "matched" => link'[i][d] = "matched")
  PROVE  ReadMatched'
<1> SUFFICES ASSUME NEW w \in Sweeps, Sweeps = {w}, sweep'[w].pc = "prune",
                    NEW i \in Ids, NEW d \in Datasets, d \in sweep'[w].old[i]
             PROVE  i \in used' /\ (i \in Live' => link'[i][d] = "matched")
  BY DEF ReadMatched
<1>1. sweep[w].pc = "prune" /\ d \in sweep[w].old[i]
  OBVIOUS
<1>2. i \in used /\ (i \in Live => link[i][d] = "matched")
  BY <1>1 DEF ReadMatched
<1> QED BY <1>2

\* The links stand as long as no row is deleted.
LEMMA LinksStill ==
  ASSUME LinksLive, UNCHANGED link, \A i \in Live : i \in Live'
  PROVE  LinksLive'
  BY DEF LinksLive

\* A row that a sweep may have found keeps its URN as long as it is stored.
LEMMA FoundKept ==
  ASSUME FoundStands, used \subseteq used',
         \A i \in used : i \in Live' => i \in Live /\ row'[i].urn = row[i].urn,
         \A w \in Sweeps : \/ sweep'[w].found = sweep[w].found
                           \/ \A u \in Urns : sweep'[w].found[u] = NoId
  PROVE  FoundStands'
<1> SUFFICES ASSUME NEW w \in Sweeps, NEW u \in Urns, sweep'[w].found[u] # NoId
             PROVE  /\ sweep'[w].found[u] \in used'
                    /\ sweep'[w].found[u] \in Live' => row'[sweep'[w].found[u]].urn = u
  BY DEF FoundStands
<1>1. sweep'[w].found[u] = sweep[w].found[u]
  OBVIOUS
<1>2. sweep[w].found[u] \in used /\ (sweep[w].found[u] \in Live => row[sweep[w].found[u]].urn = u)
  BY <1>1 DEF FoundStands
<1> QED BY <1>1, <1>2

\* The cascade takes the wrappers of a row with it: what is left keeps its parents.
LEMMA DeleteKeeps ==
  ASSUME TablesType, LiveUsed, ParentsRegular, NEW gone \in SUBSET Ids, DeleteRows(gone),
         UNCHANGED used
  PROVE  /\ row' \in Rows /\ link' \in [Ids -> [Datasets -> Links]]
         /\ LiveUsed' /\ ParentsRegular'
         /\ \A i \in Ids : i \in Live' => i \in Live /\ row'[i] = row[i] /\ link'[i] = link[i]
         /\ LinksLive => LinksLive'
<1> USE IngestionAssumption, RowAssumption
<1>1. \A i \in Ids : row'[i] = IF i \in Cascade(gone) THEN NoRow ELSE row[i]
  BY DEF DeleteRows
<1>2. row' \in Rows /\ link' \in [Ids -> [Datasets -> Links]]
  BY DEF DeleteRows, TablesType, Rows, NoLinks, Links
<1>3. \A i \in Ids : i \in Live' => i \in Live /\ row'[i] = row[i] /\ i \notin Cascade(gone)
  BY <1>1 DEF Live
<1>4. LiveUsed'
  BY <1>3 DEF LiveUsed, Live
<1>5. ASSUME NEW i \in Live', row'[i].parent # NoId
      PROVE  /\ row'[i].urn \in Wrappers /\ row'[i].parent \in Live'
             /\ row'[row'[i].parent].parent = NoId /\ row'[row'[i].parent].urn \in Regular
  <2>1. i \in Live /\ row'[i] = row[i] /\ i \notin Cascade(gone)
    BY <1>3, <1>5 DEF Live
  <2> DEFINE p == row[i].parent
  <2>2. /\ row[i].urn \in Wrappers /\ p \in Live
        /\ row[p].parent = NoId /\ row[p].urn \in Regular
    BY <1>5, <2>1 DEF ParentsRegular
  <2>3. p \notin gone
    BY <2>1 DEF Cascade
  <2>4. p \notin Cascade(gone)
    BY <2>2, <2>3 DEF Cascade
  <2>5. p \in Ids /\ row'[p] = row[p] /\ p \in Live'
    BY <1>1, <2>2, <2>4 DEF Live
  <2> QED BY <2>1, <2>2, <2>5
<1>6. \A i \in Ids : link'[i] = IF i \in Cascade(gone) THEN NoLinks ELSE link[i]
  BY DEF DeleteRows
<1>7. \A i \in Ids : i \in Live' => link'[i] = link[i]
  BY <1>3, <1>6
<1>8. ASSUME LinksLive, NEW i \in Ids, NEW d \in Datasets, link'[i][d] # "none" PROVE i \in Live'
  <2>1. i \notin Cascade(gone)
    BY <1>6, <1>8 DEF NoLinks
  <2>2. i \in Live
    BY <1>6, <1>8, <2>1 DEF LinksLive
  <2> QED BY <1>1, <2>1, <2>2 DEF Live
<1>9. LinksLive => LinksLive'
  BY <1>8 DEF LinksLive
<1> QED BY <1>2, <1>3, <1>4, <1>5, <1>7, <1>9 DEF ParentsRegular

\* _upsert_managed_row: the ids of the URNs it writes.  A row that was found is the row of
\* its URN, and a new one was never used, so no two URNs share a row.
LEMMA UpsertIds ==
  ASSUME TablesType, SessionsType, FoundStands, NEW w \in Sweeps, NEW us \in SUBSET Urns,
         ~Gone(w, us), NewIds(w, us) # {}
  PROVE  /\ \A u \in us : \/ IdOf(w, us)[u] \in Ids \ used
                          \/ IdOf(w, us)[u] \in Live /\ row[IdOf(w, us)[u]].urn = u
         /\ \A u, v \in us : IdOf(w, us)[u] = IdOf(w, us)[v] => u = v
<1> DEFINE F == Fresh(w, us)
           f == CHOOSE g \in NewIds(w, us) : TRUE
           id == IdOf(w, us)
<1>1. f \in [F -> Ids \ used] /\ \A u, v \in F : f[u] = f[v] => u = v
  <2>1. f \in NewIds(w, us)
    OBVIOUS
  <2> QED BY <2>1 DEF NewIds
<1>2. \A u \in us : id[u] = IF u \in F THEN f[u] ELSE sweep[w].found[u]
  BY DEF IdOf
<1>3. F \subseteq us
  BY DEF Fresh
<1> HIDE DEF f
<1>4. ASSUME NEW u \in us \ F
      PROVE  id[u] = sweep[w].found[u] /\ id[u] \in Live /\ row[id[u]].urn = u
  <2>1. sweep[w].found[u] # NoId
    BY DEF Fresh
  <2>2. sweep[w].found[u] \in Live
    BY DEF Gone
  <2>3. row[sweep[w].found[u]].urn = u
    BY <2>1, <2>2 DEF FoundStands
  <2> QED BY <1>2, <2>2, <2>3
<1>5. ASSUME NEW u \in F PROVE id[u] = f[u] /\ id[u] \in Ids \ used
  BY <1>1, <1>2, <1>3
<1>6. \A u \in us \ F : id[u] \in used
  <2> SUFFICES ASSUME NEW u \in us \ F PROVE id[u] \in used
    OBVIOUS
  <2>1. sweep[w].found[u] # NoId
    BY DEF Fresh
  <2> QED BY <1>4, <2>1 DEF FoundStands
<1> HIDE DEF F, id
<1>7. ASSUME NEW u \in us, NEW v \in us, id[u] = id[v] PROVE u = v
  <2>1. CASE u \in F /\ v \in F
    BY <1>1, <1>5, <1>7, <2>1
  <2>2. CASE u \notin F /\ v \notin F
    BY <1>4, <1>7, <2>2
  <2>3. CASE u \in F /\ v \notin F
    BY <1>5, <1>6, <1>7, <2>3
  <2>4. CASE u \notin F /\ v \in F
    BY <1>5, <1>6, <1>7, <2>4
  <2> QED BY <2>1, <2>2, <2>3, <2>4
<1>8. \A u \in us : id[u] \in Ids \ used \/ (id[u] \in Live /\ row[id[u]].urn = u)
  BY <1>4, <1>5
<1> QED BY <1>7, <1>8 DEF id

\* ... and the rows: every URN has its own, the others are as they were.
LEMMA UpsertRows ==
  ASSUME TablesType, SessionsType, LiveUsed, FoundStands, NEW w \in Sweeps,
         NEW us \in SUBSET Listed(w), NEW parent \in [us -> Ids \cup {NoId}],
         ~Gone(w, us), NewIds(w, us) # {}, _upsert_managed_row(w, us, parent)
  PROVE  /\ row' \in Rows /\ used \subseteq used' /\ used' \subseteq Ids
         /\ \A u \in us : /\ IdOf(w, us)[u] \in Live' /\ IdOf(w, us)[u] \in used'
                          /\ row'[IdOf(w, us)[u]].urn = u
                          /\ row'[IdOf(w, us)[u]].parent = parent[u]
         /\ \A i \in Ids : (\A u \in us : IdOf(w, us)[u] # i) => row'[i] = row[i]
         /\ \A i \in Live : i \in Live' /\ row'[i].urn = row[i].urn
         /\ \A i \in used : i \in Live' => i \in Live /\ row'[i].urn = row[i].urn
         /\ LiveUsed'
<1> USE IngestionAssumption, RowAssumption
<1> DEFINE id == IdOf(w, us)
           Source(i) == CHOOSE u \in us : id[u] = i
           new(u) == [mode |-> "DATAHUB_MANAGED", urn |-> u, parent |-> parent[u],
                      recipe |-> sweep[w].list[u]]
<1>1. us \subseteq Urns
  BY DEF Listed
<1>2. /\ \A u \in us : id[u] \in Ids \ used \/ (id[u] \in Live /\ row[id[u]].urn = u)
      /\ \A u, v \in us : id[u] = id[v] => u = v
  BY <1>1, UpsertIds
<1>3. \A u \in us : id[u] \in Ids
  BY <1>2 DEF Live
<1>4. /\ row' = [i \in Ids |-> IF \E u \in us : id[u] = i THEN new(Source(i)) ELSE row[i]]
      /\ used' = used \cup {id[u] : u \in us}
  BY DEF _upsert_managed_row
<1> HIDE DEF id
<1>5. \A u \in us : Source(id[u]) = u
  BY <1>2
<1> HIDE DEF Source
<1>6. ASSUME NEW u \in us PROVE new(u) \in Row
  <2>1. sweep[w].list[u] \in Recipes
    BY <1>1 DEF SessionsType, Sweep, Listed
  <2> QED BY <1>1, <2>1 DEF Row
<1>7. \A u \in us : row'[id[u]] = new(u)
  BY <1>3, <1>4, <1>5
<1>8. \A i \in Ids : (\A u \in us : id[u] # i) => row'[i] = row[i]
  BY <1>4
<1>9. \A u \in us : /\ id[u] \in Live' /\ id[u] \in used'
                    /\ row'[id[u]].urn = u /\ row'[id[u]].parent = parent[u]
  <2> SUFFICES ASSUME NEW u \in us
               PROVE  /\ id[u] \in Live' /\ id[u] \in used'
                      /\ row'[id[u]].urn = u /\ row'[id[u]].parent = parent[u]
    OBVIOUS
  <2>0. row'[id[u]] = new(u)
    BY <1>7
  <2>1. row'[id[u]].urn = u /\ row'[id[u]].parent = parent[u]
    BY <2>0
  <2>2. row'[id[u]] \in Row
    BY <1>6, <1>7, ZenonT(60)
  <2>3. id[u] \in Live'
    BY <1>3, <2>2 DEF Live
  <2> QED BY <1>4, <2>1, <2>3
<1>10. row' \in Rows
  <2>1. \A i \in Ids : row'[i] \in Row \cup {NoRow}
    <3> SUFFICES ASSUME NEW i \in Ids PROVE row'[i] \in Row \cup {NoRow}
      OBVIOUS
    <3>1. ASSUME NEW u \in us, id[u] = i PROVE row'[i] \in Row
      BY <1>6, <1>7, <3>1, ZenonT(60)
    <3>2. CASE \A u \in us : id[u] # i
      BY <1>8, <3>2 DEF TablesType, Rows
    <3> QED BY <3>1, <3>2
  <2> QED BY <1>4, <2>1 DEF Rows
<1>11. used \subseteq used' /\ used' \subseteq Ids
  BY <1>3, <1>4 DEF TablesType
<1>12. \A i \in Live : i \in Live' /\ row'[i].urn = row[i].urn
  <2> SUFFICES ASSUME NEW i \in Live PROVE i \in Live' /\ row'[i].urn = row[i].urn
    OBVIOUS
  <2>1. i \in Ids /\ i \in used
    BY DEF Live, LiveUsed
  <2>2. ASSUME NEW u \in us, id[u] = i PROVE i \in Live' /\ row'[i].urn = row[i].urn
    BY <1>2, <1>9, <2>1, <2>2
  <2>3. CASE \A u \in us : id[u] # i
    BY <1>8, <2>1, <2>3 DEF Live
  <2> QED BY <2>2, <2>3
<1>13. \A i \in used : i \in Live' => i \in Live
  <2> SUFFICES ASSUME NEW i \in used, i \in Live' PROVE i \in Live
    OBVIOUS
  <2>1. i \in Ids
    BY DEF TablesType
  <2>2. CASE \A u \in us : id[u] # i
    BY <1>8, <2>1, <2>2 DEF Live
  <2> QED BY <1>2, <2>2
<1>14. LiveUsed'
  <2> SUFFICES ASSUME NEW i \in Ids, i \in Live' PROVE i \in used'
    BY DEF LiveUsed, Live
  <2>1. CASE \A u \in us : id[u] # i
    BY <1>8, <1>11, <2>1 DEF Live, LiveUsed
  <2> QED BY <1>9, <2>1
<1> QED BY <1>8, <1>9, <1>10, <1>11, <1>12, <1>13, <1>14 DEF id

----------------------------------------------------------------------------
\* The source endpoints.

\* Rows keep their URN and their parent.
LEMMA RowsEdited ==
  ASSUME TablesType, LiveUsed, ParentsRegular, FoundStands, UNCHANGED <<used, sweep>>,
         Live' = Live,
         \A j \in Live : row'[j].urn = row[j].urn /\ row'[j].parent = row[j].parent
  PROVE  LiveUsed' /\ ParentsRegular' /\ FoundStands'
<1>1. LiveUsed'
  BY DEF LiveUsed
<1>2. ParentsRegular'
  BY DEF ParentsRegular
<1>3. FoundStands'
  BY FoundKept
<1> QED BY <1>1, <1>2, <1>3

LEMMA CreateStep ==
  ASSUME IngestionInv, NEW m \in Modes, NEW r \in Recipes, create_source(m, r)
  PROVE  /\ row' \in Rows /\ used' \subseteq Ids /\ LiveUsed' /\ ParentsRegular' /\ FoundStands'
         /\ used \subseteq used' /\ (\A i \in Live : i \in Live') /\ \A i \in used : i \in Live' => i \in Live
<1> USE IngestionAssumption, RowAssumption DEF IngestionInv
<1> DEFINE new == [mode |-> m, urn |-> NoUrn, parent |-> NoId, recipe |-> r]
<1>1. NewId \in Ids \ used
  BY DEF create_source, NewId, TablesType
<1>2. new \in Row /\ new.parent = NoId
  BY DEF Row
<1>3. row' = [row EXCEPT ![NewId] = new] /\ used' = used \cup {NewId} /\ UNCHANGED sweep
  BY DEF create_source
<1> HIDE DEF new
<1>4. PICK n \in Ids \ used : n = NewId
  BY <1>1
<1>5. /\ row' \in Rows /\ used' \subseteq Ids
      /\ row'[n] = new /\ \A j \in Ids \ {n} : row'[j] = row[j]
  BY <1>2, <1>3, <1>4 DEF TablesType, Rows
<1>6. Live' = Live \cup {n} /\ n \notin Live
  BY <1>2, <1>4, <1>5 DEF Live, LiveUsed
<1>7. LiveUsed'
  BY <1>3, <1>4, <1>6 DEF LiveUsed
<1>8. ParentsRegular'
  BY <1>2, <1>5, <1>6 DEF ParentsRegular, Live
<1>9. FoundStands'
  <2>1. \A i \in used : i \in Live' => i \in Live /\ row'[i].urn = row[i].urn
    BY <1>4, <1>5, <1>6 DEF Live
  <2> QED BY <1>3, <2>1, FoundKept
<1>10. used \subseteq used' /\ (\A i \in Live : i \in Live') /\ \A i \in used : i \in Live' => i \in Live
  BY <1>3, <1>4, <1>6
<1> QED BY <1>5, <1>7, <1>8, <1>9, <1>10

LEMMA EditStep ==
  ASSUME IngestionInv, NEW i \in Ids, NEW m \in Modes, NEW r \in Recipes,
         replace_source(i, m, r) \/ patch_source(i, r)
  PROVE  row' \in Rows /\ LiveUsed' /\ ParentsRegular' /\ FoundStands' /\ Live' = Live
<1> USE IngestionAssumption, RowAssumption DEF IngestionInv
<1>1. /\ i \in Live /\ UNCHANGED <<used, sweep>>
      /\ \/ row' = [row EXCEPT ![i].mode = m, ![i].recipe = r]
         \/ row' = [row EXCEPT ![i].recipe = r]
  BY DEF replace_source, patch_source
<1>2. row[i] \in Row
  BY <1>1 DEF TablesType, Rows, Live
<1>3. /\ row' \in Rows /\ row'[i] \in Row
      /\ row'[i].urn = row[i].urn /\ row'[i].parent = row[i].parent
      /\ \A j \in Ids \ {i} : row'[j] = row[j]
  <2>1. CASE row' = [row EXCEPT ![i].mode = m, ![i].recipe = r]
    BY <1>2, <2>1, ZenonT(60) DEF TablesType, Rows, Row
  <2>2. CASE row' = [row EXCEPT ![i].recipe = r]
    BY <1>2, <2>2, ZenonT(60) DEF TablesType, Rows, Row
  <2> QED BY <1>1, <2>1, <2>2
<1>4. Live' = Live
  BY <1>1, <1>3 DEF Live
<1>5. \A j \in Live : row'[j].urn = row[j].urn /\ row'[j].parent = row[j].parent
  BY <1>3 DEF Live
<1> QED BY <1>1, <1>3, <1>4, <1>5, RowsEdited

LEMMA SourceStep ==
  ASSUME IngestionInv, SourceRequest PROVE IngestionInv'
<1> USE IngestionAssumption, RowAssumption DEF IngestionInv
<1>0. UNCHANGED <<hub, reg, sweep, run, check, health>> /\ Change
  BY DEF SourceRequest, create_source, replace_source, patch_source, delete_source
<1>1. SessionsType' /\ RestType'
  BY <1>0 DEF SessionsType, RestType, Change
<1>r. ASSUME \A i \in used : i \in Live' => i \in Live /\ link'[i] = link[i], used \subseteq used'
      PROVE  ReadMatched'
  BY <1>0, <1>r, ReadKept
<1>2. ASSUME NEW m \in Modes, NEW r \in Recipes, create_source(m, r) PROVE IngestionInv'
  <2>1. UNCHANGED <<link, reg>>
    BY <1>2 DEF create_source
  <2>2. /\ row' \in Rows /\ used' \subseteq Ids /\ LiveUsed' /\ ParentsRegular' /\ FoundStands'
        /\ used \subseteq used' /\ (\A i \in Live : i \in Live') /\ \A i \in used : i \in Live' => i \in Live
    BY <1>2, CreateStep
  <2>3. LinksLive' /\ ReadMatched'
    BY <1>r, <2>1, <2>2, LinksStill
  <2> QED BY <1>1, <2>1, <2>2, <2>3 DEF TablesType
<1>3. ASSUME NEW i \in Ids, NEW m \in Modes, NEW r \in Recipes, replace_source(i, m, r)
      PROVE  IngestionInv'
  <2>1. UNCHANGED <<used, link, reg>>
    BY <1>3 DEF replace_source
  <2>2. row' \in Rows /\ LiveUsed' /\ ParentsRegular' /\ FoundStands' /\ Live' = Live
    BY <1>3, EditStep
  <2>3. LinksLive' /\ ReadMatched'
    BY <1>r, <2>1, <2>2, LinksStill
  <2> QED BY <1>1, <2>1, <2>2, <2>3 DEF TablesType
<1>4. ASSUME NEW i \in Ids, NEW r \in Recipes, patch_source(i, r) PROVE IngestionInv'
  <2>1. UNCHANGED <<used, link, reg>> /\ row[i].mode \in Modes
    BY <1>4 DEF patch_source, Authored
  <2>2. row' \in Rows /\ LiveUsed' /\ ParentsRegular' /\ FoundStands' /\ Live' = Live
    BY <1>4, <2>1, EditStep
  <2>3. LinksLive' /\ ReadMatched'
    BY <1>r, <2>1, <2>2, LinksStill
  <2> QED BY <1>1, <2>1, <2>2, <2>3 DEF TablesType
<1>5. ASSUME NEW i \in Ids, delete_source(i) PROVE IngestionInv'
  <2>1. DeleteRows({i}) /\ UNCHANGED <<used, reg>>
    BY <1>5 DEF delete_source
  <2>2. /\ row' \in Rows /\ link' \in [Ids -> [Datasets -> Links]] /\ LiveUsed' /\ ParentsRegular'
        /\ \A j \in Ids : j \in Live' => j \in Live /\ row'[j] = row[j] /\ link'[j] = link[j]
        /\ LinksLive'
    BY <2>1, DeleteKeeps
  <2>3. FoundStands'
    BY <1>0, <2>1, <2>2, FoundKept DEF TablesType
  <2>4. ReadMatched'
    BY <1>r, <2>1, <2>2 DEF TablesType
  <2> QED BY <1>1, <2>1, <2>2, <2>3, <2>4 DEF TablesType
<1> QED BY <1>2, <1>3, <1>4, <1>5 DEF SourceRequest

----------------------------------------------------------------------------
\* The sweep.

LEMMA GotoTypes ==
  ASSUME SessionsType, NEW w \in Sweeps, NEW pc, Goto(w, pc), UNCHANGED <<run, check>>,
         pc \in {"idle", "pass_a", "pass_b", "remove", "map", "prune", "reconcile", "attrs", "pipeline"}
  PROVE  /\ SessionsType' /\ sweep'[w].pc = pc /\ sweep'[w].found = sweep[w].found
         /\ \A x \in Sweeps \ {w} : sweep'[x] = sweep[x]
<1>1. sweep' = [sweep EXCEPT ![w] = [sweep[w] EXCEPT !.pc = pc]] /\ sweep[w] \in Sweep
  BY DEF Goto, SessionsType
<1>2. [sweep[w] EXCEPT !.pc = pc] \in Sweep
  BY <1>1 DEF Sweep
<1>3. SessionsType' /\ sweep'[w] = [sweep[w] EXCEPT !.pc = pc] /\ \A x \in Sweeps \ {w} : sweep'[x] = sweep[x]
  BY <1>1, <1>2 DEF SessionsType
<1> QED BY <1>1, <1>3 DEF Sweep

\* An exception that escapes the sweep.
LEMMA EscapeStep ==
  ASSUME IngestionInv, NEW w \in Sweeps, Escape(w), changes' \in 0 .. MaxChanges,
         faults' \in 0 .. MaxFaults
  PROVE  IngestionInv'
<1> USE DEF IngestionInv
<1>1. /\ sweep' = [sweep EXCEPT ![w] = IdleSweep] /\ health' = "error"
      /\ UNCHANGED <<hub, row, used, link, reg, run, check>>
  BY DEF Escape, tables
<1>2. SessionsType' /\ sweep'[w] = IdleSweep /\ \A x \in Sweeps \ {w} : sweep'[x] = sweep[x]
  BY <1>1, IdleTypes DEF SessionsType
<1>3. TablesType' /\ RestType'
  BY <1>1 DEF TablesType, RestType
<1>4. LiveUsed' /\ ParentsRegular' /\ FoundStands'
  BY <1>1, <1>2, IdleTypes, RowsStill
<1>5. LinksLive' /\ ReadMatched'
  <2>1. Live' = Live
    BY <1>1 DEF Live
  <2> QED BY <1>1, <1>2, <2>1, IdleTypes, ReadElsewhere, LinksStill
<1> QED BY <1>2, <1>3, <1>4, <1>5

\* A sweep that starts finds the row of each URN.
LEMMA RowFound ==
  ASSUME LiveUsed, NEW u \in Urns, RowOf(u) # NoId
  PROVE  RowOf(u) \in Ids /\ RowOf(u) \in Live /\ RowOf(u) \in used /\ row[RowOf(u)].urn = u
<1>1. RowOf(u) \in RowsOf(u)
  BY DEF RowOf
<1> QED BY <1>1 DEF RowsOf, Managed, Live, LiveUsed

LEMMA StartStep ==
  ASSUME IngestionInv, NEW w \in Sweeps, sync_start(w)
  PROVE  IngestionInv'
<1> USE DEF IngestionInv
<1> DEFINE us == Regular \cap hub.srcs
           found == [u \in Urns |-> IF u \in us THEN RowOf(u) ELSE NoId]
           rec == [IdleSweep EXCEPT !.pc = "pass_a", !.list = list_ingestion_sources, !.found = found]
<1>0. UNCHANGED bounds /\ changes' \in 0 .. MaxChanges /\ faults' \in 0 .. MaxFaults
  BY DEF sync_start, bounds, RestType
<1>1. CASE Unique(us)
  <2>1. sweep' = [sweep EXCEPT ![w] = rec] /\ UNCHANGED <<hub, row, used, link, reg, run, check, health>>
    BY <1>1 DEF sync_start, tables
  <2>2. list_ingestion_sources \in [Urns -> Recipes \cup {NotListed}]
    BY DEF list_ingestion_sources, RestType, Hub
  <2>3. found \in [Urns -> Ids \cup {NoId}]
    <3>1. \A u \in Urns : RowOf(u) \in Ids \cup {NoId}
      BY RowFound
    <3> QED BY <3>1
  <2>4. \A u \in Urns : found[u] # NoId => found[u] \in used /\ row[found[u]].urn = u
    BY RowFound
  <2> HIDE DEF found
  <2>5. rec \in Sweep /\ rec.found = found /\ rec.pc = "pass_a"
    BY <2>2, <2>3, IdleTypes DEF Sweep
  <2> HIDE DEF rec
  <2>6. SessionsType' /\ sweep'[w] = rec /\ \A x \in Sweeps \ {w} : sweep'[x] = sweep[x]
    BY <2>1, <2>5 DEF SessionsType
  <2>7. TablesType' /\ RestType' /\ LiveUsed' /\ ParentsRegular'
    BY <1>0, <2>1 DEF TablesType, RestType, LiveUsed, ParentsRegular, Live, bounds
  <2>8. FoundStands'
    <3>1. Live' = Live
      BY <2>1 DEF Live
    <3> QED BY <2>1, <2>4, <2>5, <2>6, <3>1 DEF FoundStands
  <2>9. LinksLive' /\ ReadMatched'
    <3>1. Live' = Live
      BY <2>1 DEF Live
    <3> QED BY <2>1, <2>5, <2>6, <3>1, ReadElsewhere, LinksStill
  <2> QED BY <2>6, <2>7, <2>8, <2>9
<1>2. CASE ~Unique(us)
  BY <1>0, <1>2, EscapeStep DEF sync_start
<1> QED BY <1>1, <1>2

\* Pass A: the rows of regular sources have no parent.
LEMMA PassAStep ==
  ASSUME IngestionInv, NEW w \in Sweeps, pass_a(w)
  PROVE  IngestionInv'
<1> USE DEF IngestionInv
<1> DEFINE us == Regular \cap Listed(w)
           id == IdOf(w, us)
           parent == [u \in us |-> NoId]
           found == [u \in Urns |-> IF u \in us THEN id[u] ELSE IF u \in Linked(w) THEN RowOf(u) ELSE NoId]
<1>0. UNCHANGED bounds /\ changes' \in 0 .. MaxChanges /\ faults' \in 0 .. MaxFaults
  BY DEF pass_a, bounds, RestType
<1>1. CASE Gone(w, us)
  BY <1>0, <1>1, EscapeStep DEF pass_a
<1>2. CASE ~Gone(w, us)
  <2>1. /\ NewIds(w, us) # {} /\ _upsert_managed_row(w, us, parent)
        /\ UNCHANGED <<hub, link, reg, run, check>>
        /\ \/ /\ sweep' = [sweep EXCEPT ![w].pc = "pass_b", ![w].found = found] /\ UNCHANGED health
           \/ sweep' = [sweep EXCEPT ![w] = IdleSweep] /\ health' = "error"
    BY <1>2 DEF pass_a
  <2>2. us \in SUBSET Listed(w) /\ parent \in [us -> Ids \cup {NoId}] /\ us \subseteq Urns
    BY DEF Listed
  <2>p. \A u \in us : parent[u] = NoId
    OBVIOUS
  <2> HIDE DEF us, id, parent, found
  <2>3. /\ row' \in Rows /\ used \subseteq used' /\ used' \subseteq Ids /\ LiveUsed'
        /\ \A u \in us : id[u] \in Live' /\ id[u] \in used' /\ row'[id[u]].urn = u /\ row'[id[u]].parent = parent[u]
        /\ \A i \in Ids : (\A u \in us : id[u] # i) => row'[i] = row[i]
        /\ \A i \in Live : i \in Live' /\ row'[i].urn = row[i].urn
        /\ \A i \in used : i \in Live' => i \in Live /\ row'[i].urn = row[i].urn
    BY <1>2, <2>1, <2>2, UpsertRows DEF id
  <2>4. \A u \in us : row'[id[u]].parent = NoId
    BY <2>p, <2>3
  <2> USE DEF us, found
  <2>5. ParentsRegular'
    <3> SUFFICES ASSUME NEW i \in Live', row'[i].parent # NoId
                 PROVE  /\ row'[i].urn \in Wrappers /\ row'[i].parent \in Live'
                        /\ row'[row'[i].parent].parent = NoId /\ row'[row'[i].parent].urn \in Regular
      BY DEF ParentsRegular
    <3>1. i \in Ids /\ row'[i] = row[i] /\ i \in Live
      BY <2>3, <2>4 DEF Live
    <3> DEFINE p == row[i].parent
    <3>2. row[i].urn \in Wrappers /\ p \in Live /\ row[p].parent = NoId /\ row[p].urn \in Regular
      BY <3>1 DEF ParentsRegular
    <3>3. p \in Ids /\ p \in Live' /\ row'[p].urn = row[p].urn
      BY <2>3, <3>2 DEF Live
    <3>4. row'[p].parent = NoId
      BY <2>3, <2>4, <3>2, <3>3
    <3> QED BY <3>1, <3>2, <3>3, <3>4
  <2>6. TablesType' /\ RestType'
    BY <1>0, <2>1, <2>3 DEF TablesType, RestType
  <2>7. CASE sweep' = [sweep EXCEPT ![w] = IdleSweep]
    <3>1. SessionsType' /\ sweep'[w] = IdleSweep /\ \A x \in Sweeps \ {w} : sweep'[x] = sweep[x]
      BY <2>1, <2>7, IdleTypes DEF SessionsType
    <3>2. FoundStands'
      BY <2>3, <3>1, IdleTypes, FoundKept
    <3>3. LinksLive' /\ ReadMatched'
      BY <2>1, <2>3, <3>1, IdleTypes, ReadElsewhere, LinksStill
    <3> QED BY <2>3, <2>5, <2>6, <3>1, <3>2, <3>3
  <2>8. CASE sweep' = [sweep EXCEPT ![w].pc = "pass_b", ![w].found = found]
    <3>1. \A u \in Urns : /\ found[u] \in Ids \cup {NoId}
                          /\ found[u] # NoId => /\ found[u] \in used'
                                                /\ found[u] \in Live' => row'[found[u]].urn = u
      <4> SUFFICES ASSUME NEW u \in Urns
                   PROVE  /\ found[u] \in Ids \cup {NoId}
                          /\ found[u] # NoId => /\ found[u] \in used'
                                                /\ found[u] \in Live' => row'[found[u]].urn = u
        OBVIOUS
      <4>1. CASE u \in us
        BY <2>3, <4>1 DEF Live
      <4>2. CASE u \notin us /\ u \in Linked(w)
        <5>1. found[u] = RowOf(u)
          BY <4>2
        <5>2. RowOf(u) # NoId => RowOf(u) \in Ids /\ RowOf(u) \in Live /\ RowOf(u) \in used
                                 /\ row[RowOf(u)].urn = u
          BY RowFound
        <5> QED BY <2>3, <5>1, <5>2
      <4>3. CASE u \notin us /\ u \notin Linked(w)
        BY <4>3
      <4> QED BY <4>1, <4>2, <4>3
    <3>2. found \in [Urns -> Ids \cup {NoId}]
      BY <3>1
    <3> HIDE DEF found
    <3>3. /\ SessionsType' /\ sweep'[w].pc = "pass_b" /\ sweep'[w].found = found
          /\ \A x \in Sweeps \ {w} : sweep'[x] = sweep[x]
      BY <2>1, <2>8, <3>2, ZenonT(60) DEF SessionsType, Sweep
    <3>4. FoundStands'
      <4> SUFFICES ASSUME NEW x \in Sweeps, NEW u \in Urns, sweep'[x].found[u] # NoId
                   PROVE  /\ sweep'[x].found[u] \in used'
                          /\ sweep'[x].found[u] \in Live' => row'[sweep'[x].found[u]].urn = u
        BY DEF FoundStands
      <4>1. CASE x = w
        BY <3>1, <3>3, <4>1
      <4>2. CASE x # w
        BY <2>3, <3>3, <4>2 DEF FoundStands
      <4> QED BY <4>1, <4>2
    <3>5. LinksLive' /\ ReadMatched'
      BY <2>1, <2>3, <3>3, ReadElsewhere, LinksStill
    <3> QED BY <2>3, <2>5, <2>6, <3>3, <3>4, <3>5
  <2> QED BY <2>1, <2>7, <2>8
<1> QED BY <1>1, <1>2

\* Pass B: the parent of a wrapper is the row that pass A wrote for its pipeline_name, if
\* it is still there; no row of a wrapper is a parent.
LEMMA PassBStep ==
  ASSUME IngestionInv, NEW w \in Sweeps, pass_b(w)
  PROVE  IngestionInv'
<1> USE IngestionAssumption DEF IngestionInv
<1> DEFINE us == Linked(w)
           id == IdOf(w, us)
           parent == [u \in us |-> sweep[w].found[ParentUrn[u]]]
<1>0. UNCHANGED bounds /\ changes' \in 0 .. MaxChanges /\ faults' \in 0 .. MaxFaults
  BY DEF pass_b, bounds, RestType
<1>1. CASE Gone(w, us) \/ \E u \in us : parent[u] \notin Live
  BY <1>0, <1>1, EscapeStep DEF pass_b
<1>2. CASE ~(Gone(w, us) \/ \E u \in us : parent[u] \notin Live)
  <2>1. /\ NewIds(w, us) # {} /\ _upsert_managed_row(w, us, parent) /\ Goto(w, "remove")
        /\ UNCHANGED <<hub, link, reg, run, check, health>>
    BY <1>2 DEF pass_b
  <2>2. us \in SUBSET Listed(w) /\ us \subseteq Wrappers /\ us \subseteq Urns
    BY DEF Linked, Listed
  <2>3. ASSUME NEW u \in us
        PROVE  /\ parent[u] \in Live /\ row[parent[u]].urn \in Regular
               /\ row[parent[u]].parent = NoId
    <3>1. ParentUrn[u] \in Regular /\ ParentUrn[u] \in Urns
      BY <2>2 DEF Linked, Listed, Urns
    <3>2. parent[u] \in Live /\ parent[u] = sweep[w].found[ParentUrn[u]] /\ parent[u] \in Ids
      BY <1>2 DEF Live
    <3>3. row[parent[u]].urn = ParentUrn[u]
      BY <3>1, <3>2 DEF FoundStands
    <3>4. row[parent[u]].parent = NoId
      BY <3>1, <3>2, <3>3 DEF ParentsRegular
    <3> QED BY <3>1, <3>2, <3>3, <3>4
  <2>4. parent \in [us -> Ids \cup {NoId}]
    BY <2>3 DEF Live
  <2>5. /\ row' \in Rows /\ used \subseteq used' /\ used' \subseteq Ids /\ LiveUsed'
        /\ \A u \in us : id[u] \in Live' /\ id[u] \in used' /\ row'[id[u]].urn = u /\ row'[id[u]].parent = parent[u]
        /\ \A i \in Ids : (\A u \in us : id[u] # i) => row'[i] = row[i]
        /\ \A i \in Live : i \in Live' /\ row'[i].urn = row[i].urn
        /\ \A i \in used : i \in Live' => i \in Live /\ row'[i].urn = row[i].urn
    BY <1>2, <2>1, <2>2, <2>4, UpsertRows
  <2> HIDE DEF id, parent
  <2>6. ASSUME NEW p \in Live, row[p].urn \in Regular
        PROVE  p \in Live' /\ row'[p] = row[p]
    <3>1. \A u \in us : id[u] # p
      BY <2>2, <2>5, <2>6
    <3> QED BY <2>5, <3>1 DEF Live
  <2>7. ParentsRegular'
    <3> SUFFICES ASSUME NEW i \in Live', row'[i].parent # NoId
                 PROVE  /\ row'[i].urn \in Wrappers /\ row'[i].parent \in Live'
                        /\ row'[row'[i].parent].parent = NoId /\ row'[row'[i].parent].urn \in Regular
      BY DEF ParentsRegular
    <3>1. ASSUME NEW u \in us, id[u] = i
          PROVE  /\ row'[i].urn \in Wrappers /\ row'[i].parent \in Live'
                 /\ row'[row'[i].parent].parent = NoId /\ row'[row'[i].parent].urn \in Regular
      <4>1. row'[i].urn = u /\ row'[i].parent = parent[u]
        BY <2>5, <3>1
      <4>2. parent[u] \in Live' /\ row'[parent[u]] = row[parent[u]]
        BY <2>3, <2>6
      <4> QED BY <2>2, <2>3, <4>1, <4>2
    <3>2. CASE \A u \in us : id[u] # i
      <4>1. i \in Ids /\ row'[i] = row[i] /\ i \in Live
        BY <2>5, <3>2 DEF Live
      <4>2. /\ row[i].urn \in Wrappers /\ row[i].parent \in Live
            /\ row[row[i].parent].parent = NoId /\ row[row[i].parent].urn \in Regular
        BY <4>1 DEF ParentsRegular
      <4> QED BY <2>6, <4>1, <4>2
    <3> QED BY <3>1, <3>2
  <2>8. /\ SessionsType' /\ sweep'[w].pc = "remove" /\ sweep'[w].found = sweep[w].found
        /\ \A x \in Sweeps \ {w} : sweep'[x] = sweep[x]
    BY <2>1, GotoTypes
  <2>9. TablesType' /\ RestType'
    BY <1>0, <2>1, <2>5 DEF TablesType, RestType
  <2>10. FoundStands'
    BY <2>5, <2>8, FoundKept
  <2>11. LinksLive' /\ ReadMatched'
    BY <2>1, <2>5, <2>8, ReadElsewhere, LinksStill
  <2> QED BY <2>5, <2>7, <2>8, <2>9, <2>10, <2>11
<1> QED BY <1>1, <1>2

\* Stale rows go, and the sweep starts again from what DataHub answers.
LEMMA RemoveStep ==
  ASSUME IngestionInv, NEW w \in Sweeps, remove_stale(w)
  PROVE  IngestionInv'
<1> USE IngestionAssumption DEF IngestionInv
<1>1. DeleteRows(Stale(w)) /\ UNCHANGED <<hub, used, reg, run, check, health>>
  BY DEF remove_stale
<1>2. PICK data \in enumerate_datasets :
        /\ IF data = hub.data THEN UNCHANGED bounds ELSE Fault
        /\ sweep' = [sweep EXCEPT ![w] = [IdleSweep EXCEPT !.pc = "map", !.data = data, !.snap = row']]
  BY DEF remove_stale
<1>3. data \subseteq Datasets
  BY DEF enumerate_datasets, RestType, Hub
<1>4. Stale(w) \in SUBSET Ids
  BY DEF Stale
<1>5. /\ row' \in Rows /\ link' \in [Ids -> [Datasets -> Links]] /\ LiveUsed' /\ ParentsRegular'
      /\ (\A j \in Ids : j \in Live' => j \in Live /\ row'[j] = row[j]) /\ LinksLive'
  BY <1>1, <1>4, DeleteKeeps
<1> DEFINE rec == [IdleSweep EXCEPT !.pc = "map", !.data = data, !.snap = row']
<1>6. /\ rec \in Sweep /\ rec.pc = "map"
      /\ \A u \in Urns : rec.found[u] = NoId
  BY <1>3, <1>5, IdleTypes DEF Sweep
<1>7. sweep' = [sweep EXCEPT ![w] = rec]
  BY <1>2
<1> HIDE DEF rec
<1>8. SessionsType' /\ sweep'[w] = rec /\ \A x \in Sweeps \ {w} : sweep'[x] = sweep[x]
  BY <1>1, <1>6, <1>7 DEF SessionsType
<1>9. TablesType'
  BY <1>1, <1>5 DEF TablesType
<1>10. RestType'
  BY <1>1, <1>2 DEF RestType, bounds, Fault
<1>11. FoundStands'
  BY <1>1, <1>5, <1>6, <1>8, FoundKept DEF TablesType
<1>12. ReadMatched'
  BY <1>6, <1>8, ReadElsewhere
<1> QED BY <1>5, <1>8, <1>9, <1>10, <1>11, <1>12

\* Step 2: the matched rows as they are stored,
LEMMA ReadStep ==
  ASSUME IngestionInv, NEW w \in Sweeps, existing_matcher_rows(w)
  PROVE  IngestionInv'
<1> USE DEF IngestionInv
<1> DEFINE old == [i \in Ids |-> IF sweep[w].snap[i] = NoRow THEN {}
                                 ELSE {d \in Datasets : link[i][d] = "matched"}]
           rec == [sweep[w] EXCEPT !.pc = "prune", !.old = old]
<1>1. /\ sweep' = [sweep EXCEPT ![w].pc = "prune", ![w].old = old]
      /\ UNCHANGED <<hub, row, used, link, reg, run, check, health, changes, faults>>
  BY DEF existing_matcher_rows, tables, bounds
<1>2. old \in [Ids -> SUBSET Datasets] /\ \A i \in Ids : \A d \in old[i] : link[i][d] = "matched"
  OBVIOUS
<1> HIDE DEF old
<1>3. sweep' = [sweep EXCEPT ![w] = rec] /\ sweep[w] \in Sweep
  BY <1>1 DEF SessionsType
<1>4. rec \in Sweep /\ rec.found = sweep[w].found /\ rec.old = old
  BY <1>2, <1>3 DEF Sweep
<1> HIDE DEF rec
<1>5. SessionsType' /\ sweep'[w] = rec /\ \A x \in Sweeps \ {w} : sweep'[x] = sweep[x]
  BY <1>1, <1>3, <1>4 DEF SessionsType
<1>6. TablesType' /\ RestType'
  BY <1>1 DEF TablesType, RestType
<1>7. LiveUsed' /\ ParentsRegular' /\ FoundStands'
  BY <1>1, <1>4, <1>5, RowsStill
<1>8. Live' = Live
  BY <1>1 DEF Live
<1>9. LinksLive'
  BY <1>1, <1>8, LinksStill
<1>10. ReadMatched'
  <2> SUFFICES ASSUME NEW x \in Sweeps, Sweeps = {x}, NEW i \in Ids, NEW d \in sweep'[x].old[i]
               PROVE  i \in used' /\ link'[i][d] = "matched"
    BY DEF ReadMatched
  <2>1. x = w /\ d \in old[i]
    BY <1>4, <1>5
  <2>2. link[i][d] = "matched" /\ d \in Datasets
    BY <1>2, <2>1
  <2>3. i \in used
    BY <2>2 DEF LinksLive, LiveUsed
  <2> QED BY <1>1, <2>2, <2>3
<1> QED BY <1>5, <1>6, <1>7, <1>9, <1>10

\* ... and the links of the patterns.
LEMMA MapStep ==
  ASSUME IngestionInv, NEW w \in Sweeps, map_datasets(w)
  PROVE  IngestionInv'
<1> USE DEF IngestionInv
<1>0. UNCHANGED bounds /\ changes' \in 0 .. MaxChanges /\ faults' \in 0 .. MaxFaults
  BY DEF map_datasets, bounds, RestType
<1>1. CASE \E i \in Ids \ Live : Matched(w, i) # {}
  BY <1>0, <1>1, EscapeStep DEF map_datasets
<1>2. CASE ~(\E i \in Ids \ Live : Matched(w, i) # {})
  <2>1. /\ link' = [i \in Ids |-> [d \in Datasets |-> MappedLink(w, i, d)]]
        /\ sweep' = [sweep EXCEPT ![w].pc = "reconcile", ![w].old = IdleSweep.old, ![w].rows = reg]
        /\ UNCHANGED <<hub, row, used, reg, run, check, health>>
    BY <1>2 DEF map_datasets
  <2>2. \A i \in Ids, d \in Datasets : MappedLink(w, i, d) \in Links
    BY DEF MappedLink, TablesType, Links
  <2>3. link' \in [Ids -> [Datasets -> Links]]
    BY <2>1, <2>2
  <2> DEFINE rec == [sweep[w] EXCEPT !.pc = "reconcile", !.old = IdleSweep.old, !.rows = reg]
  <2>4. sweep' = [sweep EXCEPT ![w] = rec] /\ sweep[w] \in Sweep /\ IdleSweep.old \in [Ids -> SUBSET Datasets]
    BY <2>1, IdleTypes DEF SessionsType, Sweep
  <2>5. rec \in Sweep /\ rec.found = sweep[w].found /\ rec.pc = "reconcile"
    BY <2>4 DEF Sweep, TablesType
  <2> HIDE DEF rec
  <2>6. SessionsType' /\ sweep'[w] = rec /\ \A x \in Sweeps \ {w} : sweep'[x] = sweep[x]
    BY <2>1, <2>4, <2>5 DEF SessionsType
  <2>7. TablesType' /\ RestType'
    BY <1>0, <2>1, <2>3 DEF TablesType, RestType
  <2>8. LiveUsed' /\ ParentsRegular' /\ FoundStands'
    BY <2>1, <2>5, <2>6, RowsStill
  <2>9. LinksLive'
    <3> SUFFICES ASSUME NEW i \in Ids, NEW d \in Datasets, link'[i][d] # "none" PROVE i \in Live'
      BY DEF LinksLive
    <3>1. link[i][d] # "none" \/ d \in Matched(w, i)
      BY <2>1 DEF MappedLink
    <3>2. i \in Live
      BY <1>2, <3>1 DEF LinksLive
    <3> QED BY <2>1, <3>2 DEF Live
  <2>10. ReadMatched'
    BY <2>5, <2>6, ReadElsewhere
  <2> QED BY <2>6, <2>7, <2>8, <2>9, <2>10
<1> QED BY <1>1, <1>2

\* Step 2b: the registry.
LEMMA ReconcileStep ==
  ASSUME IngestionInv, NEW w \in Sweeps, reconcile_registry(w)
  PROVE  IngestionInv'
<1> USE DEF IngestionInv
<1>1. /\ sweep' = [sweep EXCEPT ![w].pc = "attrs", ![w].rows = IdleSweep.rows]
      /\ reg' = [d \in Known |-> Reconciled(w, d)] \/ UNCHANGED reg
      /\ UNCHANGED bounds \/ Fault
      /\ UNCHANGED <<hub, row, used, link, run, check, health>>
  BY DEF reconcile_registry
<1>2. \A d \in Known : Reconciled(w, d) \in Flags
  BY DEF Reconciled, TablesType, Flags
<1>3. TablesType'
  BY <1>1, <1>2 DEF TablesType
<1>4. RestType'
  BY <1>1, IngestionAssumption DEF RestType, bounds, Fault
<1> DEFINE rec == [sweep[w] EXCEPT !.pc = "attrs", !.rows = IdleSweep.rows]
<1>5. sweep' = [sweep EXCEPT ![w] = rec] /\ sweep[w] \in Sweep /\ IdleSweep.rows \in [Known -> Flags]
  BY <1>1, IdleTypes DEF SessionsType, Sweep
<1>6. rec \in Sweep /\ rec.found = sweep[w].found /\ rec.pc = "attrs"
  BY <1>5 DEF Sweep
<1> HIDE DEF rec
<1>7. SessionsType' /\ sweep'[w] = rec /\ \A x \in Sweeps \ {w} : sweep'[x] = sweep[x]
  BY <1>1, <1>5, <1>6, ZenonT(60) DEF SessionsType
<1>8. LiveUsed' /\ ParentsRegular' /\ FoundStands'
  BY <1>1, <1>6, <1>7, RowsStill
<1>9. LinksLive' /\ ReadMatched'
  <2>1. Live' = Live
    BY <1>1 DEF Live
  <2> QED BY <1>1, <1>6, <1>7, <2>1, ReadElsewhere, LinksStill
<1> QED BY <1>3, <1>4, <1>7, <1>8, <1>9

\* Step 3: the attributes.
LEMMA AttributesStep ==
  ASSUME IngestionInv, NEW w \in Sweeps, _sync_dataset_attributes(w)
  PROVE  IngestionInv'
<1> USE DEF IngestionInv
<1>1. /\ Goto(w, "pipeline") /\ UNCHANGED <<hub, row, used, link, run, check, health, bounds>>
  BY DEF _sync_dataset_attributes
<1>2. PICK read \in get_dataset_attributes :
        reg' = [d \in Known |-> IF d \in read /\ reg[d] = "absent" THEN "false" ELSE reg[d]]
  BY DEF _sync_dataset_attributes, upsert_dataset_attributes
<1>3. TablesType' /\ RestType'
  BY <1>1, <1>2 DEF TablesType, Flags, RestType, bounds
<1>4. /\ SessionsType' /\ sweep'[w].pc = "pipeline" /\ sweep'[w].found = sweep[w].found
      /\ \A x \in Sweeps \ {w} : sweep'[x] = sweep[x]
  BY <1>1, GotoTypes
<1>5. LiveUsed' /\ ParentsRegular' /\ FoundStands'
  BY <1>1, <1>4, RowsStill
<1>6. LinksLive' /\ ReadMatched'
  <2>1. Live' = Live
    BY <1>1 DEF Live
  <2> QED BY <1>1, <1>4, <2>1, ReadElsewhere, LinksStill
<1> QED BY <1>3, <1>4, <1>5, <1>6

\* Step 4: the links of the pipeline names.
LEMMA PipelineStep ==
  ASSUME IngestionInv, NEW w \in Sweeps, pipeline_links(w)
  PROVE  IngestionInv'
<1> USE DEF IngestionInv
<1>0. UNCHANGED bounds /\ changes' \in 0 .. MaxChanges /\ faults' \in 0 .. MaxFaults
  BY DEF pipeline_links, bounds, RestType
<1>1. CASE \E i \in Ids \ Live : Stamped(w, i) # {}
  BY <1>0, <1>1, EscapeStep DEF pipeline_links
<1>2. CASE ~(\E i \in Ids \ Live : Stamped(w, i) # {})
  <2>1. /\ link' = [i \in Ids |-> [d \in Datasets |->
                     IF d \in Stamped(w, i) /\ link[i][d] # "emitted" THEN "pipeline_name" ELSE link[i][d]]]
        /\ sweep' = [sweep EXCEPT ![w] = IdleSweep] /\ health' = "ok"
        /\ UNCHANGED <<hub, row, used, reg, run, check>>
    BY <1>2 DEF pipeline_links
  <2>2. link' \in [Ids -> [Datasets -> Links]]
    BY <2>1 DEF TablesType, Links
  <2>3. SessionsType' /\ sweep'[w] = IdleSweep /\ \A x \in Sweeps \ {w} : sweep'[x] = sweep[x]
    BY <2>1, IdleTypes DEF SessionsType
  <2>4. TablesType' /\ RestType'
    BY <1>0, <2>1, <2>2 DEF TablesType, RestType
  <2>5. LiveUsed' /\ ParentsRegular' /\ FoundStands'
    BY <2>1, <2>3, IdleTypes, RowsStill
  <2>6. LinksLive'
    <3> SUFFICES ASSUME NEW i \in Ids, NEW d \in Datasets, link'[i][d] # "none" PROVE i \in Live'
      BY DEF LinksLive
    <3>1. link[i][d] # "none" \/ d \in Stamped(w, i)
      BY <2>1
    <3>2. i \in Live
      BY <1>2, <3>1 DEF LinksLive
    <3> QED BY <2>1, <3>2 DEF Live
  <2>7. ReadMatched'
    BY <2>3, IdleTypes, ReadElsewhere
  <2> QED BY <2>3, <2>4, <2>5, <2>6, <2>7
<1> QED BY <1>1, <1>2

----------------------------------------------------------------------------
\* Runs of extractors, registry checks and DataHub leave rows and sweeps alone.
LEMMA OtherStep ==
  ASSUME IngestionInv,
         \/ HubStep
         \/ \E r \in Runs : RunStep(r) \/ \E i \in Ids : run_start(r, i)
         \/ \E c \in Checks : CheckStep(c) \/ sync_with_datahub(c) \/ \E d \in Datasets : ensure_dataset_registered(c, d)
  PROVE  IngestionInv'
<1> USE IngestionAssumption DEF IngestionInv
<1>0. UNCHANGED <<row, used, sweep>>
  BY ZenonT(60) DEF HubStep, hub_source, hub_source_gone, hub_ingest, hub_dataset_gone, RunStep, run_extractor,
         _upsert_dataset_mappings, run_start, CheckStep, insert_registered, mark_all,
         sync_with_datahub, ensure_dataset_registered, tables
<1>1. LiveUsed' /\ ParentsRegular' /\ FoundStands' /\ Live' = Live
  <2>1. Live' = Live
    BY <1>0 DEF Live
  <2> QED BY <1>0, <2>1, RowsStill
<1>l. ASSUME UNCHANGED link PROVE LinksLive' /\ ReadMatched'
  <2>1. ReadMatched'
    BY <1>0, <1>1, <1>l DEF ReadMatched
  <2> QED BY <1>1, <1>l, <2>1, LinksStill
<1>2. CASE HubStep
  <2>1. UNCHANGED <<link, reg, run, check>>
    BY <1>2 DEF HubStep, hub_source, hub_source_gone, hub_ingest, hub_dataset_gone, tables
  <2>2. TablesType' /\ SessionsType'
    BY <1>0, <2>1 DEF TablesType, SessionsType
  <2> QED BY <1>1, <1>l, <1>2, <2>1, <2>2, HubTypes
<1>3. ASSUME NEW r \in Runs, NEW i \in Ids, run_start(r, i) PROVE IngestionInv'
  <2>1. TablesType' /\ RestType'
    BY <1>0, <1>3 DEF run_start, TablesType, RestType, tables, Change
  <2>2. SessionsType' /\ UNCHANGED link
    BY <1>0, <1>3 DEF run_start, SessionsType, Run, tables
  <2> QED BY <1>1, <1>l, <2>1, <2>2
<1>4. ASSUME NEW r \in Runs, run_extractor(r) PROVE IngestionInv'
  <2>1. PICK out \in SUBSET Datasets \ {{}} :
          /\ hub' = [hub EXCEPT !.data = @ \cup out,
                                !.stamp = [d \in Datasets |-> IF d \in out THEN run[r].id ELSE @[d]]]
          /\ \/ UNCHANGED bounds /\ run' = [run EXCEPT ![r].pc = "record", ![r].emitted = out]
             \/ Fault /\ run' = [run EXCEPT ![r] = IdleRun]
    BY <1>4 DEF run_extractor
  <2>2. run[r] \in Run /\ run[r].pc = "crawl" /\ UNCHANGED <<link, reg, check, health>>
    BY <1>4 DEF run_extractor, SessionsType, tables
  <2>3. run[r].id \in Ids
    BY <2>2 DEF Run
  <2>4. hub' \in Hub
    BY <2>1, <2>3 DEF Hub, Stamps, RestType
  <2>5. RestType'
    BY <2>1, <2>2, <2>4 DEF RestType, bounds, Fault
  <2>6. TablesType'
    BY <1>0, <2>2 DEF TablesType
  <2>7. SessionsType'
    <3>1. run' \in [Runs -> Run]
      BY <2>1, <2>2, IdleTypes DEF SessionsType, Run
    <3> QED BY <1>0, <2>2, <3>1 DEF SessionsType
  <2> QED BY <1>1, <1>l, <2>2, <2>5, <2>6, <2>7
<1>5. ASSUME NEW r \in Runs, _upsert_dataset_mappings(r) PROVE IngestionInv'
  <2>1. /\ run' = [run EXCEPT ![r] = IdleRun]
        /\ UNCHANGED <<hub, reg, check, health, changes, faults>>
    BY <1>5 DEF _upsert_dataset_mappings, bounds
  <2>2. link' \in [Ids -> [Datasets -> Links]]
    BY <1>5, ZenonT(60) DEF _upsert_dataset_mappings, TablesType, Links
  <2>3. SessionsType'
    BY <1>0, <2>1, IdleTypes DEF SessionsType
  <2>4. \A i \in Ids, d \in Datasets :
          link'[i][d] # link[i][d] => i \in Live /\ link[i][d] = "none" /\ link'[i][d] = "emitted"
    BY <1>5, ZenonT(60) DEF _upsert_dataset_mappings, TablesType
  <2>5. LinksLive' /\ ReadMatched'
    <3>1. LinksLive'
      BY <1>1, <2>4 DEF LinksLive
    <3>2. ReadMatched'
      <4>1. \A i \in used, d \in Datasets : link[i][d] = "matched" => link'[i][d] = "matched"
        BY <2>4 DEF TablesType
      <4> QED BY <1>0, <1>1, <4>1, ReadKept
    <3> QED BY <3>1, <3>2
  <2> QED BY <1>0, <1>1, <2>1, <2>2, <2>3, <2>5 DEF TablesType, RestType
<1>6. ASSUME NEW c \in Checks, CheckStep(c) PROVE IngestionInv'
  <2>1. /\ check' = [check EXCEPT ![c] = IdleCheck]
        /\ UNCHANGED <<hub, link, run, health, changes, faults>>
    BY <1>6 DEF CheckStep, insert_registered, mark_all, bounds
  <2>2. reg' \in [Known -> Flags]
    BY <1>6 DEF CheckStep, insert_registered, mark_all, TablesType, Flags
  <2>3. SessionsType'
    BY <1>0, <2>1, IdleTypes DEF SessionsType
  <2> QED BY <1>0, <1>1, <1>l, <2>1, <2>2, <2>3 DEF TablesType, RestType
<1>7. ASSUME NEW c \in Checks, NEW d \in Datasets, ensure_dataset_registered(c, d) PROVE IngestionInv'
  <2>1. TablesType' /\ RestType'
    BY <1>0, <1>7 DEF ensure_dataset_registered, TablesType, RestType, tables, Change
  <2>2. hub.data \subseteq Datasets
    BY DEF RestType, Hub
  <2>3. SessionsType' /\ UNCHANGED link
    BY <1>0, <1>7, <2>2 DEF ensure_dataset_registered, SessionsType, Check, tables
  <2> QED BY <1>1, <1>l, <2>1, <2>3
<1>8. ASSUME NEW c \in Checks, sync_with_datahub(c) PROVE IngestionInv'
  <2>1. PICK data \in enumerate_datasets :
          /\ faults' = IF data = hub.data THEN faults ELSE faults + 1
          /\ check' = [check EXCEPT ![c] = [pc |-> "flip", urn |-> NoUrn, data |-> data]]
    BY <1>8 DEF sync_with_datahub
  <2>2. data \subseteq Datasets /\ faults' \in 0 .. MaxFaults
    BY <2>1 DEF RestType, Hub, enumerate_datasets
  <2>3. UNCHANGED <<hub, link, reg, run, health>> /\ changes' \in 0 .. MaxChanges
    BY <1>8 DEF sync_with_datahub, tables, RestType
  <2>4. SessionsType'
    BY <1>0, <2>1, <2>2, <2>3 DEF SessionsType, Check
  <2> QED BY <1>0, <1>1, <1>l, <2>2, <2>3, <2>4 DEF TablesType, RestType
<1> QED BY <1>2, <1>3, <1>4, <1>5, <1>6, <1>7, <1>8, SMTT(30) DEF RunStep

----------------------------------------------------------------------------
\* The results.

LEMMA IngestionInvStep == IngestionInv /\ [Next]_vars => IngestionInv'
<1> SUFFICES ASSUME IngestionInv, [Next]_vars PROVE IngestionInv'
  OBVIOUS
<1>1. CASE UNCHANGED vars
  BY <1>1 DEF vars, IngestionInv, TablesType, SessionsType, RestType, LiveUsed, ParentsRegular,
              FoundStands, LinksLive, ReadMatched, Live
<1>2. CASE SourceRequest
  BY <1>2, SourceStep
<1>3. ASSUME NEW w \in Sweeps, SweepStep(w) PROVE IngestionInv'
  BY <1>3, StartStep, PassAStep, PassBStep, RemoveStep, ReadStep, MapStep, ReconcileStep, AttributesStep,
     PipelineStep DEF SweepStep
<1>4. ASSUME NEW w \in Sweeps, sync_fails(w) PROVE IngestionInv'
  <2>1. Escape(w) /\ changes' \in 0 .. MaxChanges /\ faults' \in 0 .. MaxFaults
    BY <1>4, IngestionAssumption DEF sync_fails, Fault, IngestionInv, RestType
  <2> QED BY <2>1, EscapeStep
<1>5. CASE \/ HubStep
           \/ \E r \in Runs : RunStep(r) \/ \E i \in Ids : run_start(r, i)
           \/ \E c \in Checks : \/ CheckStep(c) \/ sync_with_datahub(c)
                                \/ \E d \in Datasets : ensure_dataset_registered(c, d)
  BY <1>5, OtherStep
<1> QED BY <1>1, <1>2, <1>3, <1>4, <1>5 DEF Next

\* The tables, the sessions under way and the mirror of DataHub keep their types.
THEOREM IngestionTypeCorrect == Spec => []IngestionTypeOK
<1>1. IngestionInv => IngestionTypeOK
  BY TypeParts DEF IngestionInv
<1> QED BY <1>1, IngestionInvInit, IngestionInvStep, PTL DEF Spec

\* reverse_lookup goes from a wrapper to its parent, one step: enough where a parent has none.
LEMMA LookupResolves == ParentsRegular => OwnersAreRegular
<1> SUFFICES ASSUME ParentsRegular, NEW d \in Datasets, NEW i \in reverse_lookup(d)
             PROVE  row[i].parent = NoId
  BY DEF OwnersAreRegular
<1>1. PICK b \in Covering(d) :
        i = IF row[b].parent # NoId /\ row[b].parent \in Live THEN row[b].parent ELSE b
  BY DEF reverse_lookup
<1>2. b \in Live
  BY DEF Covering
<1> QED BY <1>1, <1>2 DEF ParentsRegular

\* The sources that reverse_lookup names for a dataset are never wrappers: a parent is stored
\* and has no parent itself, however sweeps overlap and rows are deleted under them.
THEOREM OwnersStayRegular == Spec => []OwnersAreRegular
<1>1. IngestionInv => OwnersAreRegular
  BY LookupResolves DEF IngestionInv
<1> QED BY <1>1, IngestionInvInit, IngestionInvStep, PTL DEF Spec

\* What a step does to a link.
LinkStep(i, d) ==
  \/ Strength(link'[i][d]) >= Strength(link[i][d])
  \/ row'[i] = NoRow
  \/ /\ link'[i][d] = "none"
     /\ \E w \in Sweeps : /\ sweep[w].pc = "prune" /\ d \in sweep[w].old[i] \ Matched(w, i)
                          /\ sweep[w].snap[i] # NoRow /\ Evaluated(sweep[w].snap[i].recipe)
                          /\ link[i][d] = "matched" \/ Sweeps # {w}

LEMMA LinkSteps ==
  ASSUME IngestionInv, [Next]_vars, NEW i \in Ids, NEW d \in Datasets
  PROVE  LinkStep(i, d)
<1>0. link[i][d] \in Links
  BY DEF IngestionInv, TablesType
<1>1. ASSUME link'[i][d] = link[i][d] PROVE LinkStep(i, d)
  BY <1>0, <1>1 DEF LinkStep, Strength, Links
<1>2. ASSUME NEW gone, DeleteRows(gone) PROVE LinkStep(i, d)
  <2>1. CASE i \in Cascade(gone)
    BY <1>2, <2>1 DEF DeleteRows, LinkStep
  <2>2. CASE i \notin Cascade(gone)
    BY <1>1, <1>2, <2>2 DEF DeleteRows
  <2> QED BY <2>1, <2>2
<1>3. ASSUME NEW w \in Sweeps, map_datasets(w) PROVE LinkStep(i, d)
  <2>1. CASE link' = [j \in Ids |-> [e \in Datasets |-> MappedLink(w, j, e)]]
    <3>1. link'[i][d] = MappedLink(w, i, d) /\ sweep[w].pc = "prune" /\ UNCHANGED row
      BY <1>0, <1>3, <2>1 DEF map_datasets, Escape, tables
    <3>2. CASE d \in Pruned(w, i)
      <4>1. /\ link'[i][d] = "none" /\ d \in sweep[w].old[i] \ Matched(w, i)
            /\ sweep[w].snap[i] # NoRow /\ Evaluated(sweep[w].snap[i].recipe)
        BY <3>1, <3>2 DEF MappedLink, Pruned
      <4>2. CASE i \notin Live
        BY <3>1, <4>2 DEF LinkStep, Live
      <4>3. CASE i \in Live /\ Sweeps = {w}
        <5>1. link[i][d] = "matched"
          BY <3>1, <4>1, <4>3 DEF IngestionInv, ReadMatched
        <5> QED BY <3>1, <4>1, <5>1 DEF LinkStep
      <4>4. CASE Sweeps # {w}
        BY <3>1, <4>1, <4>4 DEF LinkStep
      <4> QED BY <4>2, <4>3, <4>4
    <3>3. CASE d \notin Pruned(w, i) /\ link[i][d] = "none" /\ d \in Matched(w, i)
      BY <3>1, <3>3 DEF MappedLink, LinkStep, Strength
    <3>4. CASE d \notin Pruned(w, i) /\ ~(link[i][d] = "none" /\ d \in Matched(w, i))
      BY <1>1, <3>1, <3>4 DEF MappedLink
    <3> QED BY <3>2, <3>3, <3>4
  <2>2. CASE UNCHANGED link
    BY <1>1, <2>2
  <2> QED BY <1>3, <2>1, <2>2 DEF map_datasets, Escape, tables
<1>4. ASSUME NEW w \in Sweeps, pipeline_links(w) PROVE LinkStep(i, d)
  <2>1. \/ link'[i][d] = link[i][d]
        \/ link[i][d] # "emitted" /\ link'[i][d] = "pipeline_name"
    BY <1>4 DEF pipeline_links, Escape, tables
  <2> QED BY <1>0, <1>1, <2>1 DEF LinkStep, Strength, Links
<1>5. ASSUME NEW r \in Runs, _upsert_dataset_mappings(r) PROVE LinkStep(i, d)
  <2>1. \/ link'[i][d] = link[i][d]
        \/ link[i][d] = "none" /\ link'[i][d] = "emitted"
    BY <1>5 DEF _upsert_dataset_mappings, IngestionInv, TablesType
  <2>2. Strength("emitted") = 3 /\ Strength("none") = 0
    BY DEF Strength
  <2> QED BY <1>1, <2>1, <2>2 DEF LinkStep
<1>6. CASE UNCHANGED link
  BY <1>1, <1>6
<1>7. CASE SourceRequest
  BY <1>2, <1>6, <1>7 DEF SourceRequest, create_source, replace_source, patch_source, delete_source
<1>8. ASSUME NEW w \in Sweeps, SweepStep(w) \/ sync_fails(w) PROVE LinkStep(i, d)
  BY <1>2, <1>3, <1>4, <1>6, <1>8
     DEF SweepStep, sync_fails, sync_start, pass_a, pass_b, remove_stale, existing_matcher_rows,
         reconcile_registry, _sync_dataset_attributes, Escape, tables
<1>9. CASE \/ HubStep
           \/ \E r \in Runs : RunStep(r) \/ \E j \in Ids : run_start(r, j)
           \/ \E c \in Checks : \/ CheckStep(c) \/ sync_with_datahub(c)
                                \/ \E e \in Datasets : ensure_dataset_registered(c, e)
  BY <1>5, <1>6, <1>9, ZenonT(60)
     DEF HubStep, hub_source, hub_source_gone, hub_ingest, hub_dataset_gone, RunStep, run_extractor,
         run_start, CheckStep, insert_registered, mark_all, sync_with_datahub,
         ensure_dataset_registered, tables
<1> QED BY <1>6, <1>7, <1>8, <1>9 DEF Next, vars

\* A derivation is never weakened.  A link is lost with its source, or to a sweep that read it
\* as matched and whose patterns were evaluated and no longer match; with one sweep at a time
\* it is still matched then, with more it may have been upgraded since.
THEOREM LinksStrengthen == Spec => LinksOnlyStrengthen
<1>1. IngestionInv /\ [Next]_vars => [\A i \in Ids, d \in Datasets : LinkStep(i, d)]_vars
  BY LinkSteps
<1> QED BY <1>1, IngestionInvInit, IngestionInvStep, PTL DEF Spec, LinksOnlyStrengthen, LinkStep

\* Only reconcile_registry takes a sweep from reconcile to attrs.
LEMMA ReconcileOnly ==
  ASSUME IngestionInv, [Next]_vars, NEW w \in Sweeps,
         sweep[w].pc = "reconcile", sweep'[w].pc = "attrs"
  PROVE  reconcile_registry(w)
<1> USE DEF IngestionInv
<1>1. ASSUME NEW x \in Sweeps, SweepStep(x) \/ sync_fails(x) PROVE x = w
  <2> SUFFICES ASSUME x # w PROVE sweep'[w] = sweep[w]
    OBVIOUS
  <2>1. sweep \in [Sweeps -> Sweep]
    BY DEF SessionsType
  <2> QED BY <1>1, <2>1
          DEF SweepStep, sync_fails, sync_start, pass_a, pass_b, remove_stale, existing_matcher_rows, map_datasets,
              reconcile_registry, _sync_dataset_attributes, pipeline_links, Escape, Goto
<1>2. CASE SweepStep(w) \/ sync_fails(w)
  BY <1>2 DEF SweepStep, sync_fails, sync_start, pass_a, pass_b, remove_stale, existing_matcher_rows, map_datasets,
              _sync_dataset_attributes, pipeline_links
<1>3. CASE UNCHANGED sweep
  BY <1>3
<1> QED BY <1>1, <1>2, <1>3, ZenonT(60)
        DEF Next, vars, HubStep, hub_source, hub_source_gone, hub_ingest, hub_dataset_gone,
            SourceRequest, create_source, replace_source, patch_source, delete_source, RunStep,
            run_extractor, _upsert_dataset_mappings, run_start, CheckStep, insert_registered,
            mark_all, sync_with_datahub, ensure_dataset_registered

\* A sweep deregisters only what its enumeration leaves out, and leaves something registered
\* where something was, if nobody else wrote the registry since it read it.
RegistryStep(w) ==
  sweep[w].pc = "reconcile" /\ sweep'[w].pc = "attrs" =>
    /\ (Registered \ Registered') \cap sweep[w].data = {}
    /\ sweep[w].rows = reg /\ Registered # {} => Registered' # {}

LEMMA RegistrySteps ==
  ASSUME IngestionInv, [Next]_vars, NEW w \in Sweeps PROVE RegistryStep(w)
<1> SUFFICES ASSUME sweep[w].pc = "reconcile", sweep'[w].pc = "attrs"
             PROVE  /\ (Registered \ Registered') \cap sweep[w].data = {}
                    /\ sweep[w].rows = reg /\ Registered # {} => Registered' # {}
  BY DEF RegistryStep
<1>1. reconcile_registry(w)
  BY ReconcileOnly
<1>2. CASE UNCHANGED reg
  BY <1>2 DEF Registered
<1>3. CASE reg' = [d \in Known |-> Reconciled(w, d)]
  <2>1. \A d \in Known : reg'[d] = Reconciled(w, d)
    BY <1>3
  <2>2. \A d \in Known : reg[d] = "true" /\ reg'[d] # "true" => d \notin sweep[w].data /\ sweep[w].data # {}
    BY <2>1 DEF Reconciled
  <2>3. ASSUME sweep[w].rows = reg, NEW d \in sweep[w].data PROVE d \in Registered'
    <3>1. d \in Known
      BY DEF IngestionInv, SessionsType, Sweep, Known
    <3>2. reg[d] \in Flags
      BY <3>1 DEF IngestionInv, TablesType
    <3> QED BY <2>1, <2>3, <3>1, <3>2 DEF Reconciled, Registered, Flags
  <2> QED BY <2>2, <2>3 DEF Registered
<1> QED BY <1>1, <1>2, <1>3 DEF reconcile_registry

\* reconcile_registry: however little of the estate DataHub answers with, a sweep deregisters
\* none of the datasets in the answer and does not empty the registry by itself.
THEOREM RegistryStays == Spec => RegistryNotEmptied
<1>1. IngestionInv /\ [Next]_vars => [\A w \in Sweeps : RegistryStep(w)]_vars
  BY RegistrySteps
<1> QED BY <1>1, IngestionInvInit, IngestionInvStep, PTL DEF Spec, RegistryNotEmptied, RegistryStep

============================================================================

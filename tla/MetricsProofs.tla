--------------------------- MODULE MetricsProofs ----------------------------
(* Metrics and the ingestion evidence under them, for any sources, datasets,  *)
(* metrics, runs, sweeps and validation requests: events are booked at instants  *)
(* that were reported, and twice only where sweeps crossed, a freshness verdict is earned, a result and    *)
(* the verdicts stored with it are of one run, and DataHub's assertions follow *)
(* the confs.                                                                *)
EXTENDS Metrics, RunLockProofs, FiniteSetTheorems, WellFoundedInduction, TLAPS

----------------------------------------------------------------------------
\* A set of numbers with a bound has a greatest member.
LEMMA Greatest ==
  ASSUME NEW S, S \subseteq Nat, S # {}, NEW n \in Nat, \A x \in S : x <= n
  PROVE  \E x \in S : \A y \in S : y <= x
<1> DEFINE T == {n - x : x \in S}
           R == OpToRel(<, Nat)
<1>0. \A x \in S : x \in Nat /\ n - x \in Nat
  <2> TAKE x \in S
  <2> x \in Nat /\ x <= n
    OBVIOUS
  <2> QED OBVIOUS
<1>1. T \subseteq Nat /\ T # {}
  BY <1>0
<1>2. IsWellFoundedOn(R, Nat)
  BY NatLessThanWellFounded
<1>3. \A a, b \in Nat : a < b => <<a, b>> \in R
  BY DEF OpToRel
<1> HIDE DEF T, R
<1>4. PICK t \in T : \A u \in T : <<u, t>> \notin R
  BY <1>1, <1>2, WFMin
<1>5. PICK x \in S : t = n - x
  BY DEF T
<1>6. ASSUME NEW y \in S PROVE y <= x
  <2>1. n - y \in T /\ n - y \in Nat /\ t \in Nat
    BY <1>0, <1>1 DEF T
  <2>2. ~(n - y < t)
    BY <1>3, <1>4, <2>1
  <2>3. x \in Nat /\ y \in Nat
    BY <1>0
  <2> QED BY <1>5, <2>2, <2>3
<1> QED BY <1>6

----------------------------------------------------------------------------
\* The evidence: what is known of each event, and of what DataHub has reported.
Backed(e) ==
  /\ e.by = "mirror" => /\ e.req \in Requests /\ RequestOf[e.req] = e.src
                        /\ exec[e.req].st \in {"SUCCESS", "FAILURE"}
                        /\ e.ok => exec[e.req].st = "SUCCESS"
  /\ e.by # "mirror" => e.req = NoRequest
  /\ e.by \in Observers => e.ds \in Mapped[e.src] /\ e.src \in Regulars
  /\ e.by = "run" /\ e.ok => [of |-> e.src, at |-> e.at] \in facts

ReportsAreFacts ==
  /\ \A q \in Requests : exec[q].st = "SUCCESS" =>
       \A t \in {exec[q].start, exec[q].asked} \ {0} : [of |-> RequestOf[q], at |-> t] \in facts
  /\ \A d \in Datasets : \A t \in ops[d] : [of |-> d, at |-> t] \in facts
  /\ \A d \in Datasets : last[d] # 0 => [of |-> d, at |-> last[d]] \in facts

\* What EvidenceIsReported says of one event.
Reported(e) ==
  /\ e.at <= now + Skew
  /\ e.by \in Observers => [of |-> e.ds, at |-> e.at] \in facts
  /\ e.by = "mirror" => e.at \in {exec[e.req].start, exec[e.req].asked}

Sound(e) == Backed(e) /\ Reported(e)

Signals == Observers \cup {"mirror"}
Signal(p) == <<pending[p].src, pending[p].by>>

\* What a sweep is about to insert is as sound as what was inserted, and is not in the
\* table unless another sweep observed the same source and signal meanwhile.
PendingSound ==
  \A p \in Passes : pending[p] # NoPass =>
    /\ pending[p].src \in Sources /\ pending[p].by \in Signals
    /\ \A e \in pending[p].new : Sound(e) /\ e.src = pending[p].src /\ e.by = pending[p].by

PendingNew ==
  \A p \in Passes : pending[p] # NoPass /\ Signal(p) \notin crossed =>
    \A e \in pending[p].new, f \in events : ~SameRow(e, f)

PendingApart ==
  \A p, o \in Passes : p # o /\ pending[p] # NoPass /\ Signal(o) = Signal(p) => Signal(p) \in crossed

EvidenceInv ==
  /\ EvidenceTypeOK
  /\ ReportsAreFacts
  /\ \A e \in events : Sound(e)
  /\ PendingSound /\ PendingNew /\ PendingApart
  /\ BookedOnceApart

\* Nothing is taken back of what DataHub reported.
Grows ==
  /\ now \in Nat /\ now' \in Nat /\ now <= now'
  /\ facts \subseteq facts'
  /\ \A q \in Requests : exec[q].st \in {"SUCCESS", "FAILURE"} => exec'[q] = exec[q]

LEMMA SoundStays ==
  ASSUME Grows, NEW e \in Event, Sound(e)
  PROVE  Sound(e)'
<1> USE EvidenceAssumption
<1>1. e.at \in Nat
  BY DEF Event
<1>2. e.at <= now' + Skew
  BY <1>1 DEF Sound, Reported, Grows
<1>3. e.by = "mirror" => exec'[e.req] = exec[e.req]
  BY DEF Sound, Backed, Grows
<1>4. Reported(e)'
  BY <1>2, <1>3 DEF Sound, Reported, Grows
<1>5. Backed(e)'
  BY <1>3 DEF Sound, Backed, Grows
<1> QED BY <1>4, <1>5 DEF Sound

\* A step that books no event and begins no pass.
LEMMA QuietKeeps ==
  ASSUME EvidenceInv, Grows, UNCHANGED <<events, observing>>, EvidenceTypeOK', ReportsAreFacts'
  PROVE  EvidenceInv'
<1>a. UNCHANGED <<events, pending, twice, crossed>>
  BY DEF observing
<1>b. events \subseteq Event /\ \A p \in Passes : pending[p].new \subseteq Event
  BY DEF EvidenceInv, EvidenceTypeOK
<1>1. \A e \in events' : Sound(e)'
  BY <1>a, <1>b, SoundStays DEF EvidenceInv
<1>2. PendingSound'
  <2> SUFFICES ASSUME NEW p \in Passes, pending'[p] # NoPass
               PROVE  /\ pending'[p].src \in Sources /\ pending'[p].by \in Signals
                      /\ \A e \in pending'[p].new : Sound(e)' /\ e.src = pending'[p].src /\ e.by = pending'[p].by
    BY DEF PendingSound
  <2>1. pending'[p] = pending[p]
    BY <1>a
  <2> QED BY <1>b, <2>1, SoundStays DEF EvidenceInv, PendingSound
<1>3. PendingNew' /\ PendingApart' /\ BookedOnceApart'
  BY <1>a DEF EvidenceInv, PendingNew, PendingApart, BookedOnceApart, Signal
<1> QED BY <1>1, <1>2, <1>3 DEF EvidenceInv

\* A pass that has read DataHub and the table.
LEMMA CollectKeeps ==
  ASSUME EvidenceInv, NEW p \in Passes, NEW s \in Sources, NEW by \in Signals, NEW new \in SUBSET Event,
         Collect(p, s, by, new),
         \A e \in new : Sound(e) /\ e.src = s /\ e.by = by,
         \A e \in new, f \in events : ~SameRow(e, f)
  PROVE  EvidenceInv'
<1> USE EvidenceAssumption
<1> DEFINE mine == [src |-> s, by |-> by, new |-> new]
<1>a. /\ pending \in [Passes -> [src : Sources \cup {NoSource}, by : Producers \cup {"none"}, new : SUBSET Event]]
      /\ events \subseteq Event /\ EvidenceTypeOK
  BY DEF EvidenceInv, EvidenceTypeOK
<1>b. by \in Producers
  BY DEF Signals, Observers, Producers
<1>1. /\ UNCHANGED <<now, exec, ops, last, events, twice, facts, changes>>
      /\ pending' = [pending EXCEPT ![p] = mine]
      /\ crossed' = IF \E o \in Passes : pending[o].src = s /\ pending[o].by = by
                    THEN crossed \cup {<<s, by>>} ELSE crossed
  BY DEF Collect
<1>2. /\ pending'[p] = mine /\ \A o \in Passes : o # p => pending'[o] = pending[o]
      /\ pending' \in [Passes -> [src : Sources \cup {NoSource}, by : Producers \cup {"none"}, new : SUBSET Event]]
  <2>1. mine \in [src : Sources \cup {NoSource}, by : Producers \cup {"none"}, new : SUBSET Event]
    BY <1>b
  <2> HIDE DEF mine
  <2> QED BY <1>a, <1>1, <2>1
<1>3. crossed \subseteq crossed' /\ crossed' \subseteq Sources \X Producers
  BY <1>a, <1>b, <1>1 DEF EvidenceTypeOK
<1>4. EvidenceTypeOK' /\ ReportsAreFacts'
  <2>1. UNCHANGED <<now, exec, ops, last, events, twice, facts, changes>>
    BY <1>1
  <2> QED BY <1>a, <2>1, <1>2, <1>3 DEF EvidenceTypeOK, EvidenceInv, ReportsAreFacts, Instants
<1>5. \A e : Sound(e)' <=> Sound(e)
  BY <1>1 DEF Sound, Backed, Reported
<1>6. mine.src = s /\ mine.by = by /\ mine.new = new
  OBVIOUS
<1> HIDE DEF mine
<1>7. PendingSound'
  <2> SUFFICES ASSUME NEW o \in Passes, pending'[o] # NoPass
               PROVE  /\ pending'[o].src \in Sources /\ pending'[o].by \in Signals
                      /\ \A e \in pending'[o].new : Sound(e)' /\ e.src = pending'[o].src /\ e.by = pending'[o].by
    BY DEF PendingSound
  <2>1. CASE o = p
    BY <2>1, <1>2, <1>5, <1>6
  <2>2. CASE o # p
    BY <2>2, <1>2, <1>5 DEF EvidenceInv, PendingSound
  <2> QED BY <2>1, <2>2
<1>8. PendingNew'
  <2> SUFFICES ASSUME NEW o \in Passes, pending'[o] # NoPass, Signal(o)' \notin crossed',
                      NEW e \in pending'[o].new, NEW f \in events
               PROVE  ~SameRow(e, f)
    BY <1>1 DEF PendingNew
  <2>1. CASE o = p
    BY <2>1, <1>2, <1>6
  <2>2. CASE o # p
    <3>1. pending'[o] = pending[o] /\ Signal(o) \notin crossed
      BY <2>2, <1>2, <1>3 DEF Signal
    <3> QED BY <3>1 DEF EvidenceInv, PendingNew
  <2> QED BY <2>1, <2>2
<1>9. PendingApart'
  <2> SUFFICES ASSUME NEW q \in Passes, NEW o \in Passes, q # o, pending'[q] # NoPass, Signal(o)' = Signal(q)'
               PROVE  Signal(q)' \in crossed'
    BY DEF PendingApart
  <2>1. CASE q # p /\ o # p
    <3>1. Signal(q)' = Signal(q) /\ Signal(o)' = Signal(o) /\ pending[q] # NoPass
      BY <2>1, <1>2 DEF Signal
    <3> QED BY <3>1, <1>3 DEF EvidenceInv, PendingApart
  <2>2. CASE q = p
    <3>1. Signal(q)' = <<s, by>> /\ Signal(o)' = <<pending[o].src, pending[o].by>>
      BY <2>2, <1>2, <1>6 DEF Signal
    <3>2. pending[o].src = s /\ pending[o].by = by
      BY <3>1
    <3> QED BY <3>1, <3>2, <1>1
  <2>3. CASE o = p
    <3>1. Signal(o)' = <<s, by>> /\ Signal(q)' = <<pending[q].src, pending[q].by>>
      BY <2>3, <1>2, <1>6 DEF Signal
    <3>0. <<pending[q].src, pending[q].by>> = <<s, by>>
      BY <3>1
    <3>2. pending[q].src = s /\ pending[q].by = by
      BY <3>0
    <3> QED BY <3>1, <3>2, <1>1
  <2> QED BY <2>1, <2>2, <2>3
<1>10. BookedOnceApart' /\ \A e \in events' : Sound(e)'
  BY <1>1, <1>3, <1>5 DEF EvidenceInv, BookedOnceApart
<1> QED BY <1>4, <1>7, <1>8, <1>9, <1>10 DEF EvidenceInv

\* A pass that ends, having inserted its events or none.
LEMMA PassEnds ==
  ASSUME EvidenceInv, NEW p \in Passes, insert_observations(p) \/ observation_fails(p)
  PROVE  EvidenceInv'
<1> USE EvidenceAssumption
<1>a. /\ pending \in [Passes -> [src : Sources \cup {NoSource}, by : Producers \cup {"none"}, new : SUBSET Event]]
      /\ events \subseteq Event /\ EvidenceTypeOK /\ pending[p].new \subseteq Event
  BY DEF EvidenceInv, EvidenceTypeOK
<1>b. /\ pending[p] # NoPass /\ pending' = [pending EXCEPT ![p] = NoPass]
      /\ UNCHANGED <<now, exec, ops, last, crossed, facts>>
      /\ \/ UNCHANGED changes
         \/ Change
  BY DEF insert_observations, observation_fails
<1>c. NoPass \in [src : Sources \cup {NoSource}, by : Producers \cup {"none"}, new : SUBSET Event]
  BY DEF NoPass
<1>1. /\ pending'[p] = NoPass /\ \A o \in Passes : o # p => pending'[o] = pending[o]
      /\ pending' \in [Passes -> [src : Sources \cup {NoSource}, by : Producers \cup {"none"}, new : SUBSET Event]]
  BY <1>a, <1>b, <1>c
<1>2. /\ pending[p].src \in Sources /\ pending[p].by \in Signals
      /\ \A e \in pending[p].new : Sound(e) /\ e.src = pending[p].src /\ e.by = pending[p].by
  BY <1>b DEF EvidenceInv, PendingSound
<1>3. /\ events \subseteq events' /\ events' \subseteq events \cup pending[p].new
      /\ twice' \subseteq twice \cup {Signal(p)}
      /\ Signal(p) \in twice' => \/ Signal(p) \in twice
                                 \/ \E e \in pending[p].new, f \in events : SameRow(e, f)
  BY DEF insert_observations, observation_fails, Signal
<1>4. Signal(p) \in Sources \X Producers
  BY <1>2 DEF Signal, Signals, Observers, Producers
<1>5. EvidenceTypeOK' /\ ReportsAreFacts'
  <2>1. changes' \in 0 .. MaxChanges
    BY <1>a, <1>b DEF EvidenceTypeOK, Change
  <2>2. twice' \subseteq Sources \X Producers /\ events' \subseteq Event
    BY <1>a, <1>3, <1>4 DEF EvidenceTypeOK
  <2> QED BY <1>a, <1>b, <1>1, <2>1, <2>2 DEF EvidenceTypeOK, EvidenceInv, ReportsAreFacts, Instants
<1>6. \A e : Sound(e)' <=> Sound(e)
  BY <1>b DEF Sound, Backed, Reported
<1>7. \A e \in events' : Sound(e)'
  BY <1>2, <1>3, <1>6 DEF EvidenceInv
<1>8. PendingSound'
  BY <1>1, <1>6 DEF EvidenceInv, PendingSound
<1>9. PendingApart'
  <2> SUFFICES ASSUME NEW q \in Passes, NEW o \in Passes, q # o, pending'[q] # NoPass, Signal(o)' = Signal(q)'
               PROVE  Signal(q)' \in crossed'
    BY DEF PendingApart
  <2>1. q # p /\ pending'[q] = pending[q]
    BY <1>1
  <2>2. pending[q].src \in Sources
    BY <2>1 DEF EvidenceInv, PendingSound
  <2>3. o # p
    BY <1>1, <2>1, <2>2 DEF Signal, NoPass
  <2>4. Signal(q)' = Signal(q) /\ Signal(o)' = Signal(o)
    BY <1>1, <2>1, <2>3 DEF Signal
  <2> QED BY <1>b, <2>1, <2>4 DEF EvidenceInv, PendingApart
<1>10. PendingNew'
  <2> SUFFICES ASSUME NEW o \in Passes, pending'[o] # NoPass, Signal(o)' \notin crossed',
                      NEW e \in pending'[o].new, NEW f \in events'
               PROVE  ~SameRow(e, f)
    BY DEF PendingNew
  <2>1. o # p /\ pending'[o] = pending[o] /\ Signal(o)' = Signal(o) /\ Signal(o) \notin crossed
    BY <1>b, <1>1 DEF Signal
  <2>2. CASE f \in events
    BY <2>1, <2>2 DEF EvidenceInv, PendingNew
  <2>3. CASE f \in pending[p].new
    <3>1. Signal(p) # Signal(o)
      BY <1>b, <2>1 DEF EvidenceInv, PendingApart
    <3>2. e.src = pending[o].src /\ e.by = pending[o].by
      BY <2>1 DEF EvidenceInv, PendingSound
    <3>3. f.src = pending[p].src /\ f.by = pending[p].by
      BY <1>2, <2>3
    <3> QED BY <3>1, <3>2, <3>3 DEF SameRow, Signal
  <2> QED BY <1>3, <2>2, <2>3
<1>11. BookedOnceApart'
  BY <1>b, <1>3 DEF EvidenceInv, PendingNew, BookedOnceApart
<1> QED BY <1>5, <1>7, <1>8, <1>9, <1>10, <1>11 DEF EvidenceInv

----------------------------------------------------------------------------
\* What is written to DataHub.
LEMMA HubKeeps ==
  ASSUME EvidenceInv, HubReports \/ Tick
  PROVE  EvidenceInv'
<1> USE EvidenceAssumption
<1>a. /\ EvidenceTypeOK /\ ReportsAreFacts
      /\ now \in 1 .. MaxTime /\ now \in Instants /\ now + Skew + 1 \in Instants /\ 0 \in Instants
  BY DEF EvidenceInv, EvidenceTypeOK, Instants
<1>b. Change => changes' \in 0 .. MaxChanges
  BY <1>a DEF Change, EvidenceTypeOK
<1>1. CASE Tick
  <2>1. EvidenceTypeOK'
    BY <1>a, <1>1 DEF Tick, evidence, observing, EvidenceTypeOK
  <2>2. ReportsAreFacts' /\ Grows /\ UNCHANGED <<events, observing>>
    BY <1>a, <1>1 DEF Tick, evidence, ReportsAreFacts, Grows
  <2> QED BY <2>1, <2>2, QuietKeeps
<1>2. ASSUME NEW q \in Requests, NEW start \in Instants, NEW asked \in Instants,
             hub_execution_starts(q, start, asked)
      PROVE EvidenceInv'
  <2>1. EvidenceTypeOK'
    BY <1>a, <1>b, <1>2 DEF observing, hub_execution_starts, EvidenceTypeOK
  <2>2. ReportsAreFacts' /\ Grows /\ UNCHANGED <<events, observing>>
    BY <1>a, <1>2 DEF hub_execution_starts, ReportsAreFacts, Grows, EvidenceTypeOK
  <2> QED BY <2>1, <2>2, QuietKeeps
<1>3. ASSUME NEW q \in Requests, NEW st \in Outcomes, hub_execution_ends(q, st)
      PROVE EvidenceInv'
  <2>0. RequestOf[q] \in Sources
    OBVIOUS
  <2>1. facts' \subseteq [of : Sources \cup Datasets, at : Instants] /\ facts \subseteq facts'
    BY <2>0, <1>a, <1>3 DEF hub_execution_ends, EvidenceTypeOK
  <2>2. EvidenceTypeOK'
    BY <2>1, <1>a, <1>3 DEF observing, hub_execution_ends, EvidenceTypeOK
  <2>3. ReportsAreFacts'
    BY <1>a, <1>3, <2>1 DEF hub_execution_ends, ReportsAreFacts, EvidenceTypeOK
  <2>4. Grows /\ UNCHANGED <<events, observing>>
    BY <1>a, <1>3, <2>1 DEF hub_execution_ends, Grows, EvidenceTypeOK
  <2> QED BY <2>2, <2>3, <2>4, QuietKeeps
<1>4. ASSUME NEW d \in Datasets, hub_operation(d, now) PROVE EvidenceInv'
  <2>1. EvidenceTypeOK'
    BY <1>a, <1>b, <1>4 DEF observing, hub_operation, Fact, EvidenceTypeOK
  <2>2. ReportsAreFacts' /\ Grows /\ UNCHANGED <<events, observing>>
    BY <1>a, <1>4 DEF hub_operation, Fact, ReportsAreFacts, Grows, EvidenceTypeOK
  <2> QED BY <2>1, <2>2, QuietKeeps
<1>5. ASSUME NEW d \in Datasets, NEW at \in Instants, hub_ingested(d, at) PROVE EvidenceInv'
  <2>1. EvidenceTypeOK'
    BY <1>a, <1>b, <1>5 DEF observing, hub_ingested, Fact, EvidenceTypeOK
  <2>2. ReportsAreFacts' /\ Grows /\ UNCHANGED <<events, observing>>
    BY <1>a, <1>5 DEF hub_ingested, Fact, ReportsAreFacts, Grows, EvidenceTypeOK
  <2> QED BY <2>1, <2>2, QuietKeeps
<1> QED BY <1>a, <1>1, <1>2, <1>3, <1>4, <1>5 DEF HubReports

----------------------------------------------------------------------------
\* The observation pass.

\* _observed_at accepts an instant that lies in the past or within the skew.
LEMMA ObservedAt ==
  ASSUME EvidenceTypeOK, NEW at \in Instants, NEW t \in _observed_at(at)
  PROVE  t = at /\ t # 0 /\ t \in 1 .. MaxTime + Skew /\ t <= now + Skew
  BY EvidenceAssumption DEF EvidenceTypeOK, Instants, _observed_at

\* A pass over the executions of a source: each one that is not in the table, at one of
\* its two instants.
LEMMA MirrorKeeps ==
  ASSUME EvidenceInv, NEW p \in Passes, NEW s \in Sources, _mirror_execution_requests(p, s)
  PROVE  EvidenceInv'
<1> USE EvidenceAssumption
<1> DEFINE new == UNION {{Mirrored(s, q, t) : t \in MirroredAt(q)} : q \in Unmirrored(s)}
<1>a. EvidenceTypeOK
  BY DEF EvidenceInv
<1>1. Collect(p, s, "mirror", new)
  BY DEF _mirror_execution_requests
<1>2. ASSUME NEW q \in Requests, NEW t \in MirroredAt(q)
      PROVE  /\ t \in 1 .. MaxTime + Skew /\ t <= now + Skew
             /\ t \in {exec[q].start, exec[q].asked}
  <2>1. exec[q].start \in Instants /\ exec[q].asked \in Instants
    BY <1>a DEF EvidenceTypeOK
  <2> QED BY <1>a, <1>2, <2>1, ObservedAt DEF MirroredAt
<1>3. ASSUME NEW e \in new
      PROVE  \E q \in Unmirrored(s) : \E t \in MirroredAt(q) : q \in Requests /\ e = Mirrored(s, q, t)
  BY DEF Unmirrored
<1>4. \A q \in Unmirrored(s) : /\ q \in Requests /\ RequestOf[q] = s
                               /\ exec[q].st \in {"SUCCESS", "FAILURE"}
                               /\ \A f \in events : ~(f.src = s /\ f.req = q)
  BY DEF Unmirrored
<1> HIDE DEF new
<1>5. ASSUME NEW e \in new
      PROVE  /\ e \in Event /\ Sound(e) /\ e.src = s /\ e.by = "mirror"
             /\ \A f \in events : ~SameRow(e, f)
  <2>0. PICK q \in Unmirrored(s) : \E t \in MirroredAt(q) : q \in Requests /\ e = Mirrored(s, q, t)
    BY <1>3
  <2>1. PICK t \in MirroredAt(q) : q \in Requests /\ e = Mirrored(s, q, t)
    BY <2>0
  <2>2. e.src = s /\ e.req = q /\ e.at = t /\ e.by = "mirror" /\ e.ok = (exec[q].st = "SUCCESS")
    BY <2>1 DEF Mirrored
  <2>3. e \in Event
    BY <1>2, <2>1 DEF Event, Producers, Mirrored
  <2>4. Backed(e)
    BY <1>4, <2>2 DEF Backed, Observers
  <2>5. Reported(e)
    BY <1>2, <2>1, <2>2 DEF Reported, Observers
  <2>6. \A f \in events : ~SameRow(e, f)
    BY <1>4, <2>2 DEF SameRow
  <2> QED BY <2>2, <2>3, <2>4, <2>5, <2>6 DEF Sound
<1>6. new \in SUBSET Event /\ "mirror" \in Signals
  BY <1>5 DEF Signals
<1> QED BY <1>1, <1>5, <1>6, CollectKeeps

\* A pass over the datasets of a source: the instants that were reported for them and are
\* not in the table.
LEMMA ObservationKeeps ==
  ASSUME EvidenceInv, NEW p \in Passes, NEW s \in Regulars, NEW by \in Observers, NEW keys,
         keys \subseteq Mapped[s] \X Instants,
         \A k \in keys : /\ k[2] \in 1 .. MaxTime + Skew /\ k[2] <= now + Skew
                         /\ [of |-> k[1], at |-> k[2]] \in facts,
         Collect(p, s, by, {Observation(s, by, k[1], k[2]) : k \in keys \ _existing_observation_keys(s, by)})
  PROVE  EvidenceInv'
<1> USE EvidenceAssumption
<1> DEFINE fresh == keys \ _existing_observation_keys(s, by)
           new == {Observation(s, by, k[1], k[2]) : k \in fresh}
<1>a. s \in Sources /\ by # "mirror" /\ by # "run" /\ by \in Producers /\ by \in Signals
  BY DEF Regulars, Observers, Producers, Signals
<1>1. ASSUME NEW e \in events, e.src = s, e.by = by, e.ok
      PROVE  <<e.ds, e.at>> \in _existing_observation_keys(s, by)
  BY <1>1 DEF _existing_observation_keys
<1>2. ASSUME NEW k \in fresh
      PROVE  /\ k[1] \in Mapped[s] /\ k[1] \in Datasets /\ k = <<k[1], k[2]>>
             /\ k[2] \in 1 .. MaxTime + Skew /\ k[2] <= now + Skew
             /\ [of |-> k[1], at |-> k[2]] \in facts
             /\ k \notin _existing_observation_keys(s, by)
  <2>1. k \in keys /\ k \notin _existing_observation_keys(s, by)
    OBVIOUS
  <2>2. k \in Mapped[s] \X Instants
    BY <2>1
  <2>3. Mapped[s] \subseteq Datasets
    BY <1>a
  <2> QED BY <2>1, <2>2, <2>3
<1> HIDE DEF fresh
<1>3. ASSUME NEW e \in new
      PROVE  \E k \in fresh : e = Observation(s, by, k[1], k[2])
  OBVIOUS
<1>4. Collect(p, s, by, new)
  BY DEF fresh
<1> HIDE DEF new
<1>5. ASSUME NEW e \in new
      PROVE  /\ e \in Event /\ Sound(e) /\ e.src = s /\ e.by = by
             /\ \A f \in events : ~SameRow(e, f)
  <2>1. PICK k \in fresh : e = Observation(s, by, k[1], k[2])
    BY <1>3
  <2>2. /\ e.src = s /\ e.ok /\ e.by = by /\ e.ds = k[1] /\ e.req = NoRequest /\ e.at = k[2]
    BY <2>1 DEF Observation
  <2>3. e \in Event
    BY <1>a, <1>2, <2>1 DEF Event, Observation
  <2>4. e \notin events
    <3>1. k = <<e.ds, e.at>> /\ k \notin _existing_observation_keys(s, by)
      BY <1>2, <2>2
    <3> QED BY <1>1, <2>2, <3>1
  <2>5. Backed(e)
    BY <1>a, <1>2, <2>2 DEF Backed
  <2>6. Reported(e)
    BY <1>a, <1>2, <2>2 DEF Reported
  <2>7. \A f \in events : ~SameRow(e, f)
    BY <1>a, <2>2, <2>4 DEF SameRow
  <2> QED BY <2>2, <2>3, <2>5, <2>6, <2>7 DEF Sound
<1>6. new \in SUBSET Event
  BY <1>5
<1> QED BY <1>a, <1>4, <1>5, <1>6, CollectKeeps

LEMMA ObserveKeeps ==
  ASSUME EvidenceInv, Observe
  PROVE  EvidenceInv'
<1> USE EvidenceAssumption
<1>a. EvidenceTypeOK /\ ReportsAreFacts
  BY DEF EvidenceInv
<1>1. ASSUME NEW p \in Passes, NEW s \in Sources, _observe_passive_operations(p, s) PROVE EvidenceInv'
  <2>1. PICK got \in [Mapped[s] -> SUBSET Instants] :
         /\ \A d \in Mapped[s] : got[d] \subseteq ops[d]
         /\ Collect(p, s, "passive", {Observation(s, "passive", k[1], k[2]) :
                    k \in {x \in Mapped[s] \X Instants : \E w \in got[x[1]] : x[2] \in _observed_at(w)}
                          \ _existing_observation_keys(s, "passive")})
    BY <1>1 DEF _observe_passive_operations
  <2> DEFINE keys == {x \in Mapped[s] \X Instants : \E w \in got[x[1]] : x[2] \in _observed_at(w)}
  <2>2. s \in Regulars /\ "passive" \in Observers
    BY <1>1 DEF _observe_passive_operations, Regulars, Observers
  <2>3. ASSUME NEW k \in keys
        PROVE  /\ k[2] \in 1 .. MaxTime + Skew /\ k[2] <= now + Skew
               /\ [of |-> k[1], at |-> k[2]] \in facts
    <3>1. k[1] \in Mapped[s] /\ k[1] \in Datasets
      OBVIOUS
    <3>2. PICK w \in got[k[1]] : k[2] \in _observed_at(w)
      OBVIOUS
    <3>3. w \in ops[k[1]] /\ w \in Instants
      BY <2>1, <3>1, <3>2
    <3> QED BY <1>a, <3>1, <3>2, <3>3, ObservedAt DEF ReportsAreFacts
  <2>4. keys \subseteq Mapped[s] \X Instants
    OBVIOUS
  <2>5. Collect(p, s, "passive", {Observation(s, "passive", k[1], k[2]) :
                                    k \in keys \ _existing_observation_keys(s, "passive")})
    BY <2>1
  <2> HIDE DEF keys
  <2> QED BY <2>2, <2>3, <2>4, <2>5, ObservationKeeps
<1>2. ASSUME NEW p \in Passes, NEW s \in Sources, _observe_last_ingested_for_source(p, s) PROVE EvidenceInv'
  <2> DEFINE keys == {x \in Mapped[s] \X Instants : x[2] \in _observed_at(last[x[1]])}
  <2>1. s \in Regulars /\ "last_ingested" \in Observers
    BY <1>2 DEF _observe_last_ingested_for_source, Observers
  <2>2. ASSUME NEW k \in keys
        PROVE  /\ k[2] \in 1 .. MaxTime + Skew /\ k[2] <= now + Skew
               /\ [of |-> k[1], at |-> k[2]] \in facts
    <3>1. k[1] \in Mapped[s] /\ k[1] \in Datasets /\ k[2] \in _observed_at(last[k[1]])
      OBVIOUS
    <3>2. last[k[1]] \in Instants
      BY <1>a, <3>1 DEF EvidenceTypeOK
    <3> QED BY <1>a, <3>1, <3>2, ObservedAt DEF ReportsAreFacts
  <2>3. keys \subseteq Mapped[s] \X Instants
    OBVIOUS
  <2>4. Collect(p, s, "last_ingested", {Observation(s, "last_ingested", k[1], k[2]) :
                                          k \in keys \ _existing_observation_keys(s, "last_ingested")})
    BY <1>2 DEF _observe_last_ingested_for_source
  <2> HIDE DEF keys
  <2> QED BY <2>1, <2>2, <2>3, <2>4, ObservationKeeps
<1> QED BY <1>1, <1>2, MirrorKeeps DEF Observe

\* The end of a run of an extractor.
LEMMA RecordKeeps ==
  ASSUME EvidenceInv, NEW s \in Sources, NEW ok \in BOOLEAN, NEW dry \in BOOLEAN,
         _record_source_event(s, ok, dry)
  PROVE  EvidenceInv'
<1> USE EvidenceAssumption
<1>0. PICK new : new = [src |-> s, ok |-> ok, by |-> IF dry THEN "dry_run" ELSE "run",
                        ds |-> NoDataset, req |-> NoRequest, at |-> now]
  OBVIOUS
<1>a. EvidenceTypeOK /\ ReportsAreFacts /\ now \in 1 .. MaxTime
  BY DEF EvidenceInv, EvidenceTypeOK
<1>1. events' = events \cup {new} /\ UNCHANGED <<now, exec, ops, last, pending, twice, crossed>> /\ Change
  BY <1>0 DEF _record_source_event, observing
<1>2. /\ facts \subseteq facts' /\ facts' \subseteq [of : Sources \cup Datasets, at : Instants]
      /\ ok /\ ~dry => [of |-> s, at |-> now] \in facts'
  BY <1>a DEF _record_source_event, EvidenceTypeOK, Instants
<1>3. new \in Event
  BY <1>0, <1>a DEF Event, Producers
<1>4. EvidenceTypeOK'
  BY <1>a, <1>1, <1>2, <1>3 DEF Change, EvidenceTypeOK
<1>5. ReportsAreFacts'
  BY <1>a, <1>1, <1>2 DEF ReportsAreFacts
<1>6. Sound(new)' /\ new.by \notin Signals
  BY <1>0, <1>a, <1>1, <1>2 DEF Sound, Reported, Backed, Observers, Signals
<1>7. Grows
  BY <1>a, <1>1, <1>2 DEF Grows
<1>b. events \subseteq Event /\ \A p \in Passes : pending[p].new \subseteq Event
  BY <1>a DEF EvidenceTypeOK
<1>8. \A e \in events' : Sound(e)'
  BY <1>b, <1>1, <1>6, <1>7, SoundStays DEF EvidenceInv
<1>9. PendingSound'
  <2> SUFFICES ASSUME NEW p \in Passes, pending'[p] # NoPass
               PROVE  /\ pending'[p].src \in Sources /\ pending'[p].by \in Signals
                      /\ \A e \in pending'[p].new : Sound(e)' /\ e.src = pending'[p].src /\ e.by = pending'[p].by
    BY DEF PendingSound
  <2>1. pending'[p] = pending[p]
    BY <1>1
  <2> QED BY <1>b, <1>7, <2>1, SoundStays DEF EvidenceInv, PendingSound
<1>10. PendingNew'
  <2> SUFFICES ASSUME NEW p \in Passes, pending[p] # NoPass, Signal(p) \notin crossed,
                      NEW e \in pending[p].new, NEW f \in events'
               PROVE  ~SameRow(e, f)
    BY <1>1 DEF PendingNew, Signal
  <2>1. e.by \in Signals
    BY DEF EvidenceInv, PendingSound
  <2> QED BY <1>1, <1>6, <2>1 DEF EvidenceInv, PendingNew, SameRow
<1>11. PendingApart' /\ BookedOnceApart'
  BY <1>1 DEF EvidenceInv, PendingApart, BookedOnceApart, Signal
<1> QED BY <1>4, <1>5, <1>8, <1>9, <1>10, <1>11 DEF EvidenceInv

----------------------------------------------------------------------------
\* Metric runs.

\* What EarnedFreshness says of one verdict on d, for which the source s answers, by the
\* ingestions known at the instant n.
Earned(v, d, s, known, n) ==
  v # NoVerdict /\ v.type = "ingestion-freshness" /\ v.met =>
    \E f \in known : /\ f.at = v.evidence /\ f.at >= v.instant - Window /\ f.at <= n + Skew
                     /\ f.of \in Family(s) \cup {d} \cup Mapped[s]

EarnedNow(v, d) == Earned(v, d, owner[d], facts, now)

EstateType ==
  /\ owner \in [Datasets -> Regulars \cup {NoSource}]
  /\ registered \subseteq Datasets /\ documented \subseteq Datasets

Work == [pc : {"idle", "measure", "store", "commit"}, instant : Instants, dry : BOOLEAN,
         out : Verdicts, seen : Verdicts]

RunType ==
  /\ defn \in [Keys -> Definition \cup {NoMetric}]
  /\ result \in [Keys -> Result \cup {NoResult}]
  /\ stored \in [Keys -> Verdicts]
  /\ work \in [Workers -> Work]
  /\ overlap \subseteq Keys

\* A metric that two runs have not been storing at once is stored by one run at most,
\* and no row was written since that run's DELETE.
StoringAlone ==
  \A m \in Keys \ overlap : \A w \in Storing(m) :
    work[w].seen = stored[m] /\ \A v \in Storing(m) : v = w

RunInv ==
  /\ RunType
  /\ \A w \in Workers : work[w].pc # "idle" => task[w] # NoKey
  /\ \A m \in Keys, d \in Datasets : EarnedNow(stored[m][d], d)
  /\ \A w \in Workers, d \in Datasets : EarnedNow(work[w].out[d], d)
  /\ StoringAlone
  /\ ResultMatchesVerdicts

\* Validation requests.
ValidationType ==
  /\ conf \in [Datasets -> Lags \cup {NoConf}]
  /\ score \in [Datasets -> [Instants -> {"none", "pass", "fail"}]]
  /\ assertion \subseteq Datasets
  /\ client \in [Clients -> [pc : {"idle", "register", "retract", "insert"}, ds : Datasets \cup {NoDataset},
                             at : Instants, pass : BOOLEAN]]
  /\ muddled \subseteq Datasets

\* A dataset is worked on by one request at most, and the request knows the conf.
Follows(c, d) ==
  /\ \A e \in Clients : client[e].ds = d => e = c
  /\ client[c].pc = "register" => conf[d] # NoConf
  /\ client[c].pc = "retract" => conf[d] = NoConf
  /\ client[c].pc = "insert" => (d \in assertion <=> conf[d] # NoConf)

ValidationInv ==
  /\ ValidationType
  /\ \A c \in Clients : client[c].pc = "idle" <=> client[c].ds = NoDataset
  /\ \A d \in Datasets \ muddled : \A c \in Clients : client[c].ds = d => Follows(c, d)
  /\ AssertionFollowsConf

MetricsInv == EvidenceInv /\ LockInv /\ EstateType /\ RunInv /\ ValidationInv

----------------------------------------------------------------------------
\* How a step moves the evidence and the lock.

LEMMA EvidenceInvInit == EvidenceInit => EvidenceInv
<1> SUFFICES ASSUME EvidenceInit PROVE EvidenceInv
  OBVIOUS
<1> USE EvidenceAssumption
<1>1. EvidenceTypeOK
  <2>0. 0 \in Instants
    BY DEF Instants
  <2>1. now \in 1 .. MaxTime /\ changes \in 0 .. MaxChanges
    BY DEF EvidenceInit
  <2>2. exec \in [Requests -> [st : {"none", "RUNNING"} \cup Outcomes, start : Instants, asked : Instants]]
    BY <2>0 DEF EvidenceInit
  <2>3. ops \in [Datasets -> SUBSET Instants] /\ last \in [Datasets -> Instants]
    BY <2>0 DEF EvidenceInit
  <2>4. events \subseteq Event /\ facts \subseteq [of : Sources \cup Datasets, at : Instants]
    BY DEF EvidenceInit
  <2>5. twice \subseteq Sources \X Producers /\ crossed \subseteq Sources \X Producers
    BY DEF EvidenceInit
  <2>6. pending \in [Passes -> [src : Sources \cup {NoSource}, by : Producers \cup {"none"}, new : SUBSET Event]]
    BY DEF EvidenceInit, NoPass
  <2> QED BY <2>1, <2>2, <2>3, <2>4, <2>5, <2>6 DEF EvidenceTypeOK
<1>2. ReportsAreFacts /\ BookedOnceApart /\ events = {}
  BY DEF EvidenceInit, ReportsAreFacts, BookedOnceApart
<1>3. \A p \in Passes : pending[p] = NoPass
  BY DEF EvidenceInit
<1> QED BY <1>1, <1>2, <1>3 DEF EvidenceInv, PendingSound, PendingNew, PendingApart

LEMMA EvidenceKeeps == EvidenceInv /\ [EvidenceNext]_evidenceVars => EvidenceInv'
<1> SUFFICES ASSUME EvidenceInv, [EvidenceNext]_evidenceVars PROVE EvidenceInv'
  OBVIOUS
<1>1. CASE UNCHANGED evidenceVars
  <2>0. EvidenceTypeOK /\ ReportsAreFacts
    BY DEF EvidenceInv
  <2>1. EvidenceTypeOK' /\ ReportsAreFacts' /\ Grows /\ UNCHANGED <<events, observing>>
    BY <1>1, <2>0 DEF evidenceVars, evidence, observing, EvidenceTypeOK, ReportsAreFacts, Grows
  <2> QED BY <2>1, QuietKeeps
<1> QED BY <1>1, HubKeeps, ObserveKeeps, PassEnds, RecordKeeps DEF EvidenceNext

\* A step is of the evidence, or leaves it alone.
LEMMA EvidenceOrNot ==
  ASSUME [Next]_vars
  PROVE  \/ EvidenceStep
         \/ UNCHANGED <<now, evidence>> /\ (Change \/ UNCHANGED changes)
<1> DEFINE Apart == UNCHANGED <<now, evidence>> /\ (Change \/ UNCHANGED changes)
<1>1. ASSUME estate_changes PROVE Apart
  BY <1>1 DEF estate_changes
<1>2. ASSUME DefinitionRequest PROVE Apart
  BY <1>2 DEF DefinitionRequest, delete_metric_config, create_metric_config, replace_metric_config
<1>3. ASSUME RunRequest PROVE Apart
  BY <1>3 DEF RunRequest, run_dies, scheduled_run, requested_run, run
<1>4. ASSUME ValidationRequest PROVE Apart
  BY <1>4 DEF ValidationRequest, delete_config, datahub_fails, upsert_config, patch_config,
              record_result, Begin
<1>5. ASSUME NEW w \in Workers, RunStep(w) PROVE Apart
  BY <1>5 DEF RunStep, _run_inner, store, _replace_dataset_verdicts
<1>6. ASSUME NEW m \in Keys, lock_expires(m) PROVE Apart
  BY <1>6 DEF lock_expires
<1>7. ASSUME NEW c \in Clients, ClientStep(c) PROVE Apart
  BY <1>7 DEF ClientStep, datahub_assertion, insert_result
<1>8. ASSUME UNCHANGED vars PROVE Apart
  BY <1>8 DEF vars
<1> HIDE DEF Apart
<1>9. EvidenceStep \/ Apart
  BY <1>1, <1>2, <1>3, <1>4, <1>5, <1>6, <1>7, <1>8 DEF Next
<1> QED BY <1>9 DEF Apart

LEMMA EvidenceInvStep == EvidenceInv /\ [Next]_vars => EvidenceInv'
<1> SUFFICES ASSUME EvidenceInv, [Next]_vars PROVE EvidenceInv'
  OBVIOUS
<1>1. ASSUME UNCHANGED <<now, evidence>>, Change \/ UNCHANGED changes PROVE EvidenceInv'
  <2>0. EvidenceTypeOK /\ ReportsAreFacts
    BY DEF EvidenceInv
  <2>1. EvidenceTypeOK'
    BY <1>1, <2>0, EvidenceAssumption DEF evidence, observing, EvidenceTypeOK, Change
  <2>2. ReportsAreFacts' /\ Grows /\ UNCHANGED <<events, observing>>
    BY <1>1, <2>0 DEF evidence, observing, ReportsAreFacts, Grows, EvidenceTypeOK
  <2> QED BY <2>1, <2>2, QuietKeeps
<1>2. ASSUME EvidenceStep PROVE EvidenceInv'
  BY <1>2, EvidenceKeeps DEF EvidenceStep
<1> QED BY <1>1, <1>2, EvidenceOrNot

\* No step takes back a fact, turns the clock back or changes who answers for a dataset.
Onward ==
  /\ facts \subseteq facts' /\ owner' = owner
  /\ now \in Nat /\ now' \in Nat /\ now <= now'

LEMMA OnwardStep == EvidenceInv /\ [Next]_vars => Onward
<1> SUFFICES ASSUME EvidenceInv, [Next]_vars PROVE Onward
  OBVIOUS
<1>a. now \in 1 .. MaxTime /\ now' \in 1 .. MaxTime
  BY EvidenceInvStep DEF EvidenceInv, EvidenceTypeOK
<1>1. facts \subseteq facts' /\ now <= now'
  <2>1. CASE UNCHANGED <<now, evidence>>
    BY <1>a, <2>1 DEF evidence
  <2>2. ASSUME Tick PROVE facts \subseteq facts' /\ now <= now'
    BY <1>a, <2>2 DEF Tick, evidence
  <2>5. ASSUME Observe \/ \E p \in Passes : insert_observations(p) \/ observation_fails(p)
        PROVE  facts \subseteq facts' /\ now <= now'
    <3>1. UNCHANGED <<now, facts>>
      BY <2>5 DEF Observe, _mirror_execution_requests, _observe_passive_operations,
                  _observe_last_ingested_for_source, Collect, insert_observations, observation_fails
    <3> QED BY <1>a, <3>1
  <2>3. ASSUME HubReports PROVE facts \subseteq facts' /\ now <= now'
    BY <1>a, <2>3 DEF HubReports, hub_execution_starts, hub_execution_ends, hub_operation,
                   hub_ingested, Fact
  <2>4. ASSUME NEW s \in Sources, NEW ok \in BOOLEAN, NEW dry \in BOOLEAN,
               _record_source_event(s, ok, dry)
        PROVE  facts \subseteq facts' /\ now <= now'
    BY <1>a, <2>4 DEF _record_source_event
  <2> QED BY <2>1, <2>2, <2>3, <2>4, <2>5, EvidenceOrNot DEF EvidenceStep, EvidenceNext
<1>2. owner' = owner
  <2>1. ASSUME EvidenceStep \/ estate_changes \/ DefinitionRequest PROVE owner' = owner
    BY <2>1 DEF EvidenceStep, estate_changes, DefinitionRequest, delete_metric_config,
             create_metric_config, replace_metric_config, estate
  <2>2. ASSUME RunRequest PROVE owner' = owner
    BY <2>2 DEF RunRequest, run_dies, scheduled_run, requested_run, run, estate
  <2>3. ASSUME ValidationRequest PROVE owner' = owner
    BY <2>3 DEF ValidationRequest, delete_config, datahub_fails, upsert_config, patch_config,
             record_result, estate
  <2>4. ASSUME NEW w \in Workers, RunStep(w) PROVE owner' = owner
    BY <2>4 DEF RunStep, _run_inner, store, _replace_dataset_verdicts, estate
  <2>5. ASSUME NEW m \in Keys, lock_expires(m) PROVE owner' = owner
    BY <2>5 DEF lock_expires, estate
  <2>6. ASSUME NEW c \in Clients, ClientStep(c) PROVE owner' = owner
    BY <2>6 DEF ClientStep, datahub_assertion, insert_result, estate
  <2> QED BY <2>1, <2>2, <2>3, <2>4, <2>5, <2>6 DEF Next, vars, estate
<1> QED BY <1>a, <1>1, <1>2 DEF Onward

\* A verdict that was earned stays so.
LEMMA EarnedKept ==
  ASSUME EvidenceTypeOK, Onward, NEW v, NEW d, EarnedNow(v, d)
  PROVE  Earned(v, d, owner'[d], facts', now')
<1> SUFFICES ASSUME v # NoVerdict, v.type = "ingestion-freshness", v.met
             PROVE \E f \in facts' : /\ f.at = v.evidence /\ f.at >= v.instant - Window /\ f.at <= now' + Skew
                                     /\ f.of \in Family(owner[d]) \cup {d} \cup Mapped[owner[d]]
  BY DEF Earned, Onward
<1>1. PICK f \in facts : /\ f.at = v.evidence /\ f.at >= v.instant - Window /\ f.at <= now + Skew
                         /\ f.of \in Family(owner[d]) \cup {d} \cup Mapped[owner[d]]
  BY DEF EarnedNow, Earned
<1>2. f.at \in Nat
  BY EvidenceAssumption DEF EvidenceTypeOK, Instants
<1>3. f.at <= now' + Skew
  BY <1>1, <1>2, EvidenceAssumption DEF Onward
<1> QED BY <1>1, <1>3 DEF Onward

\* The lock of a metric is used as RunLock says.
LEMMA LockSteps == RunInv /\ [Next]_vars => [LockNext]_lockVars
<1> SUFFICES ASSUME RunInv, [Next]_vars PROVE [LockNext]_lockVars
  OBVIOUS
<1> USE DEF LockNext
<1>1. ASSUME EvidenceStep \/ estate_changes \/ DefinitionRequest PROVE [LockNext]_lockVars
  BY <1>1 DEF EvidenceStep, estate_changes, DefinitionRequest, delete_metric_config,
           create_metric_config, replace_metric_config, runs
<1>2. ASSUME RunRequest PROVE [LockNext]_lockVars
  BY <1>2 DEF RunRequest, run_dies, scheduled_run, requested_run, run
<1>3. ASSUME ValidationRequest PROVE [LockNext]_lockVars
  BY <1>3, ZenonT(60) DEF ValidationRequest, delete_config, datahub_fails, upsert_config, patch_config,
           record_result, runs
<1>4. ASSUME NEW w \in Workers, RunStep(w) PROVE [LockNext]_lockVars
  BY <1>4 DEF RunStep, _run_inner, store, _replace_dataset_verdicts, Finish
<1>5. ASSUME NEW m \in Keys, lock_expires(m) PROVE [LockNext]_lockVars
  BY <1>5 DEF lock_expires
<1>6. ASSUME NEW c \in Clients, ClientStep(c) PROVE [LockNext]_lockVars
  BY <1>6 DEF ClientStep, datahub_assertion, insert_result, runs
<1> QED BY <1>1, <1>2, <1>3, <1>4, <1>5, <1>6 DEF Next, vars, runs

----------------------------------------------------------------------------
\* The measurers.

\* Latest is the instant of one of the events it is given.
LEMMA LatestIs ==
  ASSUME EvidenceTypeOK, NEW es, es \subseteq events
  PROVE  /\ Latest(es) \in Instants
         /\ Latest(es) # 0 => \E e \in es : e.at = Latest(es)
<1> USE EvidenceAssumption
<1>1. CASE es = {}
  BY <1>1 DEF Latest, Instants
<1>2. CASE es # {}
  <2> DEFINE S == {e.at : e \in es}
  <2>1. \A e \in es : e.at \in 1 .. MaxTime + Skew
    BY DEF EvidenceTypeOK, Event
  <2>2. S \subseteq Nat /\ S # {} /\ MaxTime + Skew \in Nat /\ \A x \in S : x <= MaxTime + Skew
    BY <1>2, <2>1
  <2> HIDE DEF S
  <2>3. \E t \in S : \A y \in S : y <= t
    BY <2>2, Greatest
  <2>4. \E t \in S : \A e \in es : e.at <= t
    BY <2>3 DEF S
  <2>5. Latest(es) = CHOOSE t \in S : \A e \in es : e.at <= t
    BY <1>2 DEF Latest, S
  <2>6. Latest(es) \in S
    BY <2>4, <2>5
  <2>7. PICK e \in es : e.at = Latest(es)
    BY <2>6 DEF S
  <2> QED BY <2>1, <2>7 DEF Instants
<1> QED BY <1>1, <1>2

\* ingestion_freshness.measure: the evidence of a verdict is an ingestion of the dataset
\* or of the source that answers for it.
LEMMA FreshnessEarned ==
  ASSUME EvidenceInv, EstateType, NEW d \in Datasets, NEW instant \in Instants
  PROVE  /\ ingestion_freshness(d, instant) \in Verdict
         /\ EarnedNow(ingestion_freshness(d, instant), d)
<1> USE EvidenceAssumption
<1> DEFINE s == owner[d]
           mine == {e \in events : e.src \in Family(s) /\ e.ok /\ e.by \in Observers /\ e.ds = d}
           any == {e \in events : e.src \in Family(s) /\ e.ok /\ e.by # "dry_run"}
           own == IF s = NoSource THEN 0 ELSE Latest(mine)
           at == IF s = NoSource THEN 0 ELSE IF own # 0 THEN own ELSE Latest(any)
<1>a. EvidenceTypeOK /\ EvidenceIsReported /\ ReportsAreFacts /\ now \in Nat
  <2>1. EvidenceTypeOK /\ ReportsAreFacts
    BY DEF EvidenceInv
  <2>2. EvidenceIsReported
    BY DEF EvidenceInv, EvidenceIsReported, Sound, Reported
  <2> QED BY <2>1, <2>2 DEF EvidenceTypeOK
<1>b. s = NoSource \/ s \in Regulars
  BY DEF EstateType
<1>1. ingestion_freshness(d, instant) =
        [met |-> at # 0 /\ at >= instant - Window, evidence |-> at,
         type |-> "ingestion-freshness", instant |-> instant]
  BY DEF ingestion_freshness, latest_ingestion_observed_by_dataset,
         latest_ingestion_complete_by_source, _owner_by_entity_id
<1>2. /\ Latest(mine) \in Instants
      /\ Latest(mine) # 0 => \E e \in mine : e.at = Latest(mine)
      /\ Latest(any) \in Instants
      /\ Latest(any) # 0 => \E e \in any : e.at = Latest(any)
  <2>1. mine \subseteq events /\ any \subseteq events
    OBVIOUS
  <2> HIDE DEF mine, any
  <2> QED BY <1>a, <2>1, LatestIs
<1>c. 0 \in Instants
  BY DEF Instants
<1> HIDE DEF mine, any
<1>3. at \in Instants
  BY <1>2, <1>c
<1>4. ingestion_freshness(d, instant) \in Verdict
  BY <1>1, <1>3 DEF Verdict, MetricTypes
<1>5. ASSUME at # 0
      PROVE s # NoSource /\ \E e \in any : e.at = at
  <2>1. mine \subseteq any
    BY DEF mine, any, Observers
  <2> QED BY <1>2, <1>5, <2>1
<1>6. ASSUME s # NoSource, NEW e \in any
      PROVE  /\ e.at <= now + Skew
             /\ \E f \in facts : f.at = e.at /\ f.of \in Family(s) \cup Mapped[s]
  <2>1. /\ e \in events /\ e.src \in Family(s) /\ e.ok /\ e.by # "dry_run" /\ e \in Event
        /\ Backed(e) /\ e.at <= now + Skew
    BY <1>a DEF EvidenceInv, EvidenceTypeOK, Sound, Reported, any
  <2>2. e.by \in {"run", "mirror"} \cup Observers /\ e.src \in Sources /\ e.at \in 1 .. MaxTime + Skew
    BY <2>1 DEF Event, Producers, Observers
  <2>3. CASE e.by = "run"
    <3>1. [of |-> e.src, at |-> e.at] \in facts
      BY <2>1, <2>3 DEF Backed
    <3> QED BY <2>1, <3>1
  <2>4. CASE e.by = "mirror"
    <3>1. e.req \in Requests /\ RequestOf[e.req] = e.src /\ exec[e.req].st = "SUCCESS"
      BY <2>1, <2>4 DEF Backed
    <3>2. e.at \in {exec[e.req].start, exec[e.req].asked} \ {0}
      <4>1. e.at # 0
        BY <2>2
      <4>2. e.at \in {exec[e.req].start, exec[e.req].asked}
        BY <2>1, <2>4, <1>a DEF EvidenceIsReported
      <4> QED BY <4>1, <4>2
    <3>3. [of |-> e.src, at |-> e.at] \in facts
      BY <1>a, <3>1, <3>2 DEF ReportsAreFacts
    <3> QED BY <2>1, <3>3
  <2>5. CASE e.by \in Observers
    <3>1. e.ds \in Mapped[e.src] /\ e.src \in Regulars
      BY <2>1, <2>5 DEF Backed
    <3>2. [of |-> e.ds, at |-> e.at] \in facts
      BY <2>1, <2>5, <1>a DEF EvidenceIsReported
    <3>3. e.src = s \/ Parent[e.src] = s
      BY <2>1 DEF Family
    <3>5. e.src = s
      BY <1>6, <3>1, <3>3 DEF Regulars
    <3> QED BY <2>1, <3>1, <3>2, <3>5
  <2> QED BY <2>1, <2>2, <2>3, <2>4, <2>5
<1> HIDE DEF at
<1>7. EarnedNow(ingestion_freshness(d, instant), d)
  <2> DEFINE v == ingestion_freshness(d, instant)
  <2>1. /\ v.met = (at # 0 /\ at >= instant - Window) /\ v.evidence = at /\ v.instant = instant
    BY <1>1
  <2> HIDE DEF v
  <2> SUFFICES ASSUME v.met PROVE EarnedNow(v, d)
    BY DEF EarnedNow, Earned, v
  <2>2. PICK e \in any : e.at = at
    BY <1>5, <2>1
  <2>3. PICK f \in facts : f.at = e.at /\ f.of \in Family(s) \cup Mapped[s]
    BY <1>5, <1>6, <2>1
  <2>4. e.at <= now + Skew
    BY <1>5, <1>6, <2>1
  <2> QED BY <2>1, <2>2, <2>3, <2>4 DEF EarnedNow, Earned
<1> QED BY <1>4, <1>7

\* validation_score.measure reads the newest result.
LEMMA ScoreType ==
  ASSUME ValidationType, NEW d \in Datasets, NEW instant \in Instants
  PROVE  /\ validation_score(d, instant) \in Verdict \cup {NoVerdict}
         /\ EarnedNow(validation_score(d, instant), d)
<1> USE EvidenceAssumption, MetricsAssumption
<1> DEFINE posted == {t \in Instants : score[d][t] # "none"}
           b == _window_bounds(d, instant)
           inWindow == NewestResult(d) # 0 /\ b.lower <= NewestResult(d) /\ NewestResult(d) <= b.upper
           v == [met |-> inWindow /\ score[d][NewestResult(d)] = "pass",
                 evidence |-> IF inWindow THEN NewestResult(d) ELSE 0,
                 type |-> "validation-score", instant |-> instant]
<1>1. 0 \in Instants /\ Instants \subseteq Nat /\ MaxTime + Skew + 1 \in Nat
      /\ \A t \in Instants : t <= MaxTime + Skew + 1
  BY DEF Instants
<1>2. NewestResult(d) \in Instants
  <2>1. CASE posted = {}
    BY <1>1, <2>1 DEF NewestResult
  <2>2. CASE posted # {}
    <3>1. posted \subseteq Nat /\ posted \subseteq Instants /\ \A t \in posted : t <= MaxTime + Skew + 1
      BY <1>1
    <3>2. NewestResult(d) = CHOOSE t \in posted : \A u \in posted : u <= t
      BY <2>2 DEF NewestResult
    <3> HIDE DEF posted
    <3>3. \E t \in posted : \A u \in posted : u <= t
      BY <1>1, <2>2, <3>1, Greatest, ZenonT(60)
    <3> QED BY <3>1, <3>2, <3>3
  <2> QED BY <2>1, <2>2
<1>3. validation_score(d, instant) = IF conf[d] = NoConf THEN NoVerdict ELSE v
  BY DEF validation_score
<1> HIDE DEF inWindow
<1>4. v \in Verdict /\ v.type # "ingestion-freshness"
  BY <1>1, <1>2 DEF Verdict, MetricTypes
<1> HIDE DEF v
<1> QED BY <1>3, <1>4 DEF EarnedNow, Earned

LEMMA MeasureType ==
  ASSUME EvidenceInv, EstateType, ValidationType,
         NEW type \in MetricTypes, NEW scope, NEW instant \in Instants
  PROVE  /\ _measure(type, scope, instant) \in Verdicts
         /\ \A d \in Datasets : EarnedNow(_measure(type, scope, instant)[d], d)
<1>1. ASSUME NEW d \in Datasets
      PROVE  /\ doc_health(d, instant) \in Verdict /\ EarnedNow(doc_health(d, instant), d)
             /\ EarnedNow(NoVerdict, d)
  <2>1. 0 \in Instants
    BY EvidenceAssumption DEF Instants
  <2> QED BY <2>1 DEF doc_health, Verdict, MetricTypes, EarnedNow, Earned
<1>2. ASSUME NEW d \in Datasets
      PROVE  /\ _measure(type, scope, instant)[d] \in Verdict \cup {NoVerdict}
             /\ EarnedNow(_measure(type, scope, instant)[d], d)
  <2>1. CASE d \notin scope
    BY <1>1, <2>1 DEF _measure
  <2>2. CASE d \in scope
    <3>1. CASE type = "ingestion-freshness"
      BY <2>2, <3>1, FreshnessEarned DEF _measure
    <3>2. CASE type = "validation-score"
      BY <2>2, <3>2, ScoreType DEF _measure
    <3>3. CASE type = "doc-health"
      BY <1>1, <2>2, <3>3 DEF _measure
    <3> QED BY <3>1, <3>2, <3>3 DEF MetricTypes
  <2> QED BY <2>1, <2>2
<1> DEFINE Of(d) == IF d \notin scope THEN NoVerdict
                    ELSE CASE type = "ingestion-freshness" -> ingestion_freshness(d, instant)
                           [] type = "validation-score" -> validation_score(d, instant)
                           [] type = "doc-health" -> doc_health(d, instant)
<1>3. _measure(type, scope, instant) = [d \in Datasets |-> Of(d)]
  BY DEF _measure
<1> HIDE DEF Of
<1>4. _measure(type, scope, instant) \in Verdicts
  BY <1>2, <1>3 DEF Verdicts
<1> QED BY <1>2, <1>4

----------------------------------------------------------------------------
\* What the verdicts kept so far are worth after a step.
LEMMA EarnedStill ==
  ASSUME EvidenceTypeOK, RunInv, Onward
  PROVE  /\ \A m \in Keys, d \in Datasets : Earned(stored[m][d], d, owner'[d], facts', now')
         /\ \A w \in Workers, d \in Datasets : Earned(work[w].out[d], d, owner'[d], facts', now')
         /\ \A d \in Datasets : Earned(NoVerdict, d, owner'[d], facts', now')
<1>1. \A d \in Datasets : Earned(NoVerdict, d, owner'[d], facts', now')
  BY DEF Earned
<1> QED BY <1>1, EarnedKept DEF RunInv

\* A step that leaves the runs and their tables alone.
LEMMA RunFrame ==
  ASSUME EvidenceTypeOK, RunInv, Onward, UNCHANGED <<result, stored, work, overlap, task>>,
         defn' \in [Keys -> Definition \cup {NoMetric}]
  PROVE  RunInv'
<1>1. RunType'
  BY DEF RunInv, RunType
<1>2. StoringAlone'
  <2>1. \A m \in Keys : Storing(m)' = Storing(m)
    BY DEF Storing
  <2> QED BY <2>1 DEF RunInv, StoringAlone
<1>6. ResultMatchesVerdicts'
  BY DEF RunInv, ResultMatchesVerdicts, OfOneRun
<1>3. \A m \in Keys, d \in Datasets : EarnedNow(stored[m][d], d)'
  BY EarnedStill DEF EarnedNow
<1>4. \A w \in Workers, d \in Datasets : EarnedNow(work[w].out[d], d)'
  BY EarnedStill DEF EarnedNow
<1>5. \A w \in Workers : work'[w].pc # "idle" => task'[w] # NoKey
  BY DEF RunInv
<1> QED BY <1>1, <1>2, <1>3, <1>4, <1>5, <1>6 DEF RunInv

\* No run is under way.
LEMMA NoWorkType == NoWork \in Work
<1>1. 0 \in Instants
  BY EvidenceAssumption DEF Instants
<1> QED BY <1>1 DEF NoWork, Work, Verdicts

\* A run begins or ends, or has its measurement: it is not storing before nor after.
LEMMA WorkMoves ==
  ASSUME EvidenceTypeOK, LockTypeOK, RunInv, Onward, NEW w \in Workers, NEW new \in Work,
         NEW key \in Keys \cup {NoKey},
         work' = [work EXCEPT ![w] = new], task' = [task EXCEPT ![w] = key],
         new.pc # "commit", new.pc # "idle" => key # NoKey,
         \A d \in Datasets : Earned(new.out[d], d, owner'[d], facts', now'),
         UNCHANGED <<defn, result, stored, overlap>>
  PROVE  RunInv'
<1>a. work \in [Workers -> Work] /\ task \in [Workers -> Keys \cup {NoKey}]
  BY DEF RunInv, RunType, LockTypeOK
<1>b. /\ work'[w] = new /\ task'[w] = key
      /\ \A v \in Workers \ {w} : work'[v] = work[v] /\ task'[v] = task[v]
  BY <1>a
<1>1. RunType'
  BY DEF RunInv, RunType
<1>2. \A m \in Keys : Storing(m)' \subseteq Storing(m) /\ \A v \in Storing(m)' : work'[v] = work[v]
  BY <1>b DEF Storing
<1>3. StoringAlone'
  BY <1>2 DEF RunInv, StoringAlone
<1>4. ResultMatchesVerdicts'
  BY DEF RunInv, ResultMatchesVerdicts, OfOneRun
<1>5. \A m \in Keys, d \in Datasets : EarnedNow(stored[m][d], d)'
  BY EarnedStill DEF EarnedNow
<1>6. \A v \in Workers, d \in Datasets : EarnedNow(work[v].out[d], d)'
  BY <1>b, EarnedStill DEF EarnedNow
<1>7. \A v \in Workers : work'[v].pc # "idle" => task'[v] # NoKey
  BY <1>b DEF RunInv
<1> QED BY <1>1, <1>3, <1>4, <1>5, <1>6, <1>7 DEF RunInv

LEMMA WorkEnds ==
  ASSUME EvidenceTypeOK, LockTypeOK, RunInv, Onward, NEW w \in Workers,
         work' = [work EXCEPT ![w] = NoWork], task' = [task EXCEPT ![w] = NoKey],
         UNCHANGED <<defn, result, stored, overlap>>
  PROVE  RunInv'
<1>1. NoWork.pc = "idle" /\ \A d \in Datasets : NoWork.out[d] = NoVerdict
  BY DEF NoWork
<1>2. \A d \in Datasets : Earned(NoWork.out[d], d, owner'[d], facts', now')
  BY <1>1, EarnedStill
<1>3. NoKey \in Keys \cup {NoKey} /\ NoWork.pc # "commit" /\ ~(NoWork.pc # "idle")
  BY <1>1
<1> HIDE DEF NoWork
<1> QED BY <1>2, <1>3, NoWorkType, WorkMoves

\* A run begins, on time, late or on demand.
LEMMA RunBegins ==
  ASSUME MetricsInv, Onward, NEW w \in Workers, NEW m \in Keys, NEW instant \in Instants,
         NEW dry \in BOOLEAN, run(w, m, instant, dry)
  PROVE  RunInv'
<1>a. EvidenceTypeOK /\ LockTypeOK /\ RunInv
  BY DEF MetricsInv, EvidenceInv, LockInv
<1> DEFINE new == [NoWork EXCEPT !.pc = "measure", !.instant = instant, !.dry = dry]
<1>1. new \in Work /\ new.pc = "measure" /\ new.out = NoWork.out
  BY NoWorkType DEF Work, NoWork
<1>2. \A d \in Datasets : NoWork.out[d] = NoVerdict
  BY DEF NoWork
<1>3. /\ work' = [work EXCEPT ![w] = new] /\ task' = [task EXCEPT ![w] = m]
      /\ UNCHANGED <<defn, result, stored, overlap>> /\ m # NoKey
  BY LockAssumption DEF run, set_nx
<1> HIDE DEF new
<1>4. \A d \in Datasets : Earned(new.out[d], d, owner'[d], facts', now')
  BY <1>a, <1>1, <1>2, EarnedStill
<1> QED BY <1>a, <1>1, <1>3, <1>4, WorkMoves

\* The measurement: what it stores later is earned now.
LEMMA RunMeasures ==
  ASSUME MetricsInv, Onward, NEW w \in Workers, _run_inner(w)
  PROVE  RunInv'
<1>a. EvidenceTypeOK /\ LockTypeOK /\ RunInv /\ EvidenceInv /\ EstateType /\ ValidationType
  BY DEF MetricsInv, EvidenceInv, LockInv, ValidationInv
<1> DEFINE m == task[w]
           got == _measure(defn[m].type, resolve_dataset_scope(m), work[w].instant)
           new == [NoWork EXCEPT !.pc = "store", !.out = got]
<1>b. m \in Keys
  BY <1>a DEF RunInv, RunType, LockTypeOK, _run_inner
<1>1. CASE Finish(w)
  BY <1>a, <1>1, WorkEnds DEF Finish, delete_if_value, _run_inner
<1>2. CASE ~Finish(w)
  <2>1. /\ defn[m] # NoMetric /\ work' = [work EXCEPT ![w] = new]
        /\ UNCHANGED <<defn, result, stored, overlap, lockVars>>
    BY <1>2 DEF _run_inner
  <2>2. defn[m].type \in MetricTypes /\ work[w].instant \in Instants
    BY <1>a, <1>b, <2>1, MetricsAssumption DEF RunInv, RunType, Definition, Work
  <2>3. got \in Verdicts /\ \A d \in Datasets : EarnedNow(got[d], d)
    BY <1>a, <2>2, MeasureType
  <2> HIDE DEF got
  <2>4. new \in Work /\ new.pc = "store" /\ new.out = got
    BY <2>3, NoWorkType DEF Work, NoWork
  <2> HIDE DEF new
  <2>5. \A d \in Datasets : Earned(new.out[d], d, owner'[d], facts', now')
    BY <1>a, <2>3, <2>4, EarnedKept
  <2>6. task' = [task EXCEPT ![w] = m] /\ m # NoKey
    BY <1>a, <1>b, <2>1, LockAssumption DEF lockVars, LockTypeOK
  <2> QED BY <1>a, <1>b, <2>1, <2>4, <2>5, <2>6, WorkMoves
<1> QED BY <1>1, <1>2

\* The transaction that stores begins: a second one on the metric is an overlap.
LEMMA RunStores ==
  ASSUME MetricsInv, Onward, NEW w \in Workers, store(w)
  PROVE  RunInv'
<1>a. EvidenceTypeOK /\ LockTypeOK /\ RunInv
  BY DEF MetricsInv, EvidenceInv, LockInv
<1> DEFINE m == task[w]
<1>b. m \in Keys /\ work \in [Workers -> Work] /\ stored \in [Keys -> Verdicts]
  BY <1>a DEF RunInv, RunType, LockTypeOK, store
<1>1. CASE Finish(w)
  <2>1. UNCHANGED overlap \/ (defn[m] # NoMetric /\ UNCHANGED lockVars)
    BY DEF store
  <2>2. UNCHANGED overlap
    BY <1>1, <1>a, <1>b, <2>1, LockAssumption DEF Finish, delete_if_value, lockVars, LockTypeOK
  <2> QED BY <1>a, <1>1, <2>2, WorkEnds DEF Finish, delete_if_value, store
<1>2. CASE ~Finish(w)
  <2>1. /\ work' = [work EXCEPT ![w].pc = "commit", ![w].seen = stored[m]]
        /\ overlap' = IF Storing(m) # {} THEN overlap \cup {m} ELSE overlap
        /\ UNCHANGED <<defn, result, stored, lockVars>>
    BY <1>2 DEF store
  <2>2. UNCHANGED task
    BY <2>1 DEF lockVars
  <2>3. work[w] \in Work /\ stored[m] \in Verdicts
    BY <1>b
  <2>4. work'[w] = [work[w] EXCEPT !.pc = "commit", !.seen = stored[m]]
    BY <1>b, <2>1
  <2>5. /\ work'[w] \in Work /\ work'[w].pc = "commit" /\ work'[w].seen = stored[m]
        /\ work'[w].out = work[w].out
    BY <2>3, <2>4 DEF Work
  <2>6. \A v \in Workers \ {w} : work'[v] = work[v]
    BY <1>b, <2>1
  <2>7. work' \in [Workers -> Work]
    BY <1>b, <2>1, <2>5, <2>6
  <2>8. RunType'
    BY <1>a, <1>b, <2>1, <2>7 DEF RunInv, RunType
  <2>9. StoringAlone'
    <3> SUFFICES ASSUME NEW k \in Keys \ overlap', NEW u \in Storing(k)'
                 PROVE  work'[u].seen = stored[k] /\ \A v \in Storing(k)' : v = u
      BY <2>1 DEF StoringAlone
    <3>1. k \notin overlap
      BY <2>1
    <3>2. CASE k = m
      <4>1. Storing(k) = {}
        BY <2>1, <3>2
      <4>2. \A v \in Storing(k)' : v = w
        BY <2>2, <2>6, <4>1 DEF Storing
      <4> QED BY <2>5, <3>2, <4>2
    <3>3. CASE k # m
      <4>1. \A v \in Storing(k)' : v \in Storing(k) /\ v # w /\ work'[v] = work[v]
        BY <2>2, <2>6, <3>3 DEF Storing
      <4> QED BY <1>a, <3>1, <4>1 DEF RunInv, StoringAlone
    <3> QED BY <3>2, <3>3
  <2>10. ResultMatchesVerdicts'
    <3>1. Keys \ overlap' \subseteq Keys \ overlap
      BY <2>1
    <3> QED BY <1>a, <2>1, <3>1 DEF RunInv, ResultMatchesVerdicts, OfOneRun
  <2>11. \A k \in Keys, d \in Datasets : EarnedNow(stored[k][d], d)'
    BY <1>a, <2>1, EarnedStill DEF EarnedNow
  <2>12. \A v \in Workers, d \in Datasets : EarnedNow(work[v].out[d], d)'
    BY <1>a, <2>5, <2>6, EarnedStill DEF EarnedNow
  <2>13. \A v \in Workers : work'[v].pc # "idle" => task'[v] # NoKey
    BY <1>a, <1>b, <2>2, <2>6, LockAssumption DEF RunInv
  <2> QED BY <2>8, <2>9, <2>10, <2>11, <2>12, <2>13 DEF RunInv
<1> QED BY <1>1, <1>2

\* The counts of a result are in their types.
LEMMA ResultType ==
  ASSUME NEW out \in Verdicts
  PROVE  [met |-> Cardinality({d \in Datasets : out[d] # NoVerdict /\ out[d].met}),
          failing |-> _breakdown_from_verdicts(out)] \in Result
<1> DEFINE good == {d \in Datasets : out[d] # NoVerdict /\ out[d].met}
<1>1. good \subseteq Datasets /\ IsFiniteSet(Datasets)
  BY MetricsAssumption
<1> HIDE DEF good
<1>2. IsFiniteSet(good) /\ Cardinality(good) <= Cardinality(Datasets)
  BY <1>1, FS_Subset
<1>3. Cardinality(good) \in 0 .. Cardinality(Datasets)
  BY <1>1, <1>2, FS_CardinalityType
<1> QED BY <1>3 DEF good, Result, _breakdown_from_verdicts

\* The commit: the result and the verdicts of one run, unless another run stored too.
LEMMA RunCommits ==
  ASSUME MetricsInv, Onward, NEW w \in Workers, _replace_dataset_verdicts(w)
  PROVE  RunInv'
<1>a. EvidenceTypeOK /\ LockTypeOK /\ RunInv
  BY DEF MetricsInv, EvidenceInv, LockInv
<1> DEFINE m == task[w]
           out == work[w].out
           kept == Kept(w)
           row == [d \in Datasets |-> IF out[d] # NoVerdict THEN out[d] ELSE kept[d]]
           res == [met |-> Cardinality({d \in Datasets : out[d] # NoVerdict /\ out[d].met}),
                   failing |-> _breakdown_from_verdicts(out)]
<1>b. m \in Keys /\ work \in [Workers -> Work] /\ stored \in [Keys -> Verdicts]
      /\ task \in [Workers -> Keys \cup {NoKey}] /\ result \in [Keys -> Result \cup {NoResult}]
  BY <1>a DEF RunInv, RunType, LockTypeOK, _replace_dataset_verdicts
<1>c. /\ work' = [work EXCEPT ![w] = NoWork] /\ task' = [task EXCEPT ![w] = NoKey]
      /\ UNCHANGED <<defn, overlap>> /\ work[w].pc = "commit"
  BY DEF _replace_dataset_verdicts, Finish, delete_if_value
<1>1. CASE UNCHANGED <<result, stored>>
  BY <1>a, <1>c, <1>1, WorkEnds
<1>2. CASE ~UNCHANGED <<result, stored>>
  <2>1. stored' = [stored EXCEPT ![m] = row] /\ result' = [result EXCEPT ![m] = res]
    BY <1>2 DEF _replace_dataset_verdicts
  <2>2. out \in Verdicts /\ work[w] \in Work
    BY <1>b DEF Work
  <2>3. res \in Result
    BY <2>2, ResultType
  <2>4. kept \in Verdicts /\ \A d \in Datasets : kept[d] \in {NoVerdict, stored[m][d]}
    BY <1>b DEF Kept, Verdicts
  <2>5. m \notin overlap => \A d \in Datasets : kept[d] = NoVerdict
    <3>1. w \in Storing(m)
      BY <1>c DEF Storing
    <3>2. m \notin overlap => work[w].seen = stored[m]
      BY <1>a, <1>b, <3>1 DEF RunInv, StoringAlone
    <3> QED BY <3>2 DEF Kept
  <2> HIDE DEF kept, res
  <2>6. row \in Verdicts /\ \A d \in Datasets : row[d] = IF out[d] # NoVerdict THEN out[d] ELSE kept[d]
    BY <2>2, <2>4 DEF Verdicts
  <2>7. m \notin overlap => row = out
    BY <2>2, <2>5 DEF Verdicts
  <2> HIDE DEF row
  <2>8. /\ stored'[m] = row /\ result'[m] = res
        /\ \A k \in Keys \ {m} : stored'[k] = stored[k] /\ result'[k] = result[k]
    BY <1>b, <2>1
  <2>9. /\ work'[w] = NoWork /\ task'[w] = NoKey
        /\ \A v \in Workers \ {w} : work'[v] = work[v] /\ task'[v] = task[v]
    BY <1>b, <1>c
  <2>10. RunType'
    <3>1. stored' \in [Keys -> Verdicts] /\ result' \in [Keys -> Result \cup {NoResult}]
      BY <1>b, <2>1, <2>3, <2>6
    <3> QED BY <1>a, <1>b, <1>c, <3>1, NoWorkType DEF RunInv, RunType
  <2>11. StoringAlone'
    <3> SUFFICES ASSUME NEW k \in Keys \ overlap, NEW u \in Storing(k)'
                 PROVE  work'[u].seen = stored'[k] /\ \A v \in Storing(k)' : v = u
      BY <1>c DEF StoringAlone
    <3>1. NoWork.pc = "idle"
      BY DEF NoWork
    <3>2. \A v \in Storing(k)' : v \in Storing(k) /\ v # w /\ work'[v] = work[v]
      BY <2>9, <3>1 DEF Storing
    <3>3. k # m
      <4>1. w \in Storing(m)
        BY <1>c DEF Storing
      <4> QED BY <1>a, <3>2, <4>1 DEF RunInv, StoringAlone
    <3> QED BY <1>a, <2>8, <3>2, <3>3 DEF RunInv, StoringAlone
  <2>12. ResultMatchesVerdicts'
    <3> SUFFICES ASSUME NEW k \in Keys \ overlap
                 PROVE  LET rows == {d \in Datasets : stored'[k][d] # NoVerdict} IN
                        IF result'[k] = NoResult THEN rows = {}
                        ELSE /\ {d \in rows : ~stored'[k][d].met} = result'[k].failing
                             /\ Cardinality({d \in rows : stored'[k][d].met}) = result'[k].met
      BY <1>c DEF ResultMatchesVerdicts, OfOneRun
    <3>1. CASE k # m
      BY <1>a, <2>8, <3>1 DEF RunInv, ResultMatchesVerdicts, OfOneRun
    <3>2. CASE k = m
      <4> DEFINE rows == {d \in Datasets : out[d] # NoVerdict}
      <4>1. stored'[k] = out /\ result'[k] = res /\ res # NoResult
        BY <2>3, <2>7, <2>8, <3>2, MetricsAssumption
      <4>2. {d \in rows : ~out[d].met} = res.failing
        BY DEF res, _breakdown_from_verdicts
      <4>3. {d \in rows : out[d].met} = {d \in Datasets : out[d] # NoVerdict /\ out[d].met}
        OBVIOUS
      <4>4. Cardinality({d \in rows : out[d].met}) = res.met
        BY <4>3 DEF res
      <4> HIDE DEF out
      <4> QED BY <4>1, <4>2, <4>4
    <3> QED BY <3>1, <3>2
  <2>13. \A k \in Keys, d \in Datasets : EarnedNow(stored[k][d], d)'
    <3>1. \A d \in Datasets : Earned(row[d], d, owner'[d], facts', now')
      BY <1>a, <1>b, <2>4, <2>6, EarnedStill
    <3>2. \A k \in Keys, d \in Datasets : Earned(stored'[k][d], d, owner'[d], facts', now')
      BY <1>a, <2>8, <3>1, EarnedStill
    <3> QED BY <3>2 DEF EarnedNow
  <2>14. \A v \in Workers, d \in Datasets : EarnedNow(work[v].out[d], d)'
    <3>1. \A d \in Datasets : NoWork.out[d] = NoVerdict
      BY DEF NoWork
    <3> HIDE DEF NoWork
    <3>2. \A v \in Workers, d \in Datasets : Earned(work'[v].out[d], d, owner'[d], facts', now')
      BY <1>a, <2>9, <3>1, EarnedStill
    <3> QED BY <3>2 DEF EarnedNow
  <2>15. \A v \in Workers : work'[v].pc # "idle" => task'[v] # NoKey
    BY <1>a, <2>9 DEF RunInv, NoWork
  <2> QED BY <2>10, <2>11, <2>12, <2>13, <2>14, <2>15 DEF RunInv
<1> QED BY <1>1, <1>2

LEMMA RunInvStep == MetricsInv /\ [Next]_vars => RunInv'
<1> SUFFICES ASSUME MetricsInv, [Next]_vars PROVE RunInv'
  OBVIOUS
<1>a. EvidenceTypeOK /\ LockTypeOK /\ RunInv /\ Onward
  BY OnwardStep DEF MetricsInv, EvidenceInv, LockInv
<1>b. defn \in [Keys -> Definition \cup {NoMetric}] /\ now \in 1 .. MaxTime
      /\ stored \in [Keys -> Verdicts] /\ result \in [Keys -> Result \cup {NoResult}]
  BY <1>a DEF RunInv, RunType, EvidenceTypeOK
<1>0. ASSUME UNCHANGED <<defn, result, stored, work, overlap, task>> PROVE RunInv'
  BY <1>0, <1>a, <1>b, RunFrame
<1>1. ASSUME EvidenceStep \/ estate_changes PROVE RunInv'
  BY <1>0, <1>1 DEF EvidenceStep, estate_changes, runs, lockVars
<1>2. ASSUME ValidationRequest PROVE RunInv'
  BY <1>0, <1>2 DEF ValidationRequest, delete_config, datahub_fails, upsert_config, patch_config,
           record_result, runs, lockVars
<1>3. ASSUME NEW c \in Clients, ClientStep(c) PROVE RunInv'
  BY <1>0, <1>3 DEF ClientStep, datahub_assertion, insert_result, runs, lockVars
<1>4. ASSUME NEW m \in Keys, lock_expires(m) PROVE RunInv'
  BY <1>0, <1>4 DEF lock_expires, Expire
<1>5. ASSUME NEW m \in Keys, NEW def \in Definition,
             create_metric_config(m, def) \/ replace_metric_config(m, def)
      PROVE RunInv'
  <2>1. UNCHANGED <<result, stored, work, overlap, task>> /\ defn' = [defn EXCEPT ![m] = def]
    BY <1>5 DEF create_metric_config, replace_metric_config, lockVars
  <2> QED BY <1>a, <1>b, <2>1, RunFrame
<1>6. ASSUME NEW m \in Keys, delete_metric_config(m) PROVE RunInv'
  <2> DEFINE none == [d \in Datasets |-> NoVerdict]
  <2>1. /\ UNCHANGED <<work, overlap, task>> /\ Storing(m) = {}
        /\ defn' = [defn EXCEPT ![m] = NoMetric] /\ result' = [result EXCEPT ![m] = NoResult]
        /\ stored' = [stored EXCEPT ![m] = none]
    BY <1>6 DEF delete_metric_config, lockVars
  <2>2. none \in Verdicts /\ \A d \in Datasets : none[d] = NoVerdict
    BY DEF Verdicts
  <2> HIDE DEF none
  <2>3. /\ stored'[m] = none /\ result'[m] = NoResult
        /\ \A k \in Keys \ {m} : stored'[k] = stored[k] /\ result'[k] = result[k]
    BY <1>b, <2>1
  <2>4. RunType'
    BY <1>a, <1>b, <2>1, <2>2 DEF RunInv, RunType
  <2>5. \A k \in Keys : Storing(k)' = Storing(k)
    BY <2>1 DEF Storing
  <2>6. StoringAlone'
    BY <1>a, <2>1, <2>3, <2>5 DEF RunInv, StoringAlone
  <2>7. ResultMatchesVerdicts'
    BY <1>a, <2>1, <2>2, <2>3 DEF RunInv, ResultMatchesVerdicts, OfOneRun
  <2>8. \A k \in Keys, d \in Datasets : EarnedNow(stored[k][d], d)'
    <3>1. \A k \in Keys, d \in Datasets : Earned(stored'[k][d], d, owner'[d], facts', now')
      BY <1>a, <2>2, <2>3, EarnedStill
    <3> QED BY <3>1 DEF EarnedNow
  <2>9. \A v \in Workers, d \in Datasets : EarnedNow(work[v].out[d], d)'
    BY <1>a, <2>1, EarnedStill DEF EarnedNow
  <2>10. \A v \in Workers : work'[v].pc # "idle" => task'[v] # NoKey
    BY <1>a, <2>1 DEF RunInv
  <2> QED BY <2>4, <2>6, <2>7, <2>8, <2>9, <2>10 DEF RunInv
<1>7. ASSUME RunRequest PROVE RunInv'
  <2>1. ASSUME NEW w \in Workers, run_dies(w) PROVE RunInv'
    BY <1>a, <2>1, WorkEnds DEF run_dies, Crash
  <2>2. now \in Instants
    BY <1>b, EvidenceAssumption DEF Instants
  <2>3. ASSUME NEW w \in Workers, NEW m \in Keys, scheduled_run(w, m) PROVE RunInv'
    BY <1>a, <2>2, <2>3, RunBegins DEF scheduled_run
  <2>4. ASSUME NEW w \in Workers, NEW m \in Keys, NEW t \in Instants, NEW dry \in BOOLEAN,
               requested_run(w, m, t, dry)
        PROVE RunInv'
    BY <1>a, <2>4, RunBegins DEF requested_run
  <2> QED BY <1>7, <2>1, <2>3, <2>4 DEF RunRequest
<1>8. ASSUME NEW w \in Workers, RunStep(w) PROVE RunInv'
  BY <1>a, <1>8, RunMeasures, RunStores, RunCommits DEF RunStep
<1>9. CASE UNCHANGED vars
  BY <1>0, <1>9 DEF vars, runs, lockVars
<1> QED BY <1>1, <1>2, <1>3, <1>4, <1>5, <1>6, <1>7, <1>8, <1>9 DEF Next, DefinitionRequest

LEMMA EstateStep == EstateType /\ [Next]_vars => EstateType'
<1> SUFFICES ASSUME EstateType, [Next]_vars PROVE EstateType'
  OBVIOUS
<1>0. ASSUME UNCHANGED estate PROVE EstateType'
  BY <1>0 DEF estate, EstateType
<1>1. ASSUME estate_changes PROVE EstateType'
  BY <1>1 DEF estate_changes, EstateType
<1>2. ASSUME EvidenceStep \/ DefinitionRequest PROVE EstateType'
  BY <1>0, <1>2 DEF EvidenceStep, DefinitionRequest, delete_metric_config, create_metric_config,
                    replace_metric_config
<1>3. ASSUME RunRequest PROVE EstateType'
  BY <1>0, <1>3 DEF RunRequest, run_dies, scheduled_run, requested_run, run
<1>4. ASSUME ValidationRequest PROVE EstateType'
  BY <1>0, <1>4 DEF ValidationRequest, delete_config, datahub_fails, upsert_config, patch_config,
                    record_result
<1>5. ASSUME NEW w \in Workers, RunStep(w) PROVE EstateType'
  BY <1>0, <1>5 DEF RunStep, _run_inner, store, _replace_dataset_verdicts
<1>6. ASSUME NEW m \in Keys, lock_expires(m) PROVE EstateType'
  BY <1>0, <1>6 DEF lock_expires
<1>7. ASSUME NEW c \in Clients, ClientStep(c) PROVE EstateType'
  BY <1>0, <1>7 DEF ClientStep, datahub_assertion, insert_result
<1> QED BY <1>0, <1>1, <1>2, <1>3, <1>4, <1>5, <1>6, <1>7 DEF Next, vars

----------------------------------------------------------------------------
\* Validation requests.

\* A request begins on d: with no other request on d it finds DataHub in step with
\* the conf, and changes the conf of d alone.
LEMMA ValidationBegins ==
  ASSUME ValidationInv, NEW c \in Clients, NEW d \in Datasets,
         NEW pc \in {"register", "retract", "insert"}, NEW at \in Instants, NEW pass \in BOOLEAN,
         Begin(c, pc, d, at, pass), assertion' = assertion,
         conf' \in [Datasets -> Lags \cup {NoConf}],
         score' \in [Datasets -> [Instants -> {"none", "pass", "fail"}]],
         \A x \in Datasets \ {d} : conf'[x] = conf[x],
         pc = "register" => conf'[d] # NoConf,
         pc = "retract" => conf'[d] = NoConf,
         pc = "insert" => conf'[d] = conf[d]
  PROVE  ValidationInv'
<1> USE EvidenceAssumption
<1>a. ValidationType
  BY DEF ValidationInv
<1>b. /\ client'[c] = [pc |-> pc, ds |-> d, at |-> at, pass |-> pass]
      /\ \A e \in Clients \ {c} : client'[e] = client[e]
      /\ client[c].ds = NoDataset /\ d # NoDataset
  BY <1>a DEF Begin, ValidationType, ValidationInv
<1>c. /\ client'[c].pc = pc /\ client'[c].ds = d
      /\ muddled \ {d} \subseteq muddled' /\ muddled' \subseteq muddled \cup {d}
      /\ d \notin muddled' => \A e \in Clients : client[e].ds # d
      /\ d \notin muddled' /\ pc = "insert" => d \notin muddled
  BY <1>b DEF Begin
<1>1. ValidationType'
  BY <1>a, <1>b DEF ValidationType, Begin
<1>2. \A e \in Clients : client'[e].pc = "idle" <=> client'[e].ds = NoDataset
  BY <1>b, <1>c DEF ValidationInv
<1>3. ASSUME NEW x \in Datasets \ muddled', NEW e \in Clients, client'[e].ds = x PROVE Follows(e, x)'
  <2>1. CASE x = d
    <3>1. \A f \in Clients : client'[f].ds = d => f = c
      BY <1>b, <1>c, <1>3, <2>1
    <3>2. pc = "insert" => (d \in assertion <=> conf[d] # NoConf)
      BY <1>c, <1>3, <2>1 DEF ValidationInv, AssertionFollowsConf
    <3>3. e = c
      BY <1>3, <2>1, <3>1
    <3> QED BY <1>c, <2>1, <3>1, <3>2, <3>3 DEF Follows
  <2>2. CASE x # d
    <3>1. x \in Datasets \ muddled /\ e # c /\ client[e].ds = x
      BY <1>b, <1>c, <1>3, <2>2
    <3>2. Follows(e, x)
      BY <3>1 DEF ValidationInv
    <3> QED BY <1>b, <1>c, <2>2, <3>1, <3>2 DEF Follows
  <2> QED BY <2>1, <2>2
<1>4. AssertionFollowsConf'
  <2> SUFFICES ASSUME NEW x \in Datasets \ muddled', \A e \in Clients : client'[e].ds # x
               PROVE  x \in assertion <=> conf'[x] # NoConf
    BY DEF AssertionFollowsConf
  <2>1. x # d /\ x \notin muddled /\ \A e \in Clients : client[e].ds # x
    BY <1>b, <1>c
  <2> QED BY <2>1 DEF ValidationInv, AssertionFollowsConf
<1> QED BY <1>1, <1>2, <1>3, <1>4 DEF ValidationInv

\* A request ends: DataHub is in step with the conf, or the dataset is muddled.
LEMMA ValidationEnds ==
  ASSUME ValidationInv, NEW c \in Clients, End(c), UNCHANGED conf,
         assertion' \subseteq Datasets, muddled \subseteq muddled', muddled' \subseteq Datasets,
         score' \in [Datasets -> [Instants -> {"none", "pass", "fail"}]],
         \A x \in Datasets \ {client[c].ds} : x \in assertion' <=> x \in assertion,
         client[c].ds \in Datasets,
         client[c].ds \notin muddled' =>
           (client[c].ds \in assertion' <=> conf[client[c].ds] # NoConf)
  PROVE  ValidationInv'
<1> USE EvidenceAssumption
<1>a. ValidationType /\ 0 \in Instants
  BY DEF ValidationInv, Instants
<1>b. /\ client'[c] = NoClient /\ client'[c].pc = "idle" /\ client'[c].ds = NoDataset
      /\ \A e \in Clients \ {c} : client'[e] = client[e]
  BY <1>a DEF End, ValidationType, NoClient
<1>1. ValidationType'
  BY <1>a DEF ValidationType, End, NoClient
<1>2. \A e \in Clients : client'[e].pc = "idle" <=> client'[e].ds = NoDataset
  BY <1>b DEF ValidationInv
<1>3. ASSUME NEW x \in Datasets \ muddled', NEW e \in Clients, client'[e].ds = x PROVE Follows(e, x)'
  <2>1. e # c /\ client[e].ds = x /\ x \in Datasets \ muddled
    BY <1>b, <1>3
  <2>2. Follows(e, x)
    BY <2>1 DEF ValidationInv
  <2>3. client[c].ds # x
    BY <2>1, <2>2 DEF Follows
  <2> QED BY <1>b, <2>1, <2>2, <2>3 DEF Follows
<1>4. AssertionFollowsConf'
  <2> SUFFICES ASSUME NEW x \in Datasets \ muddled', \A e \in Clients : client'[e].ds # x
               PROVE  x \in assertion' <=> conf[x] # NoConf
    BY DEF AssertionFollowsConf
  <2>1. CASE x = client[c].ds
    BY <2>1
  <2>2. CASE x # client[c].ds
    <3>1. x \notin muddled /\ \A e \in Clients : client[e].ds # x
      BY <1>b, <2>2
    <3> QED BY <2>2, <3>1 DEF ValidationInv, AssertionFollowsConf
  <2> QED BY <2>1, <2>2
<1> QED BY <1>1, <1>2, <1>3, <1>4 DEF ValidationInv

LEMMA ValidationStep == EvidenceTypeOK /\ ValidationInv /\ [Next]_vars => ValidationInv'
<1> SUFFICES ASSUME EvidenceTypeOK, ValidationInv, [Next]_vars PROVE ValidationInv'
  OBVIOUS
<1> USE EvidenceAssumption, MetricsAssumption
<1>a. ValidationType /\ 0 \in Instants /\ FALSE \in BOOLEAN
  BY DEF ValidationInv, Instants
<1>b. /\ conf \in [Datasets -> Lags \cup {NoConf}] /\ assertion \subseteq Datasets /\ muddled \subseteq Datasets
      /\ score \in [Datasets -> [Instants -> {"none", "pass", "fail"}]]
  BY <1>a DEF ValidationType
<1>0. ASSUME UNCHANGED validation PROVE ValidationInv'
  <2>1. UNCHANGED <<conf, score, assertion, client, muddled>>
    BY <1>0 DEF validation
  <2> QED BY <2>1 DEF ValidationInv, ValidationType, AssertionFollowsConf, Follows
<1>1. ASSUME EvidenceStep \/ estate_changes \/ DefinitionRequest PROVE ValidationInv'
  BY <1>0, <1>1 DEF EvidenceStep, estate_changes, DefinitionRequest, delete_metric_config,
                    create_metric_config, replace_metric_config
<1>2. ASSUME RunRequest PROVE ValidationInv'
  BY <1>0, <1>2 DEF RunRequest, run_dies, scheduled_run, requested_run, run
<1>3. ASSUME NEW w \in Workers, RunStep(w) PROVE ValidationInv'
  BY <1>0, <1>3 DEF RunStep, _run_inner, store, _replace_dataset_verdicts
<1>4. ASSUME NEW m \in Keys, lock_expires(m) PROVE ValidationInv'
  BY <1>0, <1>4 DEF lock_expires
<1>5. ASSUME NEW c \in Clients, NEW d \in Datasets, NEW lag \in Lags,
             upsert_config(c, d, lag) \/ patch_config(c, d, lag)
      PROVE ValidationInv'
  <2>1. /\ Begin(c, "register", d, 0, FALSE) /\ conf' = [conf EXCEPT ![d] = lag]
        /\ UNCHANGED <<score, assertion>>
    BY <1>5 DEF upsert_config, patch_config
  <2>2. conf' \in [Datasets -> Lags \cup {NoConf}] /\ conf'[d] # NoConf
        /\ \A x \in Datasets \ {d} : conf'[x] = conf[x]
    BY <1>b, <2>1
  <2> QED BY <1>a, <1>b, <2>1, <2>2, ValidationBegins
<1>6. ASSUME NEW c \in Clients, NEW d \in Datasets, delete_config(c, d) PROVE ValidationInv'
  <2>1. /\ Begin(c, "retract", d, 0, FALSE) /\ conf' = [conf EXCEPT ![d] = NoConf]
        /\ score' = [score EXCEPT ![d] = [t \in Instants |-> "none"]] /\ UNCHANGED assertion
    BY <1>6 DEF delete_config
  <2>2. conf' \in [Datasets -> Lags \cup {NoConf}] /\ conf'[d] = NoConf
        /\ \A x \in Datasets \ {d} : conf'[x] = conf[x]
    BY <1>b, <2>1
  <2>3. score' \in [Datasets -> [Instants -> {"none", "pass", "fail"}]]
    BY <1>b, <2>1
  <2>4. "retract" \in {"register", "retract", "insert"} /\ UNCHANGED assertion
    BY <2>1
  <2>5. Begin(c, "retract", d, 0, FALSE)
    BY <2>1
  <2> QED BY <1>a, <2>2, <2>3, <2>4, <2>5, ValidationBegins, ZenonT(60)
<1>7. ASSUME NEW c \in Clients, NEW d \in Datasets, NEW at \in Instants, NEW pass \in BOOLEAN,
             record_result(c, d, at, pass)
      PROVE ValidationInv'
  <2>1. Begin(c, "insert", d, at, pass) /\ UNCHANGED <<conf, score, assertion>>
    BY <1>7 DEF record_result
  <2> QED BY <1>a, <1>b, <2>1, ValidationBegins
<1>8. ASSUME NEW c \in Clients, client[c].pc # "idle"
      PROVE  /\ client[c].ds \in Datasets /\ client[c].at \in Instants
             /\ client[c].ds \notin muddled => Follows(c, client[c].ds)
  BY <1>8, <1>a DEF ValidationInv, ValidationType
<1>9. ASSUME NEW c \in Clients, datahub_assertion(c) PROVE ValidationInv'
  <2>1. /\ End(c) /\ UNCHANGED <<conf, score, muddled>> /\ client[c].pc \in {"register", "retract"}
        /\ assertion' = IF client[c].pc = "register" THEN assertion \cup {client[c].ds}
                        ELSE assertion \ {client[c].ds}
    BY <1>9 DEF datahub_assertion
  <2>2. client[c].ds \in Datasets /\ (client[c].ds \notin muddled => Follows(c, client[c].ds))
    BY <1>8, <2>1
  <2>3. client[c].ds \notin muddled => (client[c].ds \in assertion' <=> conf[client[c].ds] # NoConf)
    BY <2>1, <2>2 DEF Follows
  <2>4. /\ assertion' \subseteq Datasets
        /\ \A x \in Datasets \ {client[c].ds} : x \in assertion' <=> x \in assertion
    BY <1>b, <2>1, <2>2
  <2> QED BY <1>b, <2>1, <2>2, <2>3, <2>4, ValidationEnds
<1>10. ASSUME NEW c \in Clients, insert_result(c) PROVE ValidationInv'
  <2>1. /\ End(c) /\ UNCHANGED <<conf, assertion, muddled>> /\ client[c].pc = "insert"
        /\ score' = [score EXCEPT ![client[c].ds][client[c].at] = IF client[c].pass THEN "pass" ELSE "fail"]
    BY <1>10 DEF insert_result
  <2>2. client[c].ds \in Datasets /\ (client[c].ds \notin muddled => Follows(c, client[c].ds))
    BY <1>8, <2>1
  <2>3. client[c].ds \notin muddled => (client[c].ds \in assertion <=> conf[client[c].ds] # NoConf)
    BY <2>1, <2>2 DEF Follows
  <2>4. score' \in [Datasets -> [Instants -> {"none", "pass", "fail"}]]
    BY <1>b, <2>1, ZenonT(60)
  <2> QED BY <1>b, <2>1, <2>2, <2>3, <2>4, ValidationEnds
<1>11. ASSUME NEW c \in Clients, datahub_fails(c) PROVE ValidationInv'
  <2>1. /\ End(c) /\ UNCHANGED <<conf, score, assertion>> /\ client[c].pc \in {"register", "retract"}
        /\ muddled' = muddled \cup {client[c].ds}
    BY <1>11 DEF datahub_fails
  <2>2. client[c].ds \in Datasets
    BY <1>8, <2>1
  <2> QED BY <1>b, <2>1, <2>2, ValidationEnds
<1>12. CASE UNCHANGED vars
  BY <1>0, <1>12 DEF vars
<1> QED BY <1>1, <1>2, <1>3, <1>4, <1>5, <1>6, <1>7, <1>9, <1>10, <1>11, <1>12
        DEF Next, ValidationRequest, ClientStep

----------------------------------------------------------------------------
LEMMA MetricsInvInit == Init => MetricsInv
<1> SUFFICES ASSUME Init PROVE MetricsInv
  OBVIOUS
<1> USE EvidenceAssumption, MetricsAssumption
<1>a. EvidenceInit /\ LockInit
  BY DEF Init
<1>b. PICK start \in Starts : /\ owner = start.owner /\ defn = [m \in Keys |-> start.defn]
                             /\ conf = [d \in Datasets |-> start.conf]
                             /\ assertion = IF start.conf = NoConf THEN {} ELSE Datasets
  BY DEF Init
<1>c. /\ start.owner \in [Datasets -> Regulars \cup {NoSource}] /\ start.defn \in Definition
      /\ start.conf \in Lags \cup {NoConf}
  OBVIOUS
<1>d. 0 \in Instants
  BY DEF Instants
<1>1. EvidenceInv
  BY <1>a, EvidenceInvInit
<1>2. LockInv
  BY <1>a, LockInvInit
<1>3. EstateType
  BY <1>b, <1>c DEF Init, EstateType
<1>4. RunInv
  <2> DEFINE none == [d \in Datasets |-> NoVerdict]
  <2>0. /\ none \in Verdicts /\ \A d \in Datasets : none[d] = NoVerdict
        /\ NoWork.pc = "idle" /\ NoWork.out = none
    BY DEF Verdicts, NoWork
  <2>1. /\ result = [m \in Keys |-> NoResult] /\ stored = [m \in Keys |-> none]
        /\ work = [w \in Workers |-> NoWork] /\ overlap = {}
    BY DEF Init
  <2> HIDE DEF none, NoWork
  <2>2. RunType
    BY <1>b, <1>c, <2>0, <2>1, NoWorkType DEF RunType
  <2>3. \A m \in Keys : Storing(m) = {}
    BY <2>0, <2>1 DEF Storing
  <2>4. StoringAlone
    BY <2>3 DEF StoringAlone
  <2>5. ResultMatchesVerdicts
    BY <2>0, <2>1 DEF ResultMatchesVerdicts, OfOneRun
  <2>6. \A d \in Datasets : EarnedNow(NoVerdict, d)
    BY DEF EarnedNow, Earned
  <2>7. \A m \in Keys, d \in Datasets : EarnedNow(stored[m][d], d)
    BY <2>0, <2>1, <2>6
  <2>8. \A w \in Workers, d \in Datasets : EarnedNow(work[w].out[d], d)
    BY <2>0, <2>1, <2>6
  <2>9. \A w \in Workers : work[w].pc = "idle"
    BY <2>0, <2>1
  <2> QED BY <2>2, <2>4, <2>5, <2>7, <2>8, <2>9 DEF RunInv
<1>5. ValidationInv
  <2>1. ValidationType
    BY <1>b, <1>c, <1>d DEF Init, ValidationType, NoClient
  <2>2. \A c \in Clients : client[c].pc = "idle" /\ client[c].ds = NoDataset
    BY DEF Init, NoClient
  <2>3. AssertionFollowsConf
    BY <1>b DEF AssertionFollowsConf
  <2> QED BY <2>1, <2>2, <2>3 DEF ValidationInv
<1> QED BY <1>1, <1>2, <1>3, <1>4, <1>5 DEF MetricsInv

LEMMA MetricsInvStep == MetricsInv /\ [Next]_vars => MetricsInv'
<1> SUFFICES ASSUME MetricsInv, [Next]_vars PROVE MetricsInv'
  OBVIOUS
<1>1. EvidenceInv'
  BY EvidenceInvStep DEF MetricsInv
<1>2. LockInv'
  BY LockSteps, LockInvStep DEF MetricsInv
<1>3. EstateType'
  BY EstateStep DEF MetricsInv
<1>4. RunInv'
  BY RunInvStep
<1>5. ValidationInv'
  BY ValidationStep DEF MetricsInv, EvidenceInv
<1> QED BY <1>1, <1>2, <1>3, <1>4, <1>5 DEF MetricsInv

LEMMA MetricsInvariant == Spec => []MetricsInv
<1>1. MetricsInv /\ [Next]_vars => MetricsInv'
  BY MetricsInvStep
<1> QED BY <1>1, MetricsInvInit, PTL DEF Spec

\* The tables, the runs and the requests keep their types.
THEOREM MetricsTypeCorrect == Spec => []MetricsTypeOK
<1>1. MetricsInv => MetricsTypeOK
  BY DEF MetricsInv, EvidenceInv, LockInv, EstateType, RunInv, RunType, Work, ValidationInv,
         ValidationType, MetricsTypeOK
<1> QED BY <1>1, MetricsInvariant, PTL

\* _observed_at: whatever is written to DataHub, an event lies at an instant that was
\* reported, in Metrics and in Evidence by itself.
THEOREM EvidenceReported == (Spec => []EvidenceIsReported) /\ (EvidenceSpec => []EvidenceIsReported)
<1>1. EvidenceInv => EvidenceIsReported
  BY DEF EvidenceInv, Sound, Reported, EvidenceIsReported
<1>2. MetricsInv => EvidenceInv
  BY DEF MetricsInv
<1>3. Spec => []EvidenceIsReported
  BY <1>1, <1>2, MetricsInvariant, PTL
<1>4. EvidenceSpec => []EvidenceIsReported
  BY <1>1, EvidenceInvInit, EvidenceKeeps, PTL DEF EvidenceSpec
<1> QED BY <1>3, <1>4

\* _existing_observation_keys, _mirror_execution_requests: for any number of sweeps, a row
\* is booked a second time only where two of them observed its source and signal at once.
THEOREM BookedTwiceOnlyCrossed == (Spec => []BookedOnceApart) /\ (EvidenceSpec => []BookedOnceApart)
<1>1. EvidenceInv => BookedOnceApart
  BY DEF EvidenceInv
<1>2. MetricsInv => EvidenceInv
  BY DEF MetricsInv
<1>3. Spec => []BookedOnceApart
  BY <1>1, <1>2, MetricsInvariant, PTL
<1>4. EvidenceSpec => []BookedOnceApart
  BY <1>1, EvidenceInvInit, EvidenceKeeps, PTL DEF EvidenceSpec
<1> QED BY <1>3, <1>4

\* ingestion_freshness.measure: a stored `met` has an ingestion behind it, from
\* whatever evidence, definition and owner the run found.
THEOREM FreshnessIsEarned == Spec => []EarnedFreshness
<1>1. MetricsInv => EarnedFreshness
  BY DEF MetricsInv, RunInv, EarnedNow, Earned, EarnedFreshness
<1> QED BY <1>1, MetricsInvariant, PTL

\* _run_inner: the newest result and the stored verdicts are of one run, unless a run
\* that outlived its lock stored at the same time as another.
THEOREM ResultsAreOfOneRun == Spec => []ResultMatchesVerdicts
<1>1. MetricsInv => ResultMatchesVerdicts
  BY DEF MetricsInv, RunInv
<1> QED BY <1>1, MetricsInvariant, PTL

\* upsert_config, patch_config, delete_config: DataHub's assertions follow the confs.
THEOREM AssertionsFollowConfs == Spec => []AssertionFollowsConf
<1>1. MetricsInv => AssertionFollowsConf
  BY DEF MetricsInv, ValidationInv
<1> QED BY <1>1, MetricsInvariant, PTL

\* run: of two runs of one metric, one has outlived its ttl.
THEOREM MetricRunsExclusive == Spec => []Exclusive
<1>1. MetricsInv => Exclusive
  BY LockInvExclusive DEF MetricsInv
<1> QED BY <1>1, MetricsInvariant, PTL

\* Metric runs, requested, scheduled and dry ones, implement the run lock with a key per metric.
THEOREM MetricsImplementLock == Spec => LockSpec
<1>1. Init => LockInit
  BY DEF Init
<1>2. MetricsInv /\ [Next]_vars => [LockNext]_lockVars
  BY LockSteps DEF MetricsInv
<1> QED BY <1>1, <1>2, MetricsInvariant, PTL DEF Spec, LockSpec

=============================================================================

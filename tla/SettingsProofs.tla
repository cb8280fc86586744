--------------------------- MODULE SettingsProofs ---------------------------
(* What administrators set.  The event consumer and the connection settings,  *)
(* for any number of requests, events and failures: what is committed was     *)
(* handled, and health turns to "ok" on evidence only.  The dataset filter,   *)
(* for texts of any length: the parser accepts what the grammar derives, the  *)
(* formatter's text is parsed to the same filter, and the SQL selects what    *)
(* the filter says.                                                           *)
EXTENDS Peripherals, FilterParser, WellFoundedInduction, TLAPS

Offsets == Nat \cup {NoOffset}
Client == [pc : {"idle", "configured", "polling", "handling", "handled"},
           conn : [brokers : Texts, mech : Mechanisms, version : Nat \cup {-1}],
           pw : Texts, error : BOOLEAN, connected : BOOLEAN, pos : Offsets]

\* Types of the settings, of the requests and of the client.
PeripheralsType ==
  /\ row \in Settings /\ password \in Texts
  /\ req \in [Requests -> [pc : {"idle", "checked", "written", "seen", "done"}, body : Body,
                           mech : Mechanisms \cup {"none"}, seen : Settings]]
  /\ client \in Client
  /\ produced \in Nat /\ committed \in Offsets /\ first \in Offsets

\* Behind the client's position, from where the group started, everything was handled,
\* and so it was behind the committed offset; a message being committed was dispatched.
Handled(e) == e \in dispatched \cup skipped
HandledInv ==
  /\ client.pc \in {"handling", "handled"} => client.pos # NoOffset
  /\ client.pc = "handled" => client.pos + 1 \in dispatched
  /\ client.pos # NoOffset => first # NoOffset /\ \A e \in first + 1 .. client.pos : Handled(e)
  /\ committed # NoOffset => first # NoOffset
  /\ CommittedWasDispatched

\* A client that counts as connected and latches no fault has been seen working, and one
\* that is still to be built counts as nothing.
EvidenceInv ==
  /\ client.connected /\ ~client.error => proof
  /\ client.pc = "configured" => ~client.connected

ConsumerInv == PeripheralsType /\ HandledInv /\ EvidenceInv

------------------------------------------------------------------------------
\* Requests: they touch no more than the configuration.

\* A body is read by field: _merge yields settings again, with the counter moved or not.
LEMMA MergeType ==
  ASSUME NEW base \in Settings, NEW b \in Body, NEW bump \in BOOLEAN
  PROVE  _merge(base, b, bump) \in Settings
<1>1. _merge(base, b, bump).version \in Nat \cup {-1}
  <2>1. CASE base = NoRow
    BY <2>1 DEF _merge
  <2>2. CASE base # NoRow
    BY <2>2 DEF _merge, Settings
  <2> QED BY <2>1, <2>2
<1> QED BY <1>1 DEF _merge, _effective_kafka_field, Settings, Body, Mechanisms

\* A request leaves the client and the events alone.
LEMMA RequestStep ==
  ASSUME ConsumerInv, NEW r \in Requests, patch_begins(r) \/ PatchStep(r)
  PROVE  ConsumerInv' /\ UNCHANGED <<client, health, proof, events>>
<1> USE DEF ConsumerInv
<1>1. UNCHANGED <<client, health, proof, events>>
  BY DEF patch_begins, PatchStep, set_datahub_kafka_sasl_password, secret_unavailable, bump_version,
         bump_fails, read_unlocked, write_unlocked
<1>2. HandledInv' /\ EvidenceInv'
  BY <1>1 DEF HandledInv, EvidenceInv, Handled, CommittedWasDispatched, events
<1>3. PeripheralsType'
  <2> USE <1>1 DEF PeripheralsType, events
  <2>1. CASE patch_begins(r)
    <3>1. PICK b \in Bodies :
            req' = [req EXCEPT ![r] =
                 [pc |-> IF check_kafka_security(_merge(row, b, FALSE), b.pw) THEN "checked" ELSE "done",
                  body |-> b, mech |-> _effective_kafka_field(b.mech, row.mech), seen |-> NoRow]]
      BY <2>1 DEF patch_begins
    <3>2. b \in Body /\ _effective_kafka_field(b.mech, row.mech) \in Mechanisms \cup {"none"}
      BY PeripheralsAssumption DEF Body, Settings, _effective_kafka_field
    <3>3. NoRow \in Settings
      BY DEF NoRow, Settings, Mechanisms, Texts
    <3> QED BY <2>1, <3>1, <3>2, <3>3 DEF patch_begins
  <2>2. CASE set_datahub_kafka_sasl_password(r)
    <3>1. PasswordToWrite(r) \in Texts
      BY <2>2 DEF PasswordToWrite, Body, Texts
    <3> QED BY <2>2, <3>1 DEF set_datahub_kafka_sasl_password, Goto
  <2>3. CASE secret_unavailable(r)
    BY <2>3 DEF secret_unavailable, Goto
  <2>4. CASE bump_version(r)
    <3>1. row' \in Settings
      BY <2>4, MergeType DEF bump_version
    <3> QED BY <2>4, <3>1, ZenonT(60) DEF bump_version, Goto
  <2>5. CASE bump_fails(r)
    BY <2>5 DEF bump_fails, Goto
  <2>6. CASE read_unlocked(r)
    <3>1. [req[r] EXCEPT !.pc = "seen", !.seen = row]
            \in [pc : {"idle", "checked", "written", "seen", "done"}, body : Body,
                 mech : Mechanisms \cup {"none"}, seen : Settings]
      OBVIOUS
    <3>2. req' = [req EXCEPT ![r] = [req[r] EXCEPT !.pc = "seen", !.seen = row]]
      BY <2>6 DEF read_unlocked
    <3> QED BY <2>6, <3>1, <3>2 DEF read_unlocked
  <2>7. CASE write_unlocked(r)
    <3>1. row' \in Settings
      <4> DEFINE base == IF req[r].seen = NoRow THEN row ELSE req[r].seen
      <4>1. base \in Settings
        OBVIOUS
      <4> HIDE DEF base
      <4>2. _merge(base, req[r].body, FALSE) \in Settings
        BY <4>1, MergeType
      <4>3. row' = IF _merge(base, req[r].body, FALSE) = base THEN row ELSE _merge(base, req[r].body, FALSE)
        BY <2>7 DEF write_unlocked, base
      <4> QED BY <4>2, <4>3
    <3> QED BY <2>7, <3>1 DEF write_unlocked, Goto
  <2> QED BY <2>1, <2>2, <2>3, <2>4, <2>5, <2>6, <2>7 DEF PatchStep
<1> QED BY <1>1, <1>2, <1>3

------------------------------------------------------------------------------
\* The consumer and the broker.

\* The client behind a message, its offset committed or not.
LEMMA AdvancedClient ==
  ASSUME NEW c \in Client, NEW p \in Nat
  PROVE  /\ [c EXCEPT !.pc = "polling", !.pos = p] \in Client
         /\ [c EXCEPT !.pc = "polling", !.pos = p, !.error = FALSE, !.connected = TRUE] \in Client
  BY DEF Client, Offsets

\* A commit, or one that fails, leaves a client.
LEMMA CommittingClient ==
  ASSUME ConsumerInv, commit_event \/ commit_fails
  PROVE  client' \in Client
<1>1. client \in Client /\ client.pos \in Nat
  BY DEF ConsumerInv, PeripheralsType, HandledInv, Client, Offsets, commit_event, commit_fails
<1>2. client.pos + 1 \in Nat
  BY <1>1
<1>3. CASE commit_event
  BY <1>1, <1>2, <1>3, AdvancedClient, ZenonT(60) DEF commit_event
<1>4. CASE commit_fails
  BY <1>1, <1>2, <1>4, AdvancedClient DEF commit_fails
<1> QED BY <1>3, <1>4

\* A rebuilt client has no position and is not connected.
LEMMA FreshClient ==
  ASSUME ConsumerInv, client' = NoClient, UNCHANGED <<config, events>>
  PROVE  ConsumerInv'
<1> USE DEF ConsumerInv
<1>1. PeripheralsType'
  BY DEF PeripheralsType, Client, config, events, NoClient, NoConnection, Offsets, Mechanisms, Texts
<1>2. HandledInv'
  BY DEF HandledInv, Handled, CommittedWasDispatched, events, NoClient
<1>3. EvidenceInv'
  BY DEF EvidenceInv, NoClient
<1> QED BY <1>1, <1>2, <1>3

\* Steps that only build or drop the client.
LEMMA ConnectionStep ==
  ASSUME ConsumerInv,
         \/ read_kafka_connection \/ build_consumer_config \/ config_invalid
         \/ reconfig_check \/ report_lost \/ loop_fails \/ consumer_dies
  PROVE  ConsumerInv'
<1>1. CASE read_kafka_connection
  <2>1. PeripheralsType'
    BY <1>1 DEF ConsumerInv, PeripheralsType, Client, read_kafka_connection, config, events, NoClient, NoConnection,
                KafkaConnection, Settings, Offsets, Texts
  <2>2. HandledInv' /\ EvidenceInv'
    BY <1>1 DEF ConsumerInv, HandledInv, EvidenceInv, Handled, CommittedWasDispatched, read_kafka_connection,
                events, NoClient
  <2> QED BY <2>1, <2>2 DEF ConsumerInv
<1>2. CASE build_consumer_config
  <2>1. PeripheralsType'
    BY <1>2 DEF ConsumerInv, PeripheralsType, Client, build_consumer_config, config, events, Texts
  <2>2. HandledInv'
    BY <1>2 DEF ConsumerInv, PeripheralsType, Client, HandledInv, Handled, CommittedWasDispatched,
                build_consumer_config, events
  <2>3. EvidenceInv'
    BY <1>2 DEF ConsumerInv, PeripheralsType, Client, EvidenceInv, build_consumer_config
  <2> QED BY <2>1, <2>2, <2>3 DEF ConsumerInv
<1>3. CASE config_invalid \/ loop_fails \/ consumer_dies
  BY <1>3, FreshClient DEF config_invalid, loop_fails, consumer_dies
<1>4. CASE reconfig_check \/ report_lost
  <2>1. CASE client' = NoClient
    BY <1>4, <2>1, FreshClient DEF reconfig_check, report_lost
  <2>2. CASE client' = client
    BY <1>4, <2>2 DEF reconfig_check, report_lost, ConsumerInv, PeripheralsType, HandledInv, EvidenceInv,
                      Handled, CommittedWasDispatched, config, events
  <2> QED BY <1>4, <2>1, <2>2 DEF reconfig_check, report_lost, AfterReport
<1> QED BY <1>1, <1>2, <1>3, <1>4

\* Steps of the loop over the messages.
LEMMA MessageStep ==
  ASSUME ConsumerInv,
         \/ on_assign \/ error_cb \/ event_arrives \/ poll_event \/ skip_event
         \/ dispatch \/ commit_event \/ commit_fails
  PROVE  ConsumerInv'
<1> USE DEF ConsumerInv, PeripheralsType, Client, Offsets, NoOffset, Polled
<1>1. CASE on_assign
  <2> DEFINE start == IF committed = NoOffset THEN produced ELSE committed
  <2>1. /\ client.pc = "polling" /\ client.pos = NoOffset /\ start \in Nat
        /\ client' = [client EXCEPT !.pos = start, !.error = FALSE, !.connected = TRUE]
        /\ first' = IF committed = NoOffset THEN start ELSE first
        /\ proof' = TRUE
        /\ UNCHANGED <<config, produced, committed, dispatched, skipped>>
    BY <1>1 DEF on_assign
  <2>2. client'.pos = start /\ client'.pc = client.pc
    BY <2>1
  <2>3. PeripheralsType'
    BY <2>1 DEF config
  <2>4. HandledInv'
    <3>1. CASE committed = NoOffset
      BY <2>1, <2>2, <3>1 DEF HandledInv, Handled, CommittedWasDispatched
    <3>2. CASE committed # NoOffset
      BY <2>1, <2>2, <3>2 DEF HandledInv, Handled, CommittedWasDispatched
    <3> QED BY <3>1, <3>2
  <2>5. EvidenceInv'
    BY <2>1 DEF EvidenceInv
  <2> QED BY <2>3, <2>4, <2>5
<1>2. CASE error_cb
  <2>1. PeripheralsType'
    BY <1>2 DEF error_cb, config, events
  <2>2. HandledInv'
    BY <1>2 DEF error_cb, HandledInv, Handled, CommittedWasDispatched, events
  <2>3. EvidenceInv'
    BY <1>2 DEF error_cb, EvidenceInv
  <2> QED BY <2>1, <2>2, <2>3
<1>3. CASE event_arrives
  <2>1. PeripheralsType'
    BY <1>3 DEF event_arrives, config
  <2>2. HandledInv' /\ EvidenceInv'
    BY <1>3 DEF event_arrives, HandledInv, EvidenceInv, Handled, CommittedWasDispatched
  <2> QED BY <2>1, <2>2
<1>4. CASE poll_event
  <2>1. PeripheralsType'
    BY <1>4 DEF poll_event, config, events
  <2>2. HandledInv'
    BY <1>4 DEF poll_event, HandledInv, Handled, CommittedWasDispatched, events
  <2>3. EvidenceInv'
    BY <1>4 DEF poll_event, EvidenceInv
  <2> QED BY <2>1, <2>2, <2>3
<1>5. CASE skip_event
  <2>1. PeripheralsType'
    BY <1>5 DEF skip_event, config
  <2>2. HandledInv'
    BY <1>5 DEF skip_event, HandledInv, Handled, CommittedWasDispatched
  <2>3. EvidenceInv'
    BY <1>5 DEF skip_event, EvidenceInv
  <2> QED BY <2>1, <2>2, <2>3
<1>6. CASE dispatch
  <2>1. PeripheralsType'
    BY <1>6 DEF dispatch, config
  <2>2. HandledInv'
    BY <1>6 DEF dispatch, HandledInv, Handled, CommittedWasDispatched
  <2>3. EvidenceInv'
    BY <1>6 DEF dispatch, EvidenceInv
  <2> QED BY <2>1, <2>2, <2>3
<1>7. CASE commit_event
  <2>1. PeripheralsType'
    <3>1. client.pos \in Nat
      BY <1>7 DEF commit_event, HandledInv
    <3>2. client' \in Client
      BY <1>7, CommittingClient
    <3> QED BY <1>7, <3>1, <3>2 DEF commit_event, config
  <2>2. HandledInv'
    <3>1. /\ client'.pos = client.pos + 1 /\ client'.pc = "polling"
          /\ committed' = client.pos + 1 /\ client.pos \in Nat /\ client.pos + 1 \in dispatched
          /\ UNCHANGED <<first, dispatched, skipped>>
      BY <1>7 DEF commit_event, HandledInv
    <3>2. first \in Nat /\ \A e \in first + 1 .. client.pos : Handled(e)
      BY <3>1 DEF HandledInv
    <3>3. \A e \in first + 1 .. client.pos + 1 : Handled(e)
      BY <3>1, <3>2 DEF Handled
    <3> QED BY <3>1, <3>2, <3>3 DEF HandledInv, Handled, CommittedWasDispatched
  <2>3. EvidenceInv'
    BY <1>7 DEF commit_event, EvidenceInv
  <2> QED BY <2>1, <2>2, <2>3
<1>8. CASE commit_fails
  <2>1. PeripheralsType'
    <3>1. client.pos \in Nat
      BY <1>8 DEF commit_fails, HandledInv
    <3>2. client' \in Client
      BY <1>8, CommittingClient
    <3> QED BY <1>8, <3>2 DEF commit_fails, config, events
  <2>2. HandledInv'
    <3>1. /\ client'.pos = client.pos + 1 /\ client'.pc = "polling"
          /\ client.pos \in Nat /\ client.pos + 1 \in dispatched
          /\ UNCHANGED <<first, committed, dispatched, skipped>>
      BY <1>8 DEF commit_fails, HandledInv, events
    <3>2. first \in Nat /\ \A e \in first + 1 .. client.pos : Handled(e)
      BY <3>1 DEF HandledInv
    <3>3. \A e \in first + 1 .. client.pos + 1 : Handled(e)
      BY <3>1, <3>2 DEF Handled
    <3> QED BY <3>1, <3>2, <3>3 DEF HandledInv, Handled, CommittedWasDispatched
  <2>3. EvidenceInv'
    BY <1>8 DEF commit_fails, EvidenceInv
  <2> QED BY <2>1, <2>2, <2>3
<1> QED BY <1>1, <1>2, <1>3, <1>4, <1>5, <1>6, <1>7, <1>8

------------------------------------------------------------------------------
\* A fresh install, or settings and a password stored before: no request, no client.
LEMMA ConsumerInit == Init => ConsumerInv
<1> SUFFICES ASSUME Init PROVE ConsumerInv
  OBVIOUS
<1>1. PeripheralsType
  <2>1. PICK s \in Starts : row = s[1] /\ password = s[2]
    BY DEF Init
  <2>2. row \in Settings /\ password \in Texts
    BY <2>1, PeripheralsAssumption
  <2>3. NoRow \in Settings /\ NoBody \in Body
    BY DEF NoRow, NoBody, Settings, Body, Mechanisms, Texts
  <2>4. client \in Client
    BY DEF Init, Client, NoClient, NoConnection, Mechanisms, Offsets, Texts
  <2> QED BY <2>2, <2>3, <2>4 DEF Init, PeripheralsType, Offsets
<1>2. HandledInv
  <2>1. client.pc = "idle" /\ client.pos = NoOffset /\ committed = NoOffset /\ first = NoOffset
    BY DEF Init, NoClient
  <2>2. first + 1 .. committed = {}
    BY <2>1 DEF NoOffset
  <2> QED BY <2>1, <2>2 DEF HandledInv, CommittedWasDispatched
<1>3. EvidenceInv
  <2>1. client.connected = FALSE
    BY DEF Init, NoClient
  <2> QED BY <2>1 DEF EvidenceInv
<1> QED BY <1>1, <1>2, <1>3 DEF ConsumerInv

\* Every step of requests, consumer and broker keeps the invariant.
LEMMA ConsumerNext == ConsumerInv /\ [Next]_vars => ConsumerInv'
<1> SUFFICES ASSUME ConsumerInv, [Next]_vars PROVE ConsumerInv'
  OBVIOUS
<1>1. ASSUME NEW r \in Requests, patch_begins(r) \/ PatchStep(r) PROVE ConsumerInv'
  BY <1>1, RequestStep
<1>2. CASE ConsumerStep
  BY <1>2, ConnectionStep, MessageStep DEF ConsumerStep
<1>3. CASE BrokerStep
  BY <1>3, MessageStep DEF BrokerStep
<1>4. CASE reconfig_check \/ report_lost \/ loop_fails \/ consumer_dies
  BY <1>4, ConnectionStep
<1>5. CASE UNCHANGED vars
  BY <1>5 DEF vars, config, events, ConsumerInv, PeripheralsType, HandledInv, EvidenceInv, Handled,
              CommittedWasDispatched
<1> QED BY <1>1, <1>2, <1>3, <1>4, <1>5 DEF Next

\* Manual commits (_run_inner_loop): the consumer may die, be rebuilt, fail to commit or
\* start over at any point, and still whatever precedes the committed offset, from where
\* the group started to read, was handed to the handlers or could not be deserialized.
THEOREM CommitsFollowHandling == Spec => []CommittedWasDispatched
<1>1. ConsumerInv => CommittedWasDispatched
  BY DEF ConsumerInv, HandledInv
<1> QED BY <1>1, ConsumerInit, ConsumerNext, PTL DEF Spec

\* A step that turns the health row to "ok" is the report of a client seen to work.
LEMMA OkStep == ConsumerInv /\ [Next]_vars => [health # "ok" /\ health' = "ok" => proof]_vars
<1> SUFFICES ASSUME ConsumerInv, Next, health # "ok", health' = "ok" PROVE proof
  BY DEF vars
<1>1. CASE reconfig_check
  BY <1>1 DEF reconfig_check, Reported, ConsumerInv, PeripheralsType, Client, EvidenceInv
<1>2. CASE ~reconfig_check
  <2>1. ASSUME NEW r \in Requests, patch_begins(r) \/ PatchStep(r) PROVE health' = health
    BY <2>1, RequestStep
  <2>2. CASE ConsumerStep \/ BrokerStep \/ report_lost \/ loop_fails \/ consumer_dies
    BY <2>2 DEF ConsumerStep, BrokerStep, read_kafka_connection, build_consumer_config, config_invalid,
                dispatch, commit_event, commit_fails, on_assign, error_cb, event_arrives, poll_event,
                skip_event, report_lost, loop_fails, consumer_dies
  <2> QED BY <1>2, <2>1, <2>2 DEF Next
<1> QED BY <1>1, <1>2

\* KafkaFaultState, the sticky latch: across rebuilds, restarts and lost reports, health
\* turns to "ok" only after the present client was seen to work since its last fault.
THEOREM OkIsEarned == Spec => OkNeedsEvidence
<1> QED BY ConsumerInit, ConsumerNext, OkStep, PTL DEF Spec, OkNeedsEvidence

------------------------------------------------------------------------------
\* The SQL of a filter.

Truth == {"true", "false", "unknown"}

\* A predicate is no inner node, and its clause is true where it holds.
LEMMA PredicateHolds ==
  ASSUME NEW n \in Predicates, NEW a \in RegistryRow
  PROVE  /\ n.node # "BoolNode"
         /\ CompiledPredicate(n, a) \in Truth
         /\ CompiledPredicate(n, a) = "true" <=> Holds(n, a)
<1> USE FilterAssumption DEF Truth, CompiledPredicate, Holds, Compared, Not, RegistryRow
<1>1. CASE n \in [node : {"Equals", "NotEquals"}, column : ScalarColumns, value : Literals]
  <2>1. a[n.column] \in Literals \cup {Null} /\ n.value \in Literals
    BY <1>1 DEF ScalarColumns
  <2>2. n.node = "Equals" \/ n.node = "NotEquals"
    BY <1>1
  <2> QED BY <2>1, <2>2
<1>2. CASE n \in [node : {"InList", "NotInList"}, column : ScalarColumns, values : Seq(Literals) \ {<<>>}]
  <2>1. a[n.column] \in Literals \cup {Null} /\ Values(n) \subseteq Literals
    BY <1>2 DEF ScalarColumns, Values
  <2>2. n.node = "InList" \/ n.node = "NotInList"
    BY <1>2
  <2> QED BY <2>1, <2>2
<1>3. CASE n \in [node : {"ArrayContains", "ArrayNotContains"}, column : ArrayColumns, value : Literals]
  <2>1. a[n.column] \in SUBSET Literals
    BY <1>3 DEF ArrayColumns
  <2>2. n.node = "ArrayContains" \/ n.node = "ArrayNotContains"
    BY <1>3
  <2>3. a[n.column] # Null
    BY <2>1
  <2> QED BY <2>2, <2>3
<1>4. CASE n \in [node : {"BoolEquals"}, column : BoolColumns, truth : BOOLEAN]
  <2>1. a[n.column] \in BOOLEAN /\ n.truth \in BOOLEAN
    BY <1>4 DEF BoolColumns
  <2>2. n.node = "BoolEquals"
    BY <1>4
  <2>3. a[n.column] # Null
    BY <2>1
  <2> QED BY <2>2, <2>3
<1> QED BY <1>1, <1>2, <1>3, <1>4 DEF Predicates

\* AND is true of truths only, OR of one at least.
LEMMA JoinedTruth ==
  ASSUME NEW vs, vs \subseteq Truth, NEW op \in {"AND", "OR"}
  PROVE  /\ Joined(op, vs) \in Truth
         /\ Joined("AND", vs) = "true" <=> \A v \in vs : v = "true"
         /\ Joined("OR", vs) = "true" <=> \E v \in vs : v = "true"
  BY DEF Joined, And, Or, Truth

\* The operands of an inner node are what it was built from.
LEMMA OperandsOf ==
  ASSUME NEW N, NEW n \in BoolNode(N)
  PROVE  n.node = "BoolNode" /\ n.op \in {"AND", "OR"} /\ Operands(n) \subseteq N
  BY DEF BoolNode, Operands

\* A filter without parentheses.
LEMMA Level1Holds ==
  ASSUME NEW n \in Level1, NEW a \in RegistryRow
  PROVE  Compiled1(n, a) \in Truth /\ (Compiled1(n, a) = "true" <=> Selects1(n, a))
<1>1. CASE n \in Predicates
  BY <1>1, PredicateHolds DEF Compiled1, Selects1
<1>2. CASE n \in BoolNode(Predicates)
  <2> DEFINE vs == {CompiledPredicate(c, a) : c \in Operands(n)}
  <2>1. vs \subseteq Truth /\ \A c \in Operands(n) : CompiledPredicate(c, a) = "true" <=> Holds(c, a)
    BY <1>2, OperandsOf, PredicateHolds
  <2>2. Compiled1(n, a) = Joined(n.op, vs) /\ n.op \in {"AND", "OR"} /\ n.node = "BoolNode"
    BY <1>2, OperandsOf DEF Compiled1
  <2>3. (\A v \in vs : v = "true") <=> \A c \in Operands(n) : Holds(c, a)
    BY <2>1
  <2>4. (\E v \in vs : v = "true") <=> \E c \in Operands(n) : Holds(c, a)
    BY <2>1
  <2> HIDE DEF vs
  <2> QED BY <2>1, <2>2, <2>3, <2>4, JoinedTruth DEF Selects1
<1> QED BY <1>1, <1>2 DEF Level1

\* One level of parentheses.
LEMMA Level2Holds ==
  ASSUME NEW n \in Level2, NEW a \in RegistryRow
  PROVE  Compiled2(n, a) \in Truth /\ (Compiled2(n, a) = "true" <=> Selects2(n, a))
<1>1. CASE n \in Predicates
  BY <1>1, PredicateHolds DEF Compiled2, Selects2
<1>2. CASE n \in BoolNode(Level1)
  <2> DEFINE vs == {Compiled1(c, a) : c \in Operands(n)}
  <2>1. vs \subseteq Truth /\ \A c \in Operands(n) : Compiled1(c, a) = "true" <=> Selects1(c, a)
    BY <1>2, OperandsOf, Level1Holds
  <2>2. Compiled2(n, a) = Joined(n.op, vs) /\ n.op \in {"AND", "OR"} /\ n.node = "BoolNode"
    BY <1>2, OperandsOf DEF Compiled2
  <2>3. (\A v \in vs : v = "true") <=> \A c \in Operands(n) : Selects1(c, a)
    BY <2>1
  <2>4. (\E v \in vs : v = "true") <=> \E c \in Operands(n) : Selects1(c, a)
    BY <2>1
  <2> HIDE DEF vs
  <2> QED BY <2>1, <2>2, <2>3, <2>4, JoinedTruth DEF Selects2
<1>3. BoolNode(Predicates) \subseteq BoolNode(Level1)
  BY DEF BoolNode, Level1
<1> QED BY <1>1, <1>2, <1>3 DEF Level2, Level1

\* Two levels, which is all there are (MAX_PAREN_DEPTH).
LEMMA Level3Holds ==
  ASSUME NEW n \in Level3, NEW a \in RegistryRow
  PROVE  n # Empty /\ (_compile(n, a) = "true" <=> Selects(n, a))
<1>1. CASE n \in Predicates
  <2>1. n # Empty
    BY <1>1 DEF Predicates, Empty
  <2> QED BY <1>1, <2>1, PredicateHolds DEF _compile, Selects
<1>2. CASE n \in BoolNode(Level2)
  <2> DEFINE vs == {Compiled2(c, a) : c \in Operands(n)}
  <2>0. n # Empty
    BY <1>2 DEF BoolNode, Empty
  <2>1. vs \subseteq Truth /\ \A c \in Operands(n) : Compiled2(c, a) = "true" <=> Selects2(c, a)
    BY <1>2, OperandsOf, Level2Holds
  <2>2. _compile(n, a) = Joined(n.op, vs) /\ n.op \in {"AND", "OR"} /\ n.node = "BoolNode"
    BY <1>2, OperandsOf DEF _compile
  <2>3. (\A v \in vs : v = "true") <=> \A c \in Operands(n) : Selects2(c, a)
    BY <2>1
  <2>4. (\E v \in vs : v = "true") <=> \E c \in Operands(n) : Selects2(c, a)
    BY <2>1
  <2> HIDE DEF vs
  <2> QED BY <2>0, <2>1, <2>2, <2>3, <2>4, JoinedTruth DEF Selects
<1>3. BoolNode(Predicates) \subseteq BoolNode(Level2) /\ BoolNode(Level1) \subseteq BoolNode(Level2)
  BY DEF BoolNode, Level1, Level2
<1> QED BY <1>1, <1>2, <1>3 DEF Level3, Level2, Level1

\* _compile: whatever the filter and however NULL columns meet its negations, the SQL
\* selects the rows that the description of the grammar selects.
THEOREM EveryFilterIsDefinite == \A f \in FilterAst : Definite(f)
<1> SUFFICES ASSUME NEW f \in FilterAst, NEW a \in RegistryRow
             PROVE  filter_clause(f, a) = "true" <=> Selects(f, a)
  BY DEF Definite
<1>1. CASE f = Empty
  BY <1>1 DEF filter_clause, Selects
<1>2. CASE f \in Level3
  BY <1>2, Level3Holds DEF filter_clause
<1> QED BY <1>1, <1>2 DEF FilterAst

------------------------------------------------------------------------------
\* Induction and recursion, for sets and functions.

\* A set of numbers has a least member.
LEMMA Least ==
  ASSUME NEW S, S \subseteq Nat, S # {}
  PROVE  \E x \in S : \A y \in S : x <= y
<1> DEFINE R == OpToRel(<, Nat)
<1>1. IsWellFoundedOn(R, Nat)
  BY NatLessThanWellFounded
<1>2. \A a, b \in Nat : a < b => <<a, b>> \in R
  BY DEF OpToRel
<1> HIDE DEF R
<1>3. PICK x \in S : \A y \in S : <<y, x>> \notin R
  BY <1>1, WFMin
<1>4. ASSUME NEW y \in S PROVE x <= y
  <2>1. x \in Nat /\ y \in Nat
    OBVIOUS
  <2>2. ~(y < x)
    BY <1>2, <1>3, <2>1
  <2> QED BY <2>1, <2>2
<1> QED BY <1>4

\* Induction: what holds of 0 and passes on to the next number holds of all.
LEMMA Induction ==
  ASSUME NEW S, 0 \in S, \A n \in Nat : n \in S => n + 1 \in S
  PROVE  \A n \in Nat : n \in S
<1> SUFFICES ASSUME NEW m \in Nat, m \notin S PROVE FALSE
  OBVIOUS
<1> DEFINE T == {n \in Nat : n \notin S}
<1>1. T \subseteq Nat /\ T # {}
  OBVIOUS
<1>2. PICK x \in T : \A y \in T : x <= y
  BY <1>1, Least
<1>3. x \in Nat /\ x \notin S
  OBVIOUS
<1>4. x # 0 /\ x - 1 \in Nat
  BY <1>3
<1>5. x - 1 \notin T
  BY <1>2, <1>4
<1>6. x - 1 \in S
  BY <1>4, <1>5
<1> QED BY <1>3, <1>4, <1>6

\* A step repeated from a start value on is what some function does.
Iterates(f, V, start, step) ==
  f \in [Nat -> V] /\ f[0] = start /\ \A n \in Nat : f[n + 1] = step[f[n]]

\* There is such a function: prefixes of every length exist, and agree.
LEMMA Recursion ==
  ASSUME NEW V, NEW start \in V, NEW step \in [V -> V]
  PROVE  \E f : Iterates(f, V, start, step)
<1> DEFINE Upto(n) == {g \in [0 .. n -> V] : g[0] = start /\ \A k \in 0 .. n - 1 : g[k + 1] = step[g[k]]}
           S == {n \in Nat : Upto(n) # {}}
<1>1. 0 \in S
  <2>1. [k \in 0 .. 0 |-> start] \in Upto(0)
    OBVIOUS
  <2> QED BY <2>1
<1>2. ASSUME NEW n \in Nat, n \in S PROVE n + 1 \in S
  <2>1. PICK g : g \in Upto(n)
    BY <1>2
  <2> DEFINE h == [k \in 0 .. n + 1 |-> IF k = n + 1 THEN step[g[n]] ELSE g[k]]
  <2>2. \A k \in 0 .. n : g[k] \in V
    BY <2>1
  <2>3. h \in [0 .. n + 1 -> V] /\ h[0] = start
    BY <2>1, <2>2
  <2>4. \A k \in 0 .. n : h[k + 1] = step[h[k]]
    BY <2>1
  <2>5. h \in Upto(n + 1)
    BY <2>3, <2>4
  <2> HIDE DEF h, Upto
  <2>6. n + 1 \in Nat /\ Upto(n + 1) # {}
    BY <2>5
  <2> QED BY <2>6
<1>3. \A n \in Nat : Upto(n) # {}
  <2> HIDE DEF Upto
  <2>1. \A n \in Nat : n \in S
    <3> HIDE DEF S
    <3> QED BY <1>1, <1>2, Induction
  <2> QED BY <2>1
<1>4. ASSUME NEW m \in Nat, NEW n \in Nat, m <= n, NEW g \in Upto(m), NEW h \in Upto(n)
      PROVE  g[m] = h[m]
  <2> DEFINE E == {k \in Nat : k <= m => g[k] = h[k]}
  <2>1. 0 \in E
    OBVIOUS
  <2>2. ASSUME NEW k \in Nat, k \in E PROVE k + 1 \in E
    BY <1>4, <2>2
  <2>3. \A k \in Nat : k \in E
    <3> HIDE DEF E, Upto
    <3> QED BY <2>1, <2>2, Induction
  <2> QED BY <2>3
<1> DEFINE best(n) == CHOOSE g : g \in Upto(n)
           f == [n \in Nat |-> best(n)[n]]
<1>5. \A n \in Nat : best(n) \in Upto(n)
  <2> HIDE DEF Upto
  <2> QED BY <1>3
<1>6. \A n \in Nat : f[n] \in V
  <2> TAKE n \in Nat
  <2>1. best(n) \in Upto(n)
    BY <1>5
  <2> HIDE DEF best
  <2>2. best(n)[n] \in V
    BY <2>1
  <2> QED BY <2>2
<1>7. f[0] = start
  <2> HIDE DEF best
  <2>1. best(0) \in Upto(0)
    <3> HIDE DEF Upto
    <3> QED BY <1>5
  <2> QED BY <2>1
<1>8. ASSUME NEW n \in Nat PROVE f[n + 1] = step[f[n]]
  <2> HIDE DEF best
  <2>1. best(n) \in Upto(n) /\ best(n + 1) \in Upto(n + 1)
    <3> HIDE DEF Upto
    <3> QED BY <1>5
  <2>2. best(n + 1)[n + 1] = step[best(n + 1)[n]]
    BY <2>1
  <2>3. best(n)[n] = best(n + 1)[n]
    <3> HIDE DEF Upto
    <3> QED BY <1>4, <2>1
  <2> QED BY <2>2, <2>3
<1>9. f \in [Nat -> V]
  BY <1>6
<1> HIDE DEF f
<1> QED BY <1>7, <1>8, <1>9 DEF Iterates

------------------------------------------------------------------------------
\* The loop of _parse_expr.

\* What a term or an expression from i on may be parsed to.
Results(ts, i, N) ==
  {r \in [ok : {TRUE}, node : N, pos : Positions(ts)] : i < r.pos} \cup {Rejected}
LoopStates(ts, N) ==
  [state : {"open", "closed", "failed"}, op : Operators \cup {""}, children : Seq(N), pos : Positions(ts)]

\* A result is a rejection, or a node and where it ends.
LEMMA ResultParts ==
  ASSUME NEW ts, NEW i, NEW N, NEW r \in Results(ts, i, N)
  PROVE  /\ r.ok \in BOOLEAN
         /\ r.ok => r.node \in N /\ r.pos \in Positions(ts) /\ i < r.pos
<1>1. CASE r = Rejected
  BY <1>1 DEF Rejected
<1>2. CASE r \in [ok : {TRUE}, node : N, pos : Positions(ts)] /\ i < r.pos
  BY <1>2
<1> QED BY <1>1, <1>2 DEF Results

\* The end of the text is no token.
LEMMA BeforeEnd ==
  ASSUME NEW ts, Len(ts) \in Nat, NEW p \in Nat \ {0}, Peek(ts, p).kind # "eof"
  PROVE  p \in 1 .. Len(ts) /\ Peek(ts, p) = ts[p] /\ p + 1 \in Positions(ts)
<1>1. Eof.kind = "eof"
  BY DEF Eof, Token
<1>2. p <= Len(ts)
  BY <1>1 DEF Peek
<1> QED BY <1>2 DEF Peek, Positions

\* A state of the loop, from its parts.
LEMMA StateParts ==
  ASSUME NEW ts, NEW N, NEW st \in {"open", "closed", "failed"}, NEW op \in Operators \cup {""},
         NEW c \in Seq(N), NEW p \in Positions(ts)
  PROVE  [state |-> st, op |-> op, children |-> c, pos |-> p] \in LoopStates(ts, N)
  BY DEF LoopStates

\* The loop that has failed is in a state too.
LEMMA FailedState ==
  ASSUME NEW ts, Len(ts) \in Nat, NEW N
  PROVE  Failed \in LoopStates(ts, N)
<1>1. 1 \in Positions(ts)
  BY DEF Positions
<1> QED BY <1>1 DEF Failed, LoopStates

\* A round goes on behind the operator.
LEMMA OperatorAt ==
  ASSUME NEW ts, Len(ts) \in Nat, NEW p \in Positions(ts), AtOperator(ts, p)
  PROVE  /\ p \in 1 .. Len(ts) /\ p + 1 \in Positions(ts)
         /\ Peek(ts, p) = ts[p] /\ ts[p].kind = "ident" /\ ts[p].value \in Operators
<1>1. Peek(ts, p).kind # "eof" /\ p \in Nat \ {0}
  BY DEF AtOperator, Positions
<1> QED BY <1>1, BeforeEnd DEF AtOperator

\* A round leads from a state of the loop to one.
LEMMA OneRound ==
  ASSUME NEW ts, Len(ts) \in Nat, NEW N, NEW terms,
         \A i \in Positions(ts) : terms[i] \in Results(ts, i, N),
         NEW s \in LoopStates(ts, N)
  PROVE  NextTerm(ts, terms, s) \in LoopStates(ts, N)
<1>1. s.pos \in Positions(ts) /\ s.children \in Seq(N)
  BY DEF LoopStates
<1>2. CASE s.state = "open" /\ AtOperator(ts, s.pos)
  <2> DEFINE term == terms[s.pos + 1]
             w == Peek(ts, s.pos).value
  <2>1. s.pos + 1 \in Positions(ts) /\ w \in Operators
    BY <1>1, <1>2, OperatorAt DEF AtOperator
  <2>2. term \in Results(ts, s.pos + 1, N)
    BY <2>1
  <2>3. NextTerm(ts, terms, s) =
          IF MayFollow(s.op, w) /\ term.ok
          THEN [state |-> "open", op |-> w, children |-> Append(s.children, term.node), pos |-> term.pos]
          ELSE Failed
    BY <1>2 DEF NextTerm
  <2> HIDE DEF term, w
  <2>4. ASSUME term.ok
        PROVE  [state |-> "open", op |-> w, children |-> Append(s.children, term.node), pos |-> term.pos]
                 \in LoopStates(ts, N)
    <3>1. term.node \in N /\ term.pos \in Positions(ts)
      BY <2>2, <2>4, ResultParts
    <3>2. Append(s.children, term.node) \in Seq(N)
      BY <1>1, <3>1
    <3> QED BY <2>1, <3>1, <3>2, StateParts
  <2> QED BY <2>3, <2>4, FailedState
<1>3. CASE s.state # "open"
  BY <1>3 DEF NextTerm
<1>4. CASE s.state = "open" /\ ~AtOperator(ts, s.pos)
  BY <1>4 DEF NextTerm, LoopStates
<1> QED BY <1>2, <1>3, <1>4

\* The rounds g are those of the loop that begins at i.
LoopOf(ts, terms, N, i, g) ==
  /\ g[0] = FirstTerm(terms[i])
  /\ \A n \in Nat : g[n] \in LoopStates(ts, N) /\ g[n + 1] = NextTerm(ts, terms, g[n])

\* The recursive function of _parse_expr is what its definition says.
LEMMA RoundsFollow ==
  ASSUME NEW ts, Len(ts) \in Nat, NEW N, NEW terms,
         \A i \in Positions(ts) : terms[i] \in Results(ts, i, N),
         NEW i \in Positions(ts)
  PROVE  LoopOf(ts, terms, N, i, Rounds(ts, terms, i))
<1> DEFINE V == LoopStates(ts, N)
           start == FirstTerm(terms[i])
           step == [s \in V |-> NextTerm(ts, terms, s)]
<1>1. start \in V
  <2>1. terms[i].ok => terms[i].node \in N /\ terms[i].pos \in Positions(ts)
    BY ResultParts
  <2>2. terms[i].ok => <<terms[i].node>> \in Seq(N)
    BY <2>1
  <2> QED BY <2>1, <2>2, StateParts, FailedState DEF FirstTerm
<1>2. step \in [V -> V]
  BY OneRound
<1>3. PICK f : Iterates(f, V, start, step)
  <2> HIDE DEF V, start, step
  <2> QED BY <1>1, <1>2, Recursion
<1>4. \A n \in Nat : f[n] \in V /\ f[n + 1] = NextTerm(ts, terms, f[n])
  <2> TAKE n \in Nat
  <2>1. f[n] \in V
    BY <1>3 DEF Iterates
  <2> HIDE DEF V
  <2> QED BY <1>3, <2>1 DEF Iterates
<1> HIDE DEF V, start, step
<1>5. f = [n \in Nat |-> IF n = 0 THEN FirstTerm(terms[i]) ELSE NextTerm(ts, terms, f[n - 1])]
  <2>1. \A n \in Nat : f[n] = IF n = 0 THEN FirstTerm(terms[i]) ELSE NextTerm(ts, terms, f[n - 1])
    <3> TAKE n \in Nat
    <3>1. CASE n = 0
      BY <1>3, <3>1 DEF start, Iterates
    <3>2. CASE n # 0
      <4>1. n - 1 \in Nat /\ n = (n - 1) + 1
        BY <3>2
      <4> QED BY <1>4, <3>2, <4>1
    <3> QED BY <3>1, <3>2
  <2> QED BY <1>3, <2>1 DEF Iterates
<1>6. Rounds(ts, terms, i) =
        CHOOSE g : g = [n \in Nat |-> IF n = 0 THEN FirstTerm(terms[i]) ELSE NextTerm(ts, terms, g[n - 1])]
  BY DEF Rounds
<1> DEFINE g == Rounds(ts, terms, i)
<1>7. g = [n \in Nat |-> IF n = 0 THEN FirstTerm(terms[i]) ELSE NextTerm(ts, terms, g[n - 1])]
  BY <1>5, <1>6
<1> HIDE DEF g
<1>8. g[0] = FirstTerm(terms[i]) /\ \A n \in Nat : g[n + 1] = NextTerm(ts, terms, g[n])
  <2>1. \A n \in Nat : g[n] = IF n = 0 THEN FirstTerm(terms[i]) ELSE NextTerm(ts, terms, g[n - 1])
    BY <1>7
  <2>2. g[0] = FirstTerm(terms[i])
    BY <2>1
  <2>3. ASSUME NEW n \in Nat PROVE g[n + 1] = NextTerm(ts, terms, g[n])
    <3>1. n + 1 \in Nat /\ n + 1 # 0 /\ (n + 1) - 1 = n
      OBVIOUS
    <3> QED BY <2>1, <3>1
  <2> QED BY <2>2, <2>3
<1>9. \A n \in Nat : g[n] \in V
  <2> DEFINE S == {n \in Nat : g[n] \in V}
  <2>1. 0 \in S
    BY <1>1, <1>8 DEF start
  <2>2. ASSUME NEW n \in Nat, n \in S PROVE n + 1 \in S
    <3>1. NextTerm(ts, terms, g[n]) \in V
      BY <2>2, OneRound DEF V
    <3>2. g[n + 1] = NextTerm(ts, terms, g[n])
      BY <1>8
    <3> QED BY <3>1, <3>2
  <2>3. \A n \in Nat : n \in S
    <3> HIDE DEF S
    <3> QED BY <2>1, <2>2, Induction
  <2> QED BY <2>3
<1>10. LoopOf(ts, terms, N, i, g)
  BY <1>8, <1>9 DEF LoopOf, V
<1> QED BY <1>10 DEF g

------------------------------------------------------------------------------
\* The predicates.

\* What is used of a text: its positions and its tokens.
IsText(ts) ==
  Len(ts) \in Nat /\ DOMAIN ts = 1 .. Len(ts) /\ \A k \in 1 .. Len(ts) : ts[k] \in Tokens

\* A sequence of tokens is a text.
LEMMA TextOf ==
  ASSUME NEW ts \in Seq(Tokens)
  PROVE  IsText(ts)
  BY DEF IsText

\* A token is known by its kind, and a word or a sign by kind and value.
LEMMA TokenParts ==
  ASSUME NEW t \in Tokens
  PROVE  /\ t.kind = "string" => t.value \in Literals
         /\ t.kind = "ident" => t = Word(t.value)
         /\ \A c \in Signs : t.kind = c => t = Sign(c)
         /\ t.kind # "eof"
<1> USE DEF Word, Sign, Token
<1>1. CASE t \in [kind : {"string"}, value : Literals]
  BY <1>1 DEF Signs
<1>2. CASE t \in [kind : {"ident"}, value : Identifiers]
  BY <1>2 DEF Signs
<1>3. CASE t \in [kind : Signs, value : {""}]
  BY <1>3 DEF Signs
<1> QED BY <1>1, <1>2, <1>3 DEF Tokens

\* Looking at a token by kind is looking at the token, and there is nothing to see at the end.
LEMMA Looking ==
  ASSUME NEW ts, IsText(ts), NEW i \in Nat \ {0}
  PROVE  /\ \A c \in Signs \cup {"string", "ident"} :
              (Peek(ts, i).kind = c <=> KindAt(ts, i, c)) /\ (KindAt(ts, i, c) => Peek(ts, i) = ts[i])
         /\ \A c \in Signs : Peek(ts, i) = Sign(c) <=> KindAt(ts, i, c)
         /\ \A w : Peek(ts, i) = Word(w) <=> WordAt(ts, i, {w})
         /\ KindAt(ts, i, "string") => ts[i].value \in Literals
         /\ \A w : ts[i] = Word(w) => ts[i].kind = "ident" /\ ts[i].value = w
<1> USE DEF KindAt, WordAt
<1>0. /\ \A w : Word(w).kind = "ident" /\ Word(w).value = w
      /\ \A c : Sign(c).kind = c
      /\ Eof.kind = "eof"
  BY DEF Word, Sign, Token, Eof
<1>1. CASE i \in 1 .. Len(ts)
  <2>1. Peek(ts, i) = ts[i] /\ i \in DOMAIN ts /\ ts[i] \in Tokens
    BY <1>1 DEF Peek, IsText
  <2>2. \A w : ts[i] = Word(w) <=> ts[i].kind = "ident" /\ ts[i].value = w
    BY <1>0, <2>1, TokenParts
  <2>3. \A c \in Signs : ts[i] = Sign(c) <=> ts[i].kind = c
    BY <1>0, <2>1, TokenParts
  <2>4. ts[i].kind = "string" => ts[i].value \in Literals
    BY <2>1, TokenParts
  <2> QED BY <2>1, <2>2, <2>3, <2>4
<1>2. CASE i \notin 1 .. Len(ts)
  <2>1. Peek(ts, i) = Eof /\ i \notin DOMAIN ts
    BY <1>2 DEF Peek, IsText
  <2>2. \A c \in Signs \cup {"string", "ident"} : Eof.kind # c
    BY <1>0 DEF Signs
  <2> QED BY <1>0, <2>1, <2>2
<1> QED BY <1>1, <1>2

\* The strings of a list are counted once: up to the first place after a string without a comma.
LEMMA Counted ==
  ASSUME NEW ts, IsText(ts), NEW i \in Positions(ts)
  PROVE  /\ Count(ts, i) \in 1 .. Len(ts) + 1
         /\ ~KindAt(ts, i + 2 * Count(ts, i) - 1, ",")
         /\ \A k \in 1 .. Count(ts, i) - 1 : KindAt(ts, i + 2 * k - 1, ",")
         /\ \A n \in 1 .. Len(ts) + 1 :
              /\ ~KindAt(ts, i + 2 * n - 1, ",")
              /\ \A k \in 1 .. n - 1 : KindAt(ts, i + 2 * k - 1, ",")
              => n = Count(ts, i)
<1>0. Len(ts) \in Nat /\ i \in Nat \ {0}
  BY DEF IsText, Positions
<1> DEFINE comma(n) == KindAt(ts, i + 2 * n - 1, ",")
           Good(n) == ~comma(n) /\ \A k \in 1 .. n - 1 : comma(k)
           S == {n \in Nat \ {0} : ~comma(n)}
<1>1. \A n \in Nat \ {0} : comma(n) <=> Peek(ts, i + 2 * n - 1) = Sign(",")
  <2> TAKE n \in Nat \ {0}
  <2> DEFINE p == i + 2 * n - 1
  <2>1. p \in Nat \ {0} /\ "," \in Signs
    BY <1>0 DEF Signs
  <2>2. comma(n) = KindAt(ts, p, ",")
    OBVIOUS
  <2> HIDE DEF p, comma
  <2>3. \A c \in Signs : Peek(ts, p) = Sign(c) <=> KindAt(ts, p, c)
    BY <2>1, Looking
  <2> QED BY <2>1, <2>2, <2>3 DEF p
<1>2. Len(ts) + 1 \in S
  <2> DEFINE p == i + 2 * (Len(ts) + 1) - 1
  <2>1. p \in Nat /\ p > Len(ts) /\ Len(ts) + 1 \in Nat \ {0}
    BY <1>0
  <2> HIDE DEF p
  <2>2. ~KindAt(ts, p, ",")
    <3>1. DOMAIN ts = 1 .. Len(ts) /\ p \notin 1 .. Len(ts)
      BY <1>0, <2>1 DEF IsText
    <3> QED BY <3>1 DEF KindAt
  <2> QED BY <2>1, <2>2 DEF p
<1> HIDE DEF comma
<1>3. PICK x \in S : \A y \in S : x <= y
  BY <1>2, Least
<1>4. x \in 1 .. Len(ts) + 1 /\ Good(x)
  <2>1. x <= Len(ts) + 1 /\ x \in Nat \ {0} /\ ~comma(x)
    BY <1>2, <1>3
  <2>2. ASSUME NEW k \in 1 .. x - 1 PROVE comma(k)
    <3>1. k \in Nat \ {0} /\ ~(x <= k)
      BY <2>1
    <3> QED BY <1>3, <3>1
  <2> QED BY <1>0, <2>1, <2>2
<1>5. ASSUME NEW m \in 1 .. Len(ts) + 1, NEW n \in 1 .. Len(ts) + 1, Good(m), Good(n) PROVE ~(m < n)
  <2> SUFFICES ASSUME m < n PROVE FALSE
    OBVIOUS
  <2>1. m \in 1 .. n - 1
    BY <1>0
  <2> QED BY <1>5, <2>1
<1>6. \A n \in 1 .. Len(ts) + 1 : Good(n) <=> /\ Peek(ts, i + 2 * n - 1) # Sign(",")
                                             /\ \A k \in 1 .. n - 1 : Peek(ts, i + 2 * k - 1) = Sign(",")
  <2> TAKE n \in 1 .. Len(ts) + 1
  <2>1. n \in Nat \ {0} /\ \A k \in 1 .. n - 1 : k \in Nat \ {0}
    BY <1>0
  <2> QED BY <1>1, <2>1
<1> DEFINE c == Count(ts, i)
<1>7. c = CHOOSE n \in 1 .. Len(ts) + 1 : /\ Peek(ts, i + 2 * n - 1) # Sign(",")
                                          /\ \A k \in 1 .. n - 1 : Peek(ts, i + 2 * k - 1) = Sign(",")
  BY DEF Count
<1> HIDE DEF c
<1>8. c \in 1 .. Len(ts) + 1 /\ Good(c)
  <2> HIDE DEF Good
  <2> QED BY <1>4, <1>6, <1>7
<1>9. ASSUME NEW n \in 1 .. Len(ts) + 1, Good(n) PROVE n = c
  <2> HIDE DEF Good
  <2>1. ~(n < c) /\ ~(c < n)
    BY <1>5, <1>8, <1>9
  <2> QED BY <1>0, <1>8, <2>1
<1> QED BY <1>8, <1>9 DEF comma, c

\* A list in parentheses is parsed where the grammar has one, and as far.
LEMMA ValueLists ==
  ASSUME NEW ts, IsText(ts), NEW i \in Nat \ {0}, KindAt(ts, i, "(")
  PROVE  LET list == _parse_value_list(ts, i + 1) IN
         /\ list.ok \in BOOLEAN
         /\ list.ok => /\ list.node \in Seq(Literals) \ {<<>>}
                       /\ list.pos \in Positions(ts) /\ i < list.pos
                       /\ IsValueList(ts, i, list.pos - 1)
         /\ \A j \in Nat : IsValueList(ts, i, j) => list.ok /\ list.pos = j + 1
<1> DEFINE n == Count(ts, i + 1)
           list == _parse_value_list(ts, i + 1)
           Strings(m) == \A k \in 1 .. m : KindAt(ts, i + 2 * k - 1, "string")
           Commas(m) == \A k \in 1 .. m - 1 : KindAt(ts, i + 2 * k, ",")
<1>0. Len(ts) \in Nat /\ i \in 1 .. Len(ts) /\ i + 1 \in Positions(ts) /\ DOMAIN ts = 1 .. Len(ts)
  BY DEF IsText, KindAt, Positions
<1>1. /\ n \in 1 .. Len(ts) + 1
      /\ ~KindAt(ts, i + 2 * n, ",") /\ Commas(n)
      /\ \A m \in 1 .. Len(ts) + 1 : ~KindAt(ts, i + 2 * m, ",") /\ Commas(m) => m = n
  <2>1. \A m \in Nat : (i + 1) + 2 * m - 1 = i + 2 * m
    BY <1>0
  <2>2. \A m \in 1 .. Len(ts) + 1 : m \in Nat /\ \A k \in 1 .. m - 1 : k \in Nat
    BY <1>0
  <2> HIDE DEF n
  <2>3. /\ n \in 1 .. Len(ts) + 1
        /\ ~KindAt(ts, (i + 1) + 2 * n - 1, ",")
        /\ \A k \in 1 .. n - 1 : KindAt(ts, (i + 1) + 2 * k - 1, ",")
    BY <1>0, Counted DEF n
  <2>4. ASSUME NEW m \in 1 .. Len(ts) + 1, ~KindAt(ts, i + 2 * m, ","), Commas(m) PROVE m = n
    <3>1. ~KindAt(ts, (i + 1) + 2 * m - 1, ",")
      BY <2>1, <2>2, <2>4
    <3>2. \A k \in 1 .. m - 1 : KindAt(ts, (i + 1) + 2 * k - 1, ",")
      BY <2>1, <2>2, <2>4
    <3> QED BY <1>0, <3>1, <3>2, Counted DEF n
  <2> QED BY <2>1, <2>2, <2>3, <2>4
<1>n. n \in Nat \ {0}
  <2> HIDE DEF n
  <2>1. n \in 1 .. Len(ts) + 1
    BY <1>1
  <2> QED BY <1>0, <2>1
<1>2. Peek(ts, (i + 1) + 2 * n - 1) = Sign(")") <=> KindAt(ts, i + 2 * n, ")")
  <2> HIDE DEF n
  <2> DEFINE p == i + 2 * n
  <2>1. (i + 1) + 2 * n - 1 = p /\ p \in Nat \ {0} /\ ")" \in Signs
    BY <1>n DEF Signs
  <2> HIDE DEF p
  <2>2. Peek(ts, p) = Sign(")") <=> KindAt(ts, p, ")")
    BY <2>1, Looking
  <2> QED BY <2>1, <2>2 DEF p
<1>3. (\A k \in 1 .. n : Peek(ts, (i + 1) + 2 * k - 2).kind = "string") <=> Strings(n)
  <2> HIDE DEF n
  <2> SUFFICES ASSUME NEW k \in 1 .. n
               PROVE Peek(ts, (i + 1) + 2 * k - 2).kind = "string" <=> KindAt(ts, i + 2 * k - 1, "string")
    OBVIOUS
  <2> DEFINE p == i + 2 * k - 1
  <2>1. (i + 1) + 2 * k - 2 = p /\ p \in Nat \ {0}
    BY <1>n
  <2> HIDE DEF p
  <2>2. Peek(ts, p).kind = "string" <=> KindAt(ts, p, "string")
    BY <2>1, Looking
  <2> QED BY <2>1, <2>2 DEF p
<1>4. list = IF KindAt(ts, i + 2 * n, ")") /\ Strings(n)
             THEN Parsed([k \in 1 .. n |-> ts[(i + 1) + 2 * k - 2].value], (i + 1) + 2 * n)
             ELSE Rejected
  <2> HIDE DEF n
  <2>1. _parse_value_list(ts, i + 1) =
          IF Peek(ts, (i + 1) + 2 * n - 1) = Sign(")") /\ (\A k \in 1 .. n : Peek(ts, (i + 1) + 2 * k - 2).kind = "string")
          THEN Parsed([k \in 1 .. n |-> ts[(i + 1) + 2 * k - 2].value], (i + 1) + 2 * n)
          ELSE Rejected
    BY DEF _parse_value_list, n
  <2> QED BY <1>2, <1>3, <2>1
<1> HIDE DEF n, list
<1>5. list.ok <=> KindAt(ts, i + 2 * n, ")") /\ Strings(n)
  <2> HIDE DEF Strings
  <2> QED BY <1>4 DEF Parsed, Rejected
<1>6. ASSUME list.ok
      PROVE  /\ list.node \in Seq(Literals) \ {<<>>}
             /\ list.pos = i + 2 * n + 1 /\ list.pos \in Positions(ts) /\ i < list.pos
             /\ IsValueList(ts, i, list.pos - 1)
  <2>1. KindAt(ts, i + 2 * n, ")") /\ Strings(n)
    BY <1>5, <1>6
  <2>2. list.node = [k \in 1 .. n |-> ts[(i + 1) + 2 * k - 2].value] /\ list.pos = (i + 1) + 2 * n
    <3> HIDE DEF Strings
    <3> QED BY <1>4, <2>1 DEF Parsed
  <2>3. \A k \in 1 .. n : ts[(i + 1) + 2 * k - 2].value \in Literals
    <3> TAKE k \in 1 .. n
    <3> DEFINE p == i + 2 * k - 1
    <3>1. (i + 1) + 2 * k - 2 = p /\ p \in Nat \ {0}
      BY <1>n
    <3>2. KindAt(ts, p, "string")
      BY <2>1
    <3> HIDE DEF p
    <3> QED BY <3>1, <3>2, Looking
  <2>4. list.node \in Seq(Literals) \ {<<>>}
    <3> DEFINE v == [k \in 1 .. n |-> ts[(i + 1) + 2 * k - 2].value]
    <3>1. v \in Seq(Literals) /\ Len(v) = n
      BY <1>n, <2>3
    <3>2. v # <<>>
      BY <1>n, <3>1
    <3> QED BY <2>2, <3>1, <3>2
  <2>5. i + 2 * n \in 1 .. Len(ts)
    BY <1>0, <2>1 DEF KindAt
  <2>6. list.pos = i + 2 * n + 1 /\ list.pos \in Positions(ts) /\ i < list.pos /\ list.pos - 1 = i + 2 * n
    BY <1>0, <1>n, <2>2, <2>5 DEF Positions
  <2>7. IsValueList(ts, i, i + 2 * n)
    <3> DEFINE j == i + 2 * n
    <3>1. j >= i + 2 /\ (j - i) % 2 = 0
      BY <1>n
    <3>2. ASSUME NEW k \in i .. j
          PROVE  KindAt(ts, k, IF k = i THEN "(" ELSE IF k = j THEN ")"
                               ELSE IF (k - i) % 2 = 1 THEN "string" ELSE ",")
      <4>1. CASE k = i \/ k = j
        BY <2>1, <4>1, <1>0, <1>1
      <4>2. CASE k # i /\ k # j /\ (k - i) % 2 = 1
        <5>1. PICK m \in 1 .. n : k = i + 2 * m - 1
          <6>1. (k - i + 1) \div 2 \in 1 .. n /\ k = i + 2 * ((k - i + 1) \div 2) - 1
            BY <4>2, <1>n
          <6> QED BY <6>1
        <5> QED BY <4>2, <5>1, <2>1
      <4>3. CASE k # i /\ k # j /\ (k - i) % 2 # 1
        <5>1. PICK m \in 1 .. n - 1 : k = i + 2 * m
          <6>1. (k - i) \div 2 \in 1 .. n - 1 /\ k = i + 2 * ((k - i) \div 2)
            BY <4>3, <1>n
          <6> QED BY <6>1
        <5> QED BY <4>3, <5>1, <1>1
      <4> QED BY <4>1, <4>2, <4>3
    <3> QED BY <3>1, <3>2 DEF IsValueList
  <2> QED BY <2>4, <2>6, <2>7
<1>7. ASSUME NEW j \in Nat, IsValueList(ts, i, j) PROVE list.ok /\ list.pos = j + 1
  <2> DEFINE kind(k) == IF k = i THEN "(" ELSE IF k = j THEN ")" ELSE IF (k - i) % 2 = 1 THEN "string" ELSE ","
             m == (j - i) \div 2
  <2>1. j >= i + 2 /\ (j - i) % 2 = 0 /\ \A k \in i .. j : KindAt(ts, k, kind(k))
    BY <1>7 DEF IsValueList
  <2>2. m \in Nat \ {0} /\ j = i + 2 * m
    <3>1. j >= i + 2 /\ (j - i) % 2 = 0
      BY <2>1
    <3> QED BY <3>1
  <2>3. KindAt(ts, j, ")")
    <3>0. j >= i + 2
      BY <2>1
    <3>1. kind(j) = ")" /\ j \in i .. j
      BY <3>0
    <3> HIDE DEF kind
    <3> QED BY <2>1, <3>1
  <2>4. m \in 1 .. Len(ts) + 1
    BY <1>0, <2>2, <2>3 DEF KindAt
  <2> HIDE DEF m
  <2>5. Strings(m)
    <3> SUFFICES ASSUME NEW k \in 1 .. m PROVE KindAt(ts, i + 2 * k - 1, "string")
      OBVIOUS
    <3>1. i + 2 * k - 1 \in i .. j /\ kind(i + 2 * k - 1) = "string"
      BY <1>0, <2>2
    <3> HIDE DEF kind
    <3> QED BY <2>1, <3>1
  <2>6. Commas(m)
    <3> SUFFICES ASSUME NEW k \in 1 .. m - 1 PROVE KindAt(ts, i + 2 * k, ",")
      OBVIOUS
    <3>1. i + 2 * k \in i .. j /\ kind(i + 2 * k) = ","
      BY <1>0, <2>2
    <3> HIDE DEF kind
    <3> QED BY <2>1, <3>1
  <2>7. ~KindAt(ts, i + 2 * m, ",")
    BY <2>2, <2>3 DEF KindAt
  <2>8. m = n
    <3> HIDE DEF Commas
    <3> QED BY <1>1, <2>4, <2>6, <2>7
  <2>9. list.ok
    <3> HIDE DEF Strings
    <3> QED BY <1>5, <2>2, <2>3, <2>5, <2>8
  <2> QED BY <1>6, <2>2, <2>8, <2>9
<1>8. list.ok \in BOOLEAN
  <2> HIDE DEF Strings
  <2> QED BY <1>4 DEF Parsed, Rejected
<1> QED BY <1>6, <1>7, <1>8 DEF list

\* The same for a keyword or a column.
LEMMA LookingAtWord ==
  ASSUME NEW ts, IsText(ts), NEW i \in Nat \ {0}, NEW W
  PROVE  Peek(ts, i).kind = "ident" /\ Peek(ts, i).value \in W <=> WordAt(ts, i, W)
<1>1. (Peek(ts, i).kind = "ident" <=> KindAt(ts, i, "ident")) /\ (KindAt(ts, i, "ident") => Peek(ts, i) = ts[i])
  BY Looking
<1> QED BY <1>1 DEF KindAt, WordAt

\* A token that is there is in the text.
LEMMA TokenInText ==
  ASSUME NEW ts, IsText(ts), NEW p \in Nat
  PROVE  /\ \A c : KindAt(ts, p, c) => p + 1 \in Positions(ts) /\ p > 0
         /\ \A W : WordAt(ts, p, W) => p + 1 \in Positions(ts) /\ p > 0
<1>1. p \in 1 .. Len(ts) => p + 1 \in Positions(ts) /\ p > 0
  BY DEF Positions, IsText
<1>2. DOMAIN ts = 1 .. Len(ts)
  BY DEF IsText
<1> QED BY <1>1, <1>2 DEF KindAt, WordAt

\* One shape of predicate.
LEMMA OneShape ==
  ASSUME NEW ts, IsText(ts), NEW i \in Nat, NEW cond \in BOOLEAN, NEW node, NEW p \in Nat, NEW r,
         r = IF cond THEN Parsed(node, p) ELSE Rejected,
         cond => node \in Predicates /\ p \in Positions(ts) /\ i < p,
         \A j \in Nat : IsPredicate(ts, i, j) <=> cond /\ p = j + 1
  PROVE  /\ r \in Results(ts, i, Predicates)
         /\ \A j \in Nat : r.ok /\ r.pos = j + 1 <=> IsPredicate(ts, i, j)
<1>1. CASE cond
  BY <1>1 DEF Parsed, Results
<1>2. CASE ~cond
  BY <1>2 DEF Rejected, Results
<1> QED BY <1>1, <1>2

\* string [NOT] IN array_col
LEMMA ArrayShape ==
  ASSUME NEW ts, IsText(ts), NEW i \in Nat \ {0}, KindAt(ts, i, "string")
  PROVE  LET r == ArrayPredicate(ts, i) IN
         /\ r \in Results(ts, i, Predicates)
         /\ \A j \in Nat : r.ok /\ r.pos = j + 1 <=> IsPredicate(ts, i, j)
<1> DEFINE neg == WordAt(ts, i + 1, {"not"})
           at == IF neg THEN i + 2 ELSE i + 1
           cond == WordAt(ts, at, {"in"}) /\ WordAt(ts, at + 1, ArrayColumns)
           node == [node |-> IF neg THEN "ArrayNotContains" ELSE "ArrayContains",
                    column |-> Peek(ts, at + 1).value, value |-> ts[i].value]
<1>1. at \in Nat \ {0} /\ at + 1 \in Nat \ {0} /\ i + 1 \in Nat \ {0} /\ at + 2 \in Nat /\ i < at + 2
  OBVIOUS
<1>2. neg <=> AtKeyword(ts, i + 1, "not")
  BY <1>1, Looking DEF AtKeyword
<1>3. ArrayPredicate(ts, i) = IF cond THEN Parsed(node, at + 2) ELSE Rejected
  <2>1. at = IF AtKeyword(ts, i + 1, "not") THEN i + 2 ELSE i + 1
    BY <1>2
  <2>2. node = [node |-> IF AtKeyword(ts, i + 1, "not") THEN "ArrayNotContains" ELSE "ArrayContains",
                column |-> Peek(ts, at + 1).value, value |-> ts[i].value]
    BY <1>2
  <2> HIDE DEF at, node, neg
  <2>3. AtKeyword(ts, at, "in") <=> WordAt(ts, at, {"in"})
    BY <1>1, Looking DEF AtKeyword
  <2>4. Peek(ts, at + 1).kind = "ident" /\ Peek(ts, at + 1).value \in ArrayColumns <=> WordAt(ts, at + 1, ArrayColumns)
    BY <1>1, LookingAtWord
  <2>5. ArrayPredicate(ts, i) =
          IF AtKeyword(ts, at, "in") /\ Peek(ts, at + 1).kind = "ident" /\ Peek(ts, at + 1).value \in ArrayColumns
          THEN Parsed(node, at + 2) ELSE Rejected
    BY <2>1, <2>2 DEF ArrayPredicate
  <2> QED BY <2>3, <2>4, <2>5
<1>4. cond => node \in Predicates /\ at + 2 \in Positions(ts)
  <2>1. ts[i].value \in Literals
    BY Looking
  <2> HIDE DEF at
  <2>2. WordAt(ts, at + 1, ArrayColumns) => Peek(ts, at + 1).value \in ArrayColumns
    BY <1>1, LookingAtWord
  <2>3. cond => node \in Predicates
    BY <2>1, <2>2 DEF Predicates
  <2>4. WordAt(ts, at + 1, ArrayColumns) => (at + 1) + 1 \in Positions(ts)
    BY <1>1, TokenInText
  <2>5. (at + 1) + 1 = at + 2
    BY <1>1
  <2> QED BY <2>3, <2>4, <2>5
<1>5. ASSUME NEW j \in Nat PROVE IsPredicate(ts, i, j) <=> cond /\ at + 2 = j + 1
  <2>1. ~WordAt(ts, i, ScalarColumns) /\ ~WordAt(ts, i, BoolColumns)
    BY DEF WordAt, KindAt
  <2>2. ~(WordAt(ts, i + 1, {"not"}) /\ WordAt(ts, i + 1, {"in"}))
    BY DEF WordAt
  <2>3. IsPredicate(ts, i, j) <=>
          \/ j = i + 2 /\ WordAt(ts, i + 1, {"in"}) /\ WordAt(ts, j, ArrayColumns)
          \/ j = i + 3 /\ WordAt(ts, i + 1, {"not"}) /\ WordAt(ts, i + 2, {"in"}) /\ WordAt(ts, j, ArrayColumns)
    BY <2>1 DEF IsPredicate
  <2>4. CASE neg
    <3>1. at = i + 2 /\ at + 1 = i + 3 /\ (at + 2 = j + 1 <=> j = i + 3)
      BY <2>4
    <3> HIDE DEF at
    <3> QED BY <2>2, <2>3, <2>4, <3>1
  <2>5. CASE ~neg
    <3>1. at = i + 1 /\ at + 1 = i + 2 /\ (at + 2 = j + 1 <=> j = i + 2)
      BY <2>5
    <3> HIDE DEF at
    <3> QED BY <2>2, <2>3, <2>5, <3>1
  <2> QED BY <2>4, <2>5
<1>6. cond \in BOOLEAN
  OBVIOUS
<1> HIDE DEF at, cond, node
<1> QED BY <1>1, <1>3, <1>4, <1>5, <1>6, OneShape

\* bool_col '=' bool
LEMMA BoolShape ==
  ASSUME NEW ts, IsText(ts), NEW i \in Nat \ {0}, WordAt(ts, i, BoolColumns)
  PROVE  LET r == _parse_bool_predicate(ts[i].value, ts, i + 1) IN
         /\ r \in Results(ts, i, Predicates)
         /\ \A j \in Nat : r.ok /\ r.pos = j + 1 <=> IsPredicate(ts, i, j)
<1> DEFINE cond == KindAt(ts, i + 1, "=") /\ WordAt(ts, i + 2, {"true", "false"})
           node == [node |-> "BoolEquals", column |-> ts[i].value, truth |-> ts[i + 2] = Word("true")]
<1>1. i + 1 \in Nat \ {0} /\ i + 2 \in Nat \ {0} /\ (i + 1) + 1 = i + 2 /\ (i + 1) + 2 = i + 3 /\ (i + 2) + 1 = i + 3
      /\ i < i + 3 /\ i + 3 \in Nat /\ "=" \in Signs
  BY DEF Signs
<1>2. Peek(ts, i + 2) \in {Word("true"), Word("false")} <=> WordAt(ts, i + 2, {"true", "false"})
  <2>1. \A w : Peek(ts, i + 2) = Word(w) <=> WordAt(ts, i + 2, {w})
    BY <1>1, Looking
  <2> QED BY <2>1 DEF WordAt
<1>3. Peek(ts, i + 1) = Sign("=") <=> KindAt(ts, i + 1, "=")
  BY <1>1, Looking
<1>4. _parse_bool_predicate(ts[i].value, ts, i + 1) = IF cond THEN Parsed(node, i + 3) ELSE Rejected
  <2>1. _parse_bool_predicate(ts[i].value, ts, i + 1) =
          IF Peek(ts, i + 1) = Sign("=") /\ Peek(ts, (i + 1) + 1) \in {Word("true"), Word("false")}
          THEN Parsed([node |-> "BoolEquals", column |-> ts[i].value, truth |-> ts[(i + 1) + 1] = Word("true")],
                      (i + 1) + 2)
          ELSE Rejected
    BY DEF _parse_bool_predicate
  <2> QED BY <1>1, <1>2, <1>3, <2>1
<1>5. cond => node \in Predicates /\ i + 3 \in Positions(ts)
  <2>1. ts[i].value \in BoolColumns
    BY DEF WordAt
  <2>2. node \in Predicates
    BY <2>1 DEF Predicates
  <2>3. WordAt(ts, i + 2, {"true", "false"}) => (i + 2) + 1 \in Positions(ts)
    BY <1>1, TokenInText
  <2> QED BY <1>1, <2>2, <2>3
<1>6. ASSUME NEW j \in Nat PROVE IsPredicate(ts, i, j) <=> cond /\ i + 3 = j + 1
  <2>1. ~WordAt(ts, i, ScalarColumns) /\ ~KindAt(ts, i, "string")
    BY DEF WordAt, KindAt, BoolColumns, ScalarColumns
  <2>2. IsPredicate(ts, i, j) <=> j = i + 2 /\ KindAt(ts, i + 1, "=") /\ WordAt(ts, j, {"true", "false"})
    BY <2>1 DEF IsPredicate
  <2>3. i + 3 = j + 1 <=> j = i + 2
    OBVIOUS
  <2> QED BY <2>2, <2>3
<1>7. cond \in BOOLEAN
  OBVIOUS
<1> HIDE DEF cond, node
<1> QED BY <1>1, <1>4, <1>5, <1>6, <1>7, OneShape

\* column [NOT] IN ( list )
LEMMA ListShape ==
  ASSUME NEW ts, IsText(ts), NEW q \in Nat \ {0}, NEW name \in {"InList", "NotInList"}, NEW column \in ScalarColumns
  PROVE  LET r == ListPredicate(name, column, ts, q) IN
         /\ r \in Results(ts, q, Predicates)
         /\ \A j \in Nat : r.ok /\ r.pos = j + 1 <=> IsValueList(ts, q, j)
<1> DEFINE list == _parse_value_list(ts, q + 1)
           r == ListPredicate(name, column, ts, q)
           node == [node |-> name, column |-> column, values |-> list.node]
<1>1. Peek(ts, q) = Sign("(") <=> KindAt(ts, q, "(")
  BY Looking DEF Signs
<1>2. r = IF ~KindAt(ts, q, "(") \/ ~list.ok THEN Rejected ELSE Parsed(node, list.pos)
  BY <1>1 DEF ListPredicate
<1>3. CASE ~KindAt(ts, q, "(")
  <2>1. r = Rejected
    BY <1>2, <1>3
  <2>2. ASSUME NEW j \in Nat PROVE ~IsValueList(ts, q, j)
    <3>1. IsValueList(ts, q, j) => j >= q + 2 /\ \A k \in q .. j : KindAt(ts, k, IF k = q THEN "(" ELSE IF k = j THEN ")"
                                    ELSE IF (k - q) % 2 = 1 THEN "string" ELSE ",")
      BY DEF IsValueList
    <3>2. j >= q + 2 => q \in q .. j
      OBVIOUS
    <3> QED BY <1>3, <3>1, <3>2
  <2> HIDE DEF r
  <2> QED BY <2>1, <2>2 DEF Rejected, Results, r
<1>4. CASE KindAt(ts, q, "(")
  <2>1. /\ list.ok \in BOOLEAN
        /\ list.ok => /\ list.node \in Seq(Literals) \ {<<>>}
                      /\ list.pos \in Positions(ts) /\ q < list.pos
                      /\ IsValueList(ts, q, list.pos - 1)
        /\ \A j \in Nat : IsValueList(ts, q, j) => list.ok /\ list.pos = j + 1
    BY <1>4, ValueLists
  <2> HIDE DEF list, r
  <2>2. r = IF list.ok THEN Parsed(node, list.pos) ELSE Rejected
    BY <1>2, <1>4
  <2>3. CASE list.ok
    <3>1. r.ok /\ r.pos = list.pos /\ r = Parsed(node, list.pos)
      BY <2>2, <2>3 DEF Parsed
    <3>2. node \in Predicates
      BY <2>1, <2>3 DEF Predicates
    <3>3. list.pos \in Positions(ts) /\ q < list.pos
      BY <2>1, <2>3
    <3>4. r \in Results(ts, q, Predicates)
      <4> HIDE DEF node
      <4> QED BY <3>1, <3>2, <3>3 DEF Parsed, Results
    <3>5. \A j \in Nat : list.pos = j + 1 => j = list.pos - 1
      OBVIOUS
    <3> QED BY <2>1, <2>3, <3>1, <3>4, <3>5 DEF r
  <2>4. CASE ~list.ok
    <3>1. r = Rejected
      BY <2>2, <2>4
    <3> QED BY <2>1, <2>4, <3>1 DEF Rejected, Results, r
  <2> QED BY <2>1, <2>3, <2>4
<1> QED BY <1>3, <1>4

\* scalar_col op string, or scalar_col [NOT] IN value_list
LEMMA ScalarShape ==
  ASSUME NEW ts, IsText(ts), NEW i \in Nat \ {0}, WordAt(ts, i, ScalarColumns)
  PROVE  LET r == ScalarPredicate(ts[i].value, ts, i + 1) IN
         /\ r \in Results(ts, i, Predicates)
         /\ \A j \in Nat : r.ok /\ r.pos = j + 1 <=> IsPredicate(ts, i, j)
<1> DEFINE column == ts[i].value
           r == ScalarPredicate(column, ts, i + 1)
           op == KindAt(ts, i + 1, "=") \/ KindAt(ts, i + 1, "!=")
           in == WordAt(ts, i + 1, {"in"})
           not == WordAt(ts, i + 1, {"not"}) /\ WordAt(ts, i + 2, {"in"})
<1>1. i + 1 \in Nat \ {0} /\ i + 2 \in Nat \ {0} /\ i + 3 \in Nat \ {0}
      /\ (i + 1) + 1 = i + 2 /\ (i + 1) + 2 = i + 3 /\ (i + 2) + 1 = i + 3 /\ i < i + 2 /\ i < i + 3
  OBVIOUS
<1>2. column \in ScalarColumns
  BY DEF WordAt
<1>3. /\ Peek(ts, i + 1).kind \in {"=", "!="} <=> op
      /\ op => Peek(ts, i + 1) = ts[i + 1]
      /\ AtKeyword(ts, i + 1, "in") <=> in
      /\ AtKeyword(ts, i + 1, "not") <=> WordAt(ts, i + 1, {"not"})
  <2> DEFINE p == i + 1
  <2>1. p \in Nat \ {0} /\ {"=", "!="} \subseteq Signs
    BY <1>1 DEF Signs
  <2> HIDE DEF p
  <2>2. \A c \in Signs : (Peek(ts, p).kind = c <=> KindAt(ts, p, c)) /\ (KindAt(ts, p, c) => Peek(ts, p) = ts[p])
    BY <2>1, Looking
  <2>3. \A w : Peek(ts, p) = Word(w) <=> WordAt(ts, p, {w})
    BY <2>1, Looking
  <2> QED BY <2>1, <2>2, <2>3 DEF AtKeyword, p
<1>4. AtKeyword(ts, i + 2, "in") <=> WordAt(ts, i + 2, {"in"})
  BY <1>1, Looking DEF AtKeyword
<1>5. ~(op /\ in) /\ ~(op /\ not) /\ ~(in /\ not)
  BY DEF KindAt, WordAt
<1>6. \A j \in Nat : IsPredicate(ts, i, j) <=>
        \/ j = i + 2 /\ op /\ KindAt(ts, j, "string")
        \/ in /\ IsValueList(ts, i + 2, j)
        \/ not /\ IsValueList(ts, i + 3, j)
  <2>1. ~KindAt(ts, i, "string") /\ ~WordAt(ts, i, BoolColumns)
    BY DEF WordAt, KindAt, BoolColumns, ScalarColumns
  <2> QED BY <2>1 DEF IsPredicate
<1>7. \A q \in Nat : i < q => Results(ts, q, Predicates) \subseteq Results(ts, i, Predicates)
  <2> TAKE q \in Nat
  <2> HAVE i < q
  <2>1. \A p \in Positions(ts) : q < p => i < p
    BY DEF IsText, Positions
  <2> QED BY <2>1 DEF Results
<1>8. CASE op
  <2> DEFINE cond == KindAt(ts, i + 2, "string")
             node == [node |-> IF ts[i + 1].kind = "=" THEN "Equals" ELSE "NotEquals",
                      column |-> column, value |-> ts[i + 2].value]
  <2>1. Peek(ts, i + 2).kind = "string" <=> cond
    BY <1>1, Looking
  <2>2. r = IF cond THEN Parsed(node, i + 3) ELSE Rejected
    <3>1. r = IF Peek(ts, (i + 1) + 1).kind = "string"
              THEN Parsed([node |-> IF ts[i + 1].kind = "=" THEN "Equals" ELSE "NotEquals",
                           column |-> column, value |-> ts[(i + 1) + 1].value], (i + 1) + 2)
              ELSE Rejected
      <4>1. Peek(ts, i + 1).kind \in {"=", "!="} /\ ~AtKeyword(ts, i + 1, "in") /\ ~AtKeyword(ts, i + 1, "not")
        BY <1>3, <1>8 DEF KindAt, WordAt
      <4> HIDE DEF op, in, not, cond, node
      <4> QED BY <4>1 DEF ScalarPredicate
    <3> QED BY <1>1, <2>1, <3>1
  <2>3. cond => node \in Predicates /\ i + 3 \in Positions(ts)
    <3>1. cond => ts[i + 2].value \in Literals
      BY <1>1, Looking
    <3>2. cond => node \in Predicates
      BY <1>2, <3>1 DEF Predicates
    <3>3. cond => (i + 2) + 1 \in Positions(ts)
      BY <1>1, TokenInText
    <3> QED BY <1>1, <3>2, <3>3
  <2>4. ASSUME NEW j \in Nat PROVE IsPredicate(ts, i, j) <=> cond /\ i + 3 = j + 1
    <3>1. i + 3 = j + 1 <=> j = i + 2
      OBVIOUS
    <3> QED BY <1>5, <1>6, <1>8, <3>1
  <2>5. cond \in BOOLEAN
    BY DEF KindAt
  <2> HIDE DEF cond, node, r
  <2>6. /\ r \in Results(ts, i, Predicates)
        /\ \A j \in Nat : r.ok /\ r.pos = j + 1 <=> IsPredicate(ts, i, j)
    BY <1>1, <2>2, <2>3, <2>4, <2>5, OneShape
  <2> QED BY <2>6 DEF r
<1>9. CASE in
  <2>1. r = ListPredicate("InList", column, ts, i + 2)
    <3>1. Peek(ts, i + 1).kind \notin {"=", "!="} /\ AtKeyword(ts, i + 1, "in") /\ ~AtKeyword(ts, i + 1, "not")
      BY <1>3, <1>5, <1>9 DEF WordAt
    <3> HIDE DEF op, in, not
    <3>2. r = ListPredicate("InList", column, ts, (i + 1) + 1)
      BY <3>1 DEF ScalarPredicate
    <3> QED BY <1>1, <3>2
  <2> HIDE DEF r, column
  <2>2. /\ r \in Results(ts, i + 2, Predicates)
        /\ \A j \in Nat : r.ok /\ r.pos = j + 1 <=> IsValueList(ts, i + 2, j)
    BY <1>1, <1>2, <2>1, ListShape
  <2>3. r \in Results(ts, i, Predicates)
    BY <1>1, <1>7, <2>2
  <2> QED BY <1>5, <1>6, <1>9, <2>2, <2>3 DEF r, column
<1>10. CASE not
  <2>1. r = ListPredicate("NotInList", column, ts, i + 3)
    <3>1. Peek(ts, i + 1).kind \notin {"=", "!="} /\ ~AtKeyword(ts, i + 1, "in")
          /\ AtKeyword(ts, i + 1, "not") /\ AtKeyword(ts, (i + 1) + 1, "in")
      BY <1>1, <1>3, <1>4, <1>5, <1>10
    <3> HIDE DEF op, in, not
    <3>2. r = ListPredicate("NotInList", column, ts, (i + 1) + 2)
      BY <3>1 DEF ScalarPredicate
    <3> QED BY <1>1, <3>2
  <2> HIDE DEF r, column
  <2>2. /\ r \in Results(ts, i + 3, Predicates)
        /\ \A j \in Nat : r.ok /\ r.pos = j + 1 <=> IsValueList(ts, i + 3, j)
    BY <1>1, <1>2, <2>1, ListShape
  <2>3. r \in Results(ts, i, Predicates)
    BY <1>1, <1>7, <2>2
  <2> QED BY <1>5, <1>6, <1>10, <2>2, <2>3 DEF r, column
<1>11. CASE ~op /\ ~in /\ ~not
  <2>1. r = Rejected
    <3>1. Peek(ts, i + 1).kind \notin {"=", "!="} /\ ~AtKeyword(ts, i + 1, "in")
          /\ ~(AtKeyword(ts, i + 1, "not") /\ AtKeyword(ts, (i + 1) + 1, "in"))
      BY <1>1, <1>3, <1>4, <1>11
    <3> HIDE DEF op, in, not
    <3> QED BY <3>1 DEF ScalarPredicate
  <2> HIDE DEF r, column
  <2>2. \A j \in Nat : ~IsPredicate(ts, i, j)
    BY <1>6, <1>11
  <2>3. /\ r \in Results(ts, i, Predicates)
        /\ \A j \in Nat : r.ok /\ r.pos = j + 1 <=> IsPredicate(ts, i, j)
    BY <2>1, <2>2 DEF Rejected, Results
  <2> QED BY <2>3 DEF r, column
<1> QED BY <1>8, <1>9, <1>10, <1>11

\* A predicate is parsed where the grammar has one, and as far.
LEMMA PredicatesFollow ==
  ASSUME NEW ts, IsText(ts), NEW i \in Nat \ {0}
  PROVE  LET r == _parse_predicate(ts, i) IN
         /\ r \in Results(ts, i, Predicates)
         /\ \A j \in Nat : r.ok /\ r.pos = j + 1 <=> IsPredicate(ts, i, j)
<1> DEFINE token == Peek(ts, i)
           r == _parse_predicate(ts, i)
<1>1. /\ token.kind = "string" <=> KindAt(ts, i, "string")
      /\ KindAt(ts, i, "ident") => token = ts[i]
  BY Looking
<1>2. /\ token.kind = "ident" /\ token.value \in BoolColumns <=> WordAt(ts, i, BoolColumns)
      /\ token.kind = "ident" /\ token.value \in ScalarColumns <=> WordAt(ts, i, ScalarColumns)
  BY LookingAtWord
<1>3. r = CASE token.kind = "string" -> ArrayPredicate(ts, i)
            [] token.kind = "ident" /\ token.value \in BoolColumns -> _parse_bool_predicate(token.value, ts, i + 1)
            [] token.kind = "ident" /\ token.value \in ScalarColumns -> ScalarPredicate(token.value, ts, i + 1)
            [] OTHER -> Rejected
  BY DEF _parse_predicate
<1>4. BoolColumns \cap ScalarColumns = {}
  BY DEF BoolColumns, ScalarColumns
<1> HIDE DEF token, r
<1>5. CASE KindAt(ts, i, "string")
  <2>1. r = ArrayPredicate(ts, i)
    BY <1>1, <1>3, <1>5
  <2> QED BY <1>5, <2>1, ArrayShape DEF r
<1>6. CASE WordAt(ts, i, BoolColumns)
  <2>1. KindAt(ts, i, "ident")
    BY <1>6 DEF WordAt, KindAt
  <2>2. r = _parse_bool_predicate(ts[i].value, ts, i + 1)
    BY <1>1, <1>2, <1>3, <1>4, <1>6, <2>1
  <2> QED BY <1>6, <2>2, BoolShape DEF r
<1>7. CASE WordAt(ts, i, ScalarColumns)
  <2>1. KindAt(ts, i, "ident")
    BY <1>7 DEF WordAt, KindAt
  <2>2. r = ScalarPredicate(ts[i].value, ts, i + 1)
    BY <1>1, <1>2, <1>3, <1>4, <1>7, <2>1
  <2> QED BY <1>7, <2>2, ScalarShape DEF r
<1>8. CASE ~KindAt(ts, i, "string") /\ ~WordAt(ts, i, BoolColumns) /\ ~WordAt(ts, i, ScalarColumns)
  <2>1. r = Rejected
    BY <1>1, <1>2, <1>3, <1>8
  <2>2. \A j \in Nat : ~IsPredicate(ts, i, j)
    BY <1>8 DEF IsPredicate
  <2> QED BY <2>1, <2>2 DEF r, Rejected, Results
<1> QED BY <1>5, <1>6, <1>7, <1>8

------------------------------------------------------------------------------
\* The loop of _parse_expr against the cuts of the grammar.

\* What a round does: nothing behind the end, the end where no operator follows, one term more,
\* or failure.
LEMMA RoundCases ==
  ASSUME NEW ts, IsText(ts), NEW N, NEW terms,
         \A k \in Positions(ts) : terms[k] \in Results(ts, k, N),
         NEW s \in LoopStates(ts, N)
  PROVE  LET u == NextTerm(ts, terms, s)
             w == ts[s.pos].value
             term == terms[s.pos + 1] IN
         \/ s.state # "open" /\ u = s
         \/ /\ s.state = "open" /\ ~AtOperator(ts, s.pos)
            /\ u.state = "closed" /\ u.op = s.op /\ u.children = s.children /\ u.pos = s.pos
         \/ /\ s.state = "open" /\ AtOperator(ts, s.pos) /\ MayFollow(s.op, w) /\ term.ok
            /\ u.state = "open" /\ u.op = w /\ u.children = Append(s.children, term.node) /\ u.pos = term.pos
         \/ /\ s.state = "open" /\ AtOperator(ts, s.pos) /\ ~(MayFollow(s.op, w) /\ term.ok)
            /\ u.state = "failed"
<1> DEFINE w == ts[s.pos].value
           term == terms[s.pos + 1]
           u == NextTerm(ts, terms, s)
<1>1. CASE s.state # "open"
  BY <1>1 DEF NextTerm
<1>2. CASE s.state = "open" /\ ~AtOperator(ts, s.pos)
  <2>1. u = [s EXCEPT !.state = "closed"]
    BY <1>2 DEF NextTerm
  <2> HIDE DEF u
  <2>2. u.state = "closed" /\ u.op = s.op /\ u.children = s.children /\ u.pos = s.pos
    BY <2>1 DEF LoopStates
  <2> QED BY <1>2, <2>2 DEF u
<1>3. CASE s.state = "open" /\ AtOperator(ts, s.pos)
  <2>1. Peek(ts, s.pos) = ts[s.pos]
    <3>1. s.pos \in Positions(ts) /\ Len(ts) \in Nat
      BY DEF LoopStates, IsText
    <3> QED BY <1>3, <3>1, OperatorAt
  <2>2. u = IF MayFollow(s.op, w) /\ term.ok
            THEN [state |-> "open", op |-> w, children |-> Append(s.children, term.node), pos |-> term.pos]
            ELSE Failed
    BY <1>3, <2>1 DEF NextTerm
  <2> HIDE DEF u, w, term
  <2>3. CASE MayFollow(s.op, w) /\ term.ok
    <3>1. u.state = "open" /\ u.op = w /\ u.children = Append(s.children, term.node) /\ u.pos = term.pos
      BY <2>2, <2>3
    <3> QED BY <1>3, <2>3, <3>1 DEF u, w, term
  <2>4. CASE ~(MayFollow(s.op, w) /\ term.ok)
    <3>1. u.state = "failed"
      BY <2>2, <2>4 DEF Failed
    <3> QED BY <1>3, <2>4, <3>1 DEF u, w, term
  <2> QED BY <2>3, <2>4
<1> QED BY <1>1, <1>2, <1>3

\* The first term opens the loop, or fails it.
LEMMA FirstCases ==
  ASSUME NEW ts, NEW i, NEW N, NEW term \in Results(ts, i, N)
  PROVE  LET s == FirstTerm(term) IN
         \/ term.ok /\ s.state = "open" /\ s.op = "" /\ s.children = <<term.node>> /\ s.pos = term.pos
         \/ ~term.ok /\ s.state = "failed"
<1>1. term.ok \in BOOLEAN
  BY ResultParts
<1> QED BY <1>1 DEF FirstTerm, Failed

\* The state after n rounds: every round has moved on behind an operator and a term, and the
\* loop has ended where no operator follows.
Enough(s) == s.children # <<>> /\ (s.op # "" => Len(s.children) >= 2)
LoopInv(ts, i, s, n) ==
  /\ s.state = "open" => s.pos >= n + 2
  /\ s.state # "failed" => Enough(s) /\ i < s.pos
  /\ s.state = "closed" => ~AtOperator(ts, s.pos)

\* Every round keeps it.
LEMMA LoopMovesOn ==
  ASSUME NEW ts, IsText(ts), NEW N, NEW terms,
         \A k \in Positions(ts) : terms[k] \in Results(ts, k, N),
         NEW i \in Positions(ts)
  PROVE  \A n \in Nat : LoopInv(ts, i, Rounds(ts, terms, i)[n], n)
<1> DEFINE g == Rounds(ts, terms, i)
           S == {n \in Nat : LoopInv(ts, i, g[n], n)}
<1>0. Len(ts) \in Nat /\ i \in Nat \ {0}
  BY DEF IsText, Positions
<1>1. /\ g[0] = FirstTerm(terms[i])
      /\ \A n \in Nat : g[n] \in LoopStates(ts, N) /\ g[n + 1] = NextTerm(ts, terms, g[n])
  <2>1. LoopOf(ts, terms, N, i, g)
    BY <1>0, RoundsFollow
  <2> HIDE DEF g
  <2> QED BY <2>1 DEF LoopOf
<1>2. \A n \in Nat : g[n] \in LoopStates(ts, N) /\ g[n + 1] = NextTerm(ts, terms, g[n])
  <2> HIDE DEF g
  <2> QED BY <1>1
<1> HIDE DEF g
<1>3. 0 \in S
  <2> DEFINE s == g[0]
             term == terms[i]
  <2>1. term \in Results(ts, i, N)
    OBVIOUS
  <2>2. s = FirstTerm(term)
    BY <1>1
  <2> HIDE DEF s, term
  <2>3. \/ term.ok /\ s.state = "open" /\ s.op = "" /\ s.children = <<term.node>> /\ s.pos = term.pos
        \/ ~term.ok /\ s.state = "failed"
    BY <2>1, <2>2, FirstCases
  <2>4. term.ok => term.pos \in Nat /\ i < term.pos
    BY <1>0, <2>1, ResultParts DEF Positions
  <2>5. LoopInv(ts, i, s, 0)
    <3>1. CASE term.ok
      <4>1. s.state = "open" /\ s.children = <<term.node>> /\ s.pos = term.pos
        BY <2>3, <3>1
      <4>0. s.op = ""
        BY <2>3, <3>1
      <4>2. s.children # <<>>
        BY <4>1
      <4>3. i < s.pos /\ s.pos >= 0 + 2
        BY <1>0, <2>4, <3>1, <4>1
      <4>4. Enough(s)
        BY <4>0, <4>2 DEF Enough
      <4> QED BY <4>1, <4>3, <4>4 DEF LoopInv
    <3>2. CASE ~term.ok
      BY <2>3, <3>2 DEF LoopInv
    <3> QED BY <3>1, <3>2
  <2> QED BY <2>5 DEF s
<1>4. ASSUME NEW n \in Nat, n \in S PROVE n + 1 \in S
  <2> DEFINE s == g[n]
             u == g[n + 1]
             w == ts[s.pos].value
             term == terms[s.pos + 1]
  <2>1. s \in LoopStates(ts, N) /\ u = NextTerm(ts, terms, s) /\ LoopInv(ts, i, s, n)
    BY <1>2, <1>4
  <2>2. s.pos \in Positions(ts) /\ s.children \in Seq(N)
    BY <2>1 DEF LoopStates
  <2>3. AtOperator(ts, s.pos) => term \in Results(ts, s.pos + 1, N)
    BY <1>0, <2>2, OperatorAt
  <2>4. \/ s.state # "open" /\ u = s
        \/ /\ s.state = "open" /\ ~AtOperator(ts, s.pos)
           /\ u.state = "closed" /\ u.op = s.op /\ u.children = s.children /\ u.pos = s.pos
        \/ /\ s.state = "open" /\ AtOperator(ts, s.pos) /\ MayFollow(s.op, w) /\ term.ok
           /\ u.state = "open" /\ u.op = w /\ u.children = Append(s.children, term.node) /\ u.pos = term.pos
        \/ /\ s.state = "open" /\ AtOperator(ts, s.pos) /\ ~(MayFollow(s.op, w) /\ term.ok)
           /\ u.state = "failed"
    <3> HIDE DEF s, u
    <3> QED BY <2>1, RoundCases
  <2> HIDE DEF s, u, w, term
  <2>5. LoopInv(ts, i, u, n + 1)
    <3>1. CASE s.state # "open" /\ u = s
      BY <2>1, <3>1 DEF LoopInv
    <3>2. CASE s.state = "open" /\ ~AtOperator(ts, s.pos)
      BY <2>1, <2>4, <3>2 DEF LoopInv, Enough
    <3>3. CASE s.state = "open" /\ AtOperator(ts, s.pos) /\ u.state = "open"
      <4>1. term.ok /\ u.children = Append(s.children, term.node) /\ u.pos = term.pos
        BY <2>4, <3>3
      <4>2. term.node \in N /\ term.pos \in Positions(ts) /\ s.pos + 1 < term.pos
        BY <2>3, <3>3, <4>1, ResultParts
      <4>3. u.children # <<>> /\ Len(u.children) >= 2
        <5>1. s.children # <<>>
          BY <2>1, <3>3 DEF LoopInv, Enough
        <5> DEFINE c == s.children
                   x == term.node
        <5>2. c \in Seq(N) /\ c # <<>> /\ x \in N
          BY <2>2, <4>2, <5>1
        <5> HIDE DEF c, x
        <5>3. Append(c, x) # <<>> /\ Len(Append(c, x)) >= 2
          BY <5>2
        <5> QED BY <4>1, <5>3 DEF c, x
      <4>4. s.pos >= n + 2 /\ i < s.pos
        BY <2>1, <3>3 DEF LoopInv
      <4>5. term.pos \in Nat /\ s.pos \in Nat
        BY <1>0, <2>2, <4>2 DEF Positions
      <4>6. u.pos >= (n + 1) + 2 /\ i < u.pos
        BY <1>0, <4>1, <4>2, <4>4, <4>5
      <4>7. Enough(u)
        BY <4>3 DEF Enough
      <4> QED BY <3>3, <4>6, <4>7 DEF LoopInv
    <3>4. CASE u.state = "failed"
      BY <3>4 DEF LoopInv
    <3> QED BY <2>4, <3>1, <3>2, <3>3, <3>4
  <2> QED BY <2>5 DEF u
<1>5. \A n \in Nat : n \in S
  <2> HIDE DEF S
  <2> QED BY <1>3, <1>4, Induction
<1> QED BY <1>5 DEF g

\* There are rounds enough.
LEMMA LoopEnds ==
  ASSUME NEW ts, IsText(ts), NEW N, NEW terms,
         \A k \in Positions(ts) : terms[k] \in Results(ts, k, N),
         NEW i \in Positions(ts)
  PROVE  Rounds(ts, terms, i)[Len(ts)].state # "open"
<1> DEFINE s == Rounds(ts, terms, i)[Len(ts)]
<1>1. Len(ts) \in Nat
  BY DEF IsText
<1>2. s \in LoopStates(ts, N)
  BY <1>1, RoundsFollow DEF LoopOf
<1>3. LoopInv(ts, i, s, Len(ts))
  BY <1>1, LoopMovesOn
<1> HIDE DEF s
<1>4. s.pos \in Nat /\ s.pos <= Len(ts) + 1
  <2>1. s.pos \in Positions(ts)
    BY <1>2 DEF LoopStates
  <2> QED BY <1>1, <2>1 DEF Positions
<1>5. s.state # "open"
  BY <1>1, <1>3, <1>4 DEF LoopInv
<1> QED BY <1>5 DEF s

\* Cuts, from the first one on.
LEMMA FirstCut ==
  ASSUME NEW T, NEW i \in Nat, NEW j \in Nat, T[i][j]
  PROVE  Cuts(T, {}, i, j)
<1>1. (i - 1) + 1 = i /\ (j + 1) - 1 = j
  OBVIOUS
<1> QED BY <1>1 DEF Cuts

\* One cut more: the operator at p, and the term behind it.
LEMMA OneCutMore ==
  ASSUME NEW T, NEW i \in Nat, NEW p \in Nat, NEW q \in Nat, i < p, p < q,
         NEW cuts, cuts \subseteq i .. p - 1,
         Cuts(T, cuts, i, p - 1), T[p + 1][q - 1]
  PROVE  Cuts(T, cuts \cup {p}, i, q - 1)
<1>0. (p - 1) + 1 = p /\ (q - 1) + 1 = q /\ i - 1 \in Int
  OBVIOUS
<1>1. SUFFICES ASSUME NEW a \in cuts \cup {p} \cup {i - 1}, NEW b \in cuts \cup {p} \cup {q},
                      a < b, \A c \in cuts \cup {p} : c <= a \/ b <= c
               PROVE  T[a + 1][b - 1]
  BY <1>0 DEF Cuts
<1>2. a \in Int /\ b \in Int
  BY <1>0
<1>3. CASE a = p
  <2>1. b = q
    BY <1>1, <1>3
  <2> QED BY <1>3, <2>1
<1>4. CASE a # p
  <2>1. a \in cuts \cup {i - 1} /\ a < p
    BY <1>4
  <2>2. b <= p
    BY <1>1, <1>2, <2>1
  <2>3. b \in cuts \cup {p}
    BY <2>2
  <2>4. \A c \in cuts : c <= a \/ b <= c
    BY <1>1
  <2>5. Cuts(T, cuts, i, p - 1) <=>
          \A x \in cuts \cup {i - 1}, y \in cuts \cup {p} :
            x < y /\ (\A c \in cuts : c <= x \/ y <= c) => T[x + 1][y - 1]
    BY <1>0 DEF Cuts
  <2> QED BY <1>1, <2>1, <2>3, <2>4, <2>5
<1> QED BY <1>3, <1>4

\* Behind every cut but the last there is a next one.
LEMMA NextCut ==
  ASSUME NEW T, NEW i \in Nat \ {0}, NEW j \in Nat, NEW cuts, cuts \subseteq i .. j, Cuts(T, cuts, i, j),
         NEW a \in cuts \cup {i - 1}, a < j + 1
  PROVE  \E b \in cuts \cup {j + 1} : a < b /\ T[a + 1][b - 1]
<1> DEFINE B == {b \in cuts \cup {j + 1} : a < b}
<1>1. B \subseteq Nat /\ j + 1 \in B /\ a \in Int
  <2>1. cuts \cup {j + 1} \subseteq Nat /\ a \in Int
    OBVIOUS
  <2> QED BY <2>1
<1> HIDE DEF B
<1>2. PICK b \in B : \A y \in B : b <= y
  BY <1>1, Least
<1>3. b \in cuts \cup {j + 1} /\ a < b /\ b \in Nat
  BY <1>1 DEF B
<1>4. ASSUME NEW c \in cuts PROVE c <= a \/ b <= c
  <2>1. c \in Int
    OBVIOUS
  <2>2. CASE a < c
    <3>1. c \in B
      BY <2>2 DEF B
    <3> QED BY <1>2, <3>1
  <2>3. CASE ~(a < c)
    BY <1>1, <2>1, <2>3
  <2> QED BY <2>2, <2>3
<1>5. T[a + 1][b - 1]
  BY <1>3, <1>4 DEF Cuts
<1> QED BY <1>3, <1>5

\* The terms parsed are those of the grammar.
TermsFollow(ts, terms, N, T) ==
  \A i \in Positions(ts) :
    /\ terms[i] \in Results(ts, i, N)
    /\ \A j \in 0 .. Len(ts) : terms[i].ok /\ terms[i].pos = j + 1 <=> T[i][j]

\* The expressions parsed are those of the grammar behind which no operator follows.
ExprsFollow(ts, exprs, N, E) ==
  \A i \in Positions(ts) :
    /\ exprs[i] \in Results(ts, i, N)
    /\ \A j \in i - 1 .. Len(ts) : exprs[i].ok /\ exprs[i].pos = j + 1 <=> E[i][j] /\ ~AtOperator(ts, j + 1)

\* The operator at which a round goes on is a word of the text.
LEMMA OperatorWord ==
  ASSUME NEW ts, IsText(ts), NEW p \in Positions(ts)
  PROVE  /\ AtOperator(ts, p) => ts[p] = Word(ts[p].value) /\ ts[p].value \in Operators /\ p \in 1 .. Len(ts)
         /\ \A w \in Operators : p \in 1 .. Len(ts) /\ ts[p] = Word(w) => AtOperator(ts, p) /\ ts[p].value = w
<1>1. Len(ts) \in Nat /\ p \in Nat \ {0} /\ \A k \in 1 .. Len(ts) : ts[k] \in Tokens
  BY DEF IsText, Positions
<1>2. ASSUME AtOperator(ts, p)
      PROVE  ts[p] = Word(ts[p].value) /\ ts[p].value \in Operators /\ p \in 1 .. Len(ts)
  <2>1. p \in 1 .. Len(ts) /\ ts[p].kind = "ident" /\ ts[p].value \in Operators
    BY <1>1, <1>2, OperatorAt
  <2>2. ts[p] \in Tokens
    BY <1>1, <2>1
  <2> QED BY <2>1, <2>2, TokenParts
<1>3. ASSUME NEW w \in Operators, p \in 1 .. Len(ts), ts[p] = Word(w)
      PROVE  AtOperator(ts, p) /\ ts[p].value = w
  <2>1. Peek(ts, p) = ts[p]
    BY <1>1, <1>3 DEF Peek
  <2> QED BY <1>3, <2>1 DEF AtOperator, Word, Token
<1> QED BY <1>2, <1>3

\* The terms so far are what cuts at the operators so far leave.
CutSoFar(ts, T, i, s) ==
  \E w \in Operators : \E cuts \in SUBSET {k \in i .. s.pos - 1 : ts[k] = Word(w)} :
    /\ Cuts(T, cuts, i, s.pos - 1)
    /\ s.op = "" => cuts = {}
    /\ s.op # "" => s.op = w

\* What the loop has consumed is cut at its operator into terms.
LEMMA LoopIsSound ==
  ASSUME NEW ts, IsText(ts), NEW N, NEW terms, NEW T, TermsFollow(ts, terms, N, T),
         NEW i \in Positions(ts)
  PROVE  \A n \in Nat : LET s == Rounds(ts, terms, i)[n] IN s.state # "failed" => CutSoFar(ts, T, i, s)
<1> DEFINE g == Rounds(ts, terms, i)
           S == {n \in Nat : g[n].state # "failed" => CutSoFar(ts, T, i, g[n])}
<1>0. Len(ts) \in Nat /\ i \in Nat \ {0}
  BY DEF IsText, Positions
<1>r. \A k \in Positions(ts) : terms[k] \in Results(ts, k, N)
  BY DEF TermsFollow
<1>t. \A k \in Positions(ts), p \in Positions(ts) : terms[k].ok /\ terms[k].pos = p => T[k][p - 1]
  <2> TAKE k \in Positions(ts), p \in Positions(ts)
  <2> HAVE terms[k].ok /\ terms[k].pos = p
  <2>1. p - 1 \in 0 .. Len(ts) /\ p = (p - 1) + 1
    BY <1>0 DEF Positions
  <2> QED BY <2>1 DEF TermsFollow
<1>1. LoopOf(ts, terms, N, i, g)
  BY <1>0, <1>r, RoundsFollow
<1>2. \A n \in Nat : LoopInv(ts, i, g[n], n)
  BY <1>r, LoopMovesOn
<1> HIDE DEF g
<1>3. 0 \in S
  <2> DEFINE s == g[0]
             term == terms[i]
  <2>1. term \in Results(ts, i, N) /\ s = FirstTerm(term)
    BY <1>r, <1>1 DEF LoopOf
  <2>2. term.ok /\ term.pos \in Positions(ts) => T[i][term.pos - 1]
    BY <1>t
  <2> HIDE DEF s, term
  <2>3. \/ term.ok /\ s.state = "open" /\ s.op = "" /\ s.pos = term.pos
        \/ ~term.ok /\ s.state = "failed"
    BY <2>1, FirstCases
  <2>4. ASSUME term.ok PROVE CutSoFar(ts, T, i, s)
    <3>1. s.op = "" /\ s.pos = term.pos /\ term.pos \in Positions(ts)
      BY <2>1, <2>3, <2>4, ResultParts
    <3>2. s.pos - 1 \in Nat
      <4>1. s.pos \in Positions(ts)
        BY <3>1
      <4> QED BY <1>0, <4>1 DEF Positions
    <3>3. Cuts(T, {}, i, s.pos - 1)
      BY <1>0, <2>2, <2>4, <3>1, <3>2, FirstCut
    <3>4. "and" \in Operators /\ {} \in SUBSET {k \in i .. s.pos - 1 : ts[k] = Word("and")}
      BY DEF Operators
    <3> QED BY <3>1, <3>3, <3>4 DEF CutSoFar
  <2>5. s.state # "failed" => CutSoFar(ts, T, i, s)
    BY <2>3, <2>4
  <2> QED BY <2>5 DEF s
<1>4. ASSUME NEW n \in Nat, n \in S PROVE n + 1 \in S
  <2> DEFINE s == g[n]
             u == g[n + 1]
             w == ts[s.pos].value
             term == terms[s.pos + 1]
  <2>1. s \in LoopStates(ts, N) /\ u = NextTerm(ts, terms, s) /\ LoopInv(ts, i, s, n)
        /\ (s.state # "failed" => CutSoFar(ts, T, i, s))
    BY <1>1, <1>2, <1>4 DEF LoopOf
  <2>2. s.pos \in Positions(ts) /\ s.pos \in Nat
    <3>1. s.pos \in Positions(ts)
      BY <2>1 DEF LoopStates
    <3> QED BY <1>0, <3>1 DEF Positions
  <2>3. AtOperator(ts, s.pos) => s.pos + 1 \in Positions(ts)
    BY <1>0, <2>2, OperatorAt
  <2>4. \/ s.state # "open" /\ u = s
        \/ /\ s.state = "open" /\ ~AtOperator(ts, s.pos)
           /\ u.state = "closed" /\ u.op = s.op /\ u.children = s.children /\ u.pos = s.pos
        \/ /\ s.state = "open" /\ AtOperator(ts, s.pos) /\ MayFollow(s.op, w) /\ term.ok
           /\ u.state = "open" /\ u.op = w /\ u.children = Append(s.children, term.node) /\ u.pos = term.pos
        \/ /\ s.state = "open" /\ AtOperator(ts, s.pos) /\ ~(MayFollow(s.op, w) /\ term.ok)
           /\ u.state = "failed"
    <3> HIDE DEF s, u
    <3> QED BY <1>r, <2>1, RoundCases
  <2> HIDE DEF s, u, w
  <2>5. u.state # "failed" => CutSoFar(ts, T, i, u)
    <3>1. CASE s.state # "open" /\ u = s
      BY <2>1, <3>1
    <3>2. CASE s.state = "open" /\ ~AtOperator(ts, s.pos)
      <4>1. u.op = s.op /\ u.pos = s.pos
        BY <2>4, <3>2
      <4> QED BY <2>1, <3>2, <4>1 DEF CutSoFar
    <3>3. CASE s.state = "open" /\ AtOperator(ts, s.pos) /\ u.state = "open"
      <4>1. MayFollow(s.op, w) /\ term.ok /\ u.op = w /\ u.pos = term.pos
        BY <2>4, <3>3
      <4>2. s.pos + 1 \in Positions(ts) /\ term \in Results(ts, s.pos + 1, N)
        BY <1>r, <2>3, <3>3
      <4>3. term.pos \in Positions(ts) /\ s.pos + 1 < term.pos
        BY <4>1, <4>2, ResultParts
      <4>4. u.pos \in Nat /\ s.pos < u.pos /\ i < s.pos
        <5>1. term.pos \in Nat
          BY <1>0, <4>3 DEF Positions
        <5> QED BY <2>1, <2>2, <3>3, <4>1, <4>3, <5>1 DEF LoopInv
      <4>5. T[s.pos + 1][u.pos - 1]
        BY <1>t, <4>1, <4>2, <4>3
      <4>6. ts[s.pos] = Word(w) /\ w \in Operators
        BY <2>2, <3>3, OperatorWord DEF w
      <4>v. PICK v \in Operators : \E cuts \in SUBSET {k \in i .. s.pos - 1 : ts[k] = Word(v)} :
               /\ Cuts(T, cuts, i, s.pos - 1)
               /\ s.op = "" => cuts = {}
               /\ s.op # "" => s.op = v
        BY <2>1, <3>3 DEF CutSoFar
      <4>7. PICK cuts \in SUBSET {k \in i .. s.pos - 1 : ts[k] = Word(v)} :
               /\ Cuts(T, cuts, i, s.pos - 1)
               /\ s.op = "" => cuts = {}
               /\ s.op # "" => s.op = v
        BY <4>v
      <4>8. cuts \subseteq i .. s.pos - 1 /\ \A k \in cuts : ts[k] = Word(w)
        BY <4>1, <4>7 DEF MayFollow
      <4>9. Cuts(T, cuts \cup {s.pos}, i, u.pos - 1)
        BY <1>0, <2>2, <4>4, <4>5, <4>7, <4>8, OneCutMore
      <4>10. cuts \cup {s.pos} \in SUBSET {k \in i .. u.pos - 1 : ts[k] = Word(w)}
        <5> DEFINE K == cuts \cup {s.pos}
                   p == s.pos
                   q == u.pos
        <5>1. p \in Nat /\ q \in Nat /\ p < q /\ i < p
          BY <2>2, <4>4
        <5>2. \A k \in K : ts[k] = Word(w)
          BY <4>6, <4>8
        <5>3. cuts \subseteq i .. p - 1
          BY <4>8
        <5> HIDE DEF p, q
        <5>4. p \in i .. q - 1 /\ i .. p - 1 \subseteq i .. q - 1
          BY <1>0, <5>1
        <5>5. K \subseteq i .. q - 1
          BY <5>3, <5>4 DEF p
        <5> HIDE DEF K
        <5>6. K \in SUBSET {k \in i .. q - 1 : ts[k] = Word(w)}
          BY <5>2, <5>5
        <5> QED BY <5>6 DEF K, q
      <4>11. u.op # "" /\ u.op = w
        BY <4>1, <4>6 DEF Operators
      <4> QED BY <4>6, <4>9, <4>10, <4>11 DEF CutSoFar
    <3> QED BY <2>4, <3>1, <3>2, <3>3
  <2> QED BY <2>5 DEF u
<1>5. \A n \in Nat : n \in S
  <2> HIDE DEF S
  <2> QED BY <1>3, <1>4, Induction
<1> QED BY <1>5 DEF g

\* Between the cuts of an expression the loop goes from one cut to the next, and ends behind it.
AtCut(s, w, cuts, j) ==
  \/ s.state = "open" /\ s.op \in {"", w} /\ s.pos \in cuts \cup {j + 1}
  \/ s.state = "closed" /\ s.pos = j + 1

\* A text that can be cut is consumed cut by cut.
LEMMA LoopIsComplete ==
  ASSUME NEW ts, IsText(ts), NEW N, NEW terms, NEW T, TermsFollow(ts, terms, N, T),
         NEW i \in Positions(ts), NEW j \in i - 1 .. Len(ts), ~AtOperator(ts, j + 1),
         NEW w \in Operators, NEW cuts \in SUBSET {k \in i .. j : ts[k] = Word(w)}, Cuts(T, cuts, i, j)
  PROVE  \A n \in Nat : AtCut(Rounds(ts, terms, i)[n], w, cuts, j)
<1> DEFINE g == Rounds(ts, terms, i)
           S == {n \in Nat : AtCut(g[n], w, cuts, j)}
<1>0. Len(ts) \in Nat /\ i \in Nat \ {0} /\ j \in Nat /\ i <= j + 1 /\ j <= Len(ts)
  <2>1. Len(ts) \in Nat /\ i \in Nat \ {0}
    BY DEF IsText, Positions
  <2> QED BY <2>1
<1>r. \A k \in Positions(ts) : terms[k] \in Results(ts, k, N)
  BY DEF TermsFollow
<1>c. cuts \subseteq i .. j /\ \A k \in cuts : ts[k] = Word(w)
  OBVIOUS
<1>t. ASSUME NEW a \in cuts \cup {i - 1}
      PROVE  terms[a + 1].ok /\ terms[a + 1].pos \in cuts \cup {j + 1}
  <2>1. a \in Int /\ a < j + 1 /\ a + 1 \in 1 .. Len(ts) + 1
    BY <1>0, <1>c
  <2>2. PICK b \in cuts \cup {j + 1} : a < b /\ T[a + 1][b - 1]
    BY <1>0, <1>c, <2>1, NextCut
  <2>3. b - 1 \in 0 .. Len(ts) /\ (b - 1) + 1 = b
    <3>1. b \in Nat /\ b >= 1 /\ b <= j + 1
      BY <1>0, <1>c
    <3> QED BY <1>0, <3>1
  <2>4. a + 1 \in Positions(ts)
    BY <2>1 DEF Positions
  <2>5. terms[a + 1].ok /\ terms[a + 1].pos = (b - 1) + 1
    BY <2>2, <2>3, <2>4 DEF TermsFollow
  <2> QED BY <2>3, <2>5
<1>1. LoopOf(ts, terms, N, i, g)
  BY <1>0, <1>r, RoundsFollow
<1> HIDE DEF g
<1>2. 0 \in S
  <2> DEFINE s == g[0]
             term == terms[i]
  <2>1. term \in Results(ts, i, N) /\ s = FirstTerm(term)
    BY <1>r, <1>1 DEF LoopOf
  <2>2. term.ok /\ term.pos \in cuts \cup {j + 1}
    <3>1. i - 1 \in cuts \cup {i - 1} /\ (i - 1) + 1 = i
      BY <1>0
    <3>2. terms[(i - 1) + 1].ok /\ terms[(i - 1) + 1].pos \in cuts \cup {j + 1}
      BY <1>t
    <3> QED BY <3>1, <3>2
  <2> HIDE DEF s, term
  <2>3. s.state = "open" /\ s.op = "" /\ s.pos = term.pos
    BY <2>1, <2>2, FirstCases
  <2>4. AtCut(s, w, cuts, j)
    BY <2>2, <2>3 DEF AtCut
  <2> QED BY <2>4 DEF s
<1>3. ASSUME NEW n \in Nat, n \in S PROVE n + 1 \in S
  <2> DEFINE s == g[n]
             u == g[n + 1]
             v == ts[s.pos].value
             term == terms[s.pos + 1]
  <2>1. s \in LoopStates(ts, N) /\ u = NextTerm(ts, terms, s) /\ AtCut(s, w, cuts, j)
    BY <1>1, <1>3 DEF LoopOf
  <2>2. s.pos \in Positions(ts) /\ s.pos \in Nat
    <3>1. s.pos \in Positions(ts)
      BY <2>1 DEF LoopStates
    <3> QED BY <1>0, <3>1 DEF Positions
  <2>4. \/ s.state # "open" /\ u = s
        \/ /\ s.state = "open" /\ ~AtOperator(ts, s.pos)
           /\ u.state = "closed" /\ u.op = s.op /\ u.children = s.children /\ u.pos = s.pos
        \/ /\ s.state = "open" /\ AtOperator(ts, s.pos) /\ MayFollow(s.op, v) /\ term.ok
           /\ u.state = "open" /\ u.op = v /\ u.children = Append(s.children, term.node) /\ u.pos = term.pos
        \/ /\ s.state = "open" /\ AtOperator(ts, s.pos) /\ ~(MayFollow(s.op, v) /\ term.ok)
           /\ u.state = "failed"
    <3> HIDE DEF s, u
    <3> QED BY <1>r, <2>1, RoundCases
  <2> HIDE DEF s, u
  <2>5. AtCut(u, w, cuts, j)
    <3>1. CASE s.state # "open" /\ u = s
      BY <2>1, <3>1
    <3>2. CASE s.state = "open" /\ s.pos \in cuts
      <4>1. s.pos \in 1 .. Len(ts) /\ ts[s.pos] = Word(w)
        <5>1. i .. j \subseteq 1 .. Len(ts)
          BY <1>0
        <5> QED BY <1>c, <3>2, <5>1
      <4>2. AtOperator(ts, s.pos) /\ v = w
        BY <2>2, <4>1, OperatorWord
      <4>3. MayFollow(s.op, v)
        BY <2>1, <3>2, <4>2 DEF AtCut, MayFollow
      <4>4. term.ok /\ term.pos \in cuts \cup {j + 1}
        BY <1>t, <3>2
      <4> HIDE DEF v, term
      <4>5. u.state = "open" /\ u.op = v /\ u.pos = term.pos
        BY <2>4, <3>2, <4>2, <4>3, <4>4
      <4> QED BY <4>2, <4>4, <4>5 DEF AtCut
    <3>3. CASE s.state = "open" /\ s.pos \notin cuts
      <4>1. s.pos = j + 1
        BY <2>1, <3>3 DEF AtCut
      <4>2. ~AtOperator(ts, s.pos)
        BY <4>1
      <4>3. u.state = "closed" /\ u.pos = s.pos
        BY <2>4, <3>3, <4>2
      <4> QED BY <4>1, <4>3 DEF AtCut
    <3> QED BY <2>4, <3>1, <3>2, <3>3
  <2> QED BY <2>5 DEF u
<1>4. \A n \in Nat : n \in S
  <2> HIDE DEF S
  <2> QED BY <1>2, <1>3, Induction
<1> QED BY <1>4 DEF g

\* What a loop has joined is a node of one level more: one term, or two and more.
Joins(N) == {n \in BoolNode(N) : Len(n.children) >= 2}

\* The node of a loop that is closed: its only child, or an inner node of two children at least.
LEMMA JointNode ==
  ASSUME NEW ts, NEW N, NEW s \in LoopStates(ts, N), Enough(s)
  PROVE  Joint(s) \in N \cup Joins(N)
<1>1. s.children \in Seq(N) /\ s.op \in Operators \cup {""}
  BY DEF LoopStates
<1>2. CASE s.op = ""
  <2>1. s.children[1] \in N
    <3> DEFINE c == s.children
    <3>1. c \in Seq(N) /\ c # <<>>
      BY <1>1 DEF Enough
    <3> HIDE DEF c
    <3>2. c[1] \in N
      BY <3>1
    <3> QED BY <3>2 DEF c
  <2> QED BY <1>2, <2>1 DEF Joint
<1>3. CASE s.op # ""
  <2> DEFINE op == IF s.op = "and" THEN "AND" ELSE "OR"
             c == s.children
  <2>1. op \in {"AND", "OR"} /\ c \in Seq(N)
    BY <1>1
  <2>2. Joint(s) = [node |-> "BoolNode", op |-> op, children |-> c]
    BY <1>3 DEF Joint
  <2> HIDE DEF op, c
  <2>3. [node |-> "BoolNode", op |-> op, children |-> c] \in BoolNode(N)
    BY <2>1 DEF BoolNode
  <2>4. Len(c) >= 2
    BY <1>3 DEF c, Enough
  <2> DEFINE n == [node |-> "BoolNode", op |-> op, children |-> c]
  <2>5. n.children = c
    OBVIOUS
  <2> HIDE DEF n
  <2>6. n \in Joins(N)
    BY <2>3, <2>4, <2>5 DEF Joins, n
  <2> QED BY <2>2, <2>6 DEF n
<1> QED BY <1>2, <1>3

\* The expressions follow the grammar where the terms do.
LEMMA ExpressionsFollow ==
  ASSUME NEW ts, IsText(ts), NEW N, NEW terms, NEW T, TermsFollow(ts, terms, N, T)
  PROVE  ExprsFollow(ts, _parse_expr(ts, terms), N \cup Joins(N), ExprSpans(ts, T))
<1> DEFINE E == ExprSpans(ts, T)
           exprs == _parse_expr(ts, terms)
<1> SUFFICES ASSUME NEW i \in Positions(ts)
             PROVE  /\ exprs[i] \in Results(ts, i, N \cup Joins(N))
                    /\ \A j \in i - 1 .. Len(ts) : exprs[i].ok /\ exprs[i].pos = j + 1
                                                     <=> E[i][j] /\ ~AtOperator(ts, j + 1)
  BY DEF ExprsFollow
<1> DEFINE s == Rounds(ts, terms, i)[Len(ts)]
           e == exprs[i]
<1>0. Len(ts) \in Nat /\ i \in Nat \ {0}
  BY DEF IsText, Positions
<1>r. \A k \in Positions(ts) : terms[k] \in Results(ts, k, N)
  BY DEF TermsFollow
<1>1. e = IF s.state = "closed" THEN Parsed(Joint(s), s.pos) ELSE Rejected
  BY DEF _parse_expr
<1>2. s \in LoopStates(ts, N)
  BY <1>0, <1>r, RoundsFollow DEF LoopOf
<1>3. LoopInv(ts, i, s, Len(ts))
  BY <1>0, <1>r, LoopMovesOn
<1>4. s.state # "open"
  BY <1>r, LoopEnds
<1>5. s.state # "failed" => CutSoFar(ts, T, i, s)
  BY <1>0, LoopIsSound
<1>6. ASSUME NEW j \in i - 1 .. Len(ts), ~AtOperator(ts, j + 1),
             NEW w \in Operators, NEW cuts \in SUBSET {k \in i .. j : ts[k] = Word(w)}, Cuts(T, cuts, i, j)
      PROVE  AtCut(s, w, cuts, j)
  BY <1>0, <1>6, LoopIsComplete
<1>7. \A j \in i - 1 .. Len(ts) :
        E[i][j] <=> \E w \in Operators : \E cuts \in SUBSET {k \in i .. j : ts[k] = Word(w)} : Cuts(T, cuts, i, j)
  <2> TAKE j \in i - 1 .. Len(ts)
  <2>1. j \in 0 .. Len(ts)
    BY <1>0
  <2> QED BY <2>1 DEF ExprSpans
<1> HIDE DEF s, e, E
<1>8. s.pos \in Positions(ts) /\ s.pos \in Nat
  <2>1. s.pos \in Positions(ts)
    BY <1>2 DEF LoopStates
  <2> QED BY <1>0, <2>1 DEF Positions
<1>9. ASSUME s.state = "closed" PROVE e = Parsed(Joint(s), s.pos) /\ e \in Results(ts, i, N \cup Joins(N))
  <2>1. Enough(s) /\ i < s.pos
    BY <1>3, <1>9 DEF LoopInv
  <2>2. Joint(s) \in N \cup Joins(N)
    BY <1>2, <2>1, JointNode
  <2>3. e = Parsed(Joint(s), s.pos)
    BY <1>1, <1>9
  <2> QED BY <1>8, <2>1, <2>2, <2>3 DEF Parsed, Results
<1>10. e \in Results(ts, i, N \cup Joins(N))
  <2>1. s.state # "closed" => e = Rejected
    BY <1>1
  <2> QED BY <1>9, <2>1 DEF Results
<1>11. ASSUME NEW j \in i - 1 .. Len(ts), e.ok, e.pos = j + 1 PROVE E[i][j] /\ ~AtOperator(ts, j + 1)
  <2>1. s.state = "closed"
    BY <1>1, <1>11 DEF Rejected
  <2>2. s.pos = j + 1
    BY <1>9, <1>11, <2>1 DEF Parsed
  <2>3. ~AtOperator(ts, j + 1)
    BY <1>3, <2>1, <2>2 DEF LoopInv
  <2>4. s.pos - 1 = j
    BY <1>0, <2>2
  <2>5. CutSoFar(ts, T, i, s)
    BY <1>5, <2>1
  <2>6. E[i][j]
    BY <1>7, <2>4, <2>5 DEF CutSoFar
  <2> QED BY <2>3, <2>6
<1>12. ASSUME NEW j \in i - 1 .. Len(ts), E[i][j], ~AtOperator(ts, j + 1) PROVE e.ok /\ e.pos = j + 1
  <2>1. PICK w \in Operators : \E cuts \in SUBSET {k \in i .. j : ts[k] = Word(w)} : Cuts(T, cuts, i, j)
    BY <1>7, <1>12
  <2>2. PICK cuts \in SUBSET {k \in i .. j : ts[k] = Word(w)} : Cuts(T, cuts, i, j)
    BY <2>1
  <2>3. AtCut(s, w, cuts, j)
    BY <1>6, <1>12, <2>2
  <2>4. s.state = "closed" /\ s.pos = j + 1
    BY <1>4, <2>3 DEF AtCut
  <2> QED BY <1>9, <2>4 DEF Parsed
<1> QED BY <1>10, <1>11, <1>12 DEF e

------------------------------------------------------------------------------
\* The depths of the recursion, and the whole text.

\* A parenthesis begins no predicate.
LEMMA NoPredicate ==
  ASSUME NEW t, NEW i, NEW j, KindAt(t, i, "(")
  PROVE  ~IsPredicate(t, i, j)
  BY DEF IsPredicate, KindAt, WordAt

\* The terms follow the grammar where the expressions one level down do.
LEMMA TermsOfDepth ==
  ASSUME NEW ts, IsText(ts), NEW depth \in Nat, NEW M, NEW exprs, NEW E,
         depth < MAX_PAREN_DEPTH => ExprsFollow(ts, exprs, M, E)
  PROVE  TermsFollow(ts, _parse_term(ts, depth, exprs), Predicates \cup M, TermSpans(ts, depth, E))
<1> DEFINE T == TermSpans(ts, depth, E)
           terms == _parse_term(ts, depth, exprs)
<1> SUFFICES ASSUME NEW i \in Positions(ts)
             PROVE  /\ terms[i] \in Results(ts, i, Predicates \cup M)
                    /\ \A j \in 0 .. Len(ts) : terms[i].ok /\ terms[i].pos = j + 1 <=> T[i][j]
  BY DEF TermsFollow
<1> DEFINE r == terms[i]
           inner == exprs[i + 1]
<1>0. Len(ts) \in Nat /\ i \in Nat \ {0} /\ i + 1 \in Nat /\ i < i + 1
  BY DEF IsText, Positions
<1>1. Peek(ts, i) = Sign("(") <=> KindAt(ts, i, "(")
  BY <1>0, Looking DEF Signs
<1>2. TooDeep(depth) <=> ~(depth < MAX_PAREN_DEPTH)
  BY DEF TooDeep, MAX_PAREN_DEPTH
<1>3. r = IF ~KindAt(ts, i, "(") THEN _parse_predicate(ts, i)
          ELSE IF ~(depth < MAX_PAREN_DEPTH) THEN Rejected
          ELSE IF inner.ok /\ Peek(ts, inner.pos) = Sign(")") THEN Parsed(inner.node, inner.pos + 1) ELSE Rejected
  BY <1>1, <1>2 DEF _parse_term
<1>4. \A j \in 0 .. Len(ts) : T[i][j] <=>
        \/ IsPredicate(ts, i, j)
        \/ depth < MAX_PAREN_DEPTH /\ KindAt(ts, i, "(") /\ KindAt(ts, j, ")") /\ i < j /\ E[i + 1][j - 1]
  BY DEF TermSpans
<1> HIDE DEF T, r
<1>5. CASE ~KindAt(ts, i, "(")
  <2>1. r = _parse_predicate(ts, i)
    BY <1>3, <1>5
  <2>2. /\ r \in Results(ts, i, Predicates)
        /\ \A j \in Nat : r.ok /\ r.pos = j + 1 <=> IsPredicate(ts, i, j)
    BY <1>0, <2>1, PredicatesFollow
  <2>3. r \in Results(ts, i, Predicates \cup M)
    BY <2>2 DEF Results
  <2>4. \A j \in 0 .. Len(ts) : j \in Nat
    BY <1>0
  <2> QED BY <1>4, <1>5, <2>2, <2>3, <2>4 DEF r
<1>6. CASE KindAt(ts, i, "(") /\ ~(depth < MAX_PAREN_DEPTH)
  <2>1. r = Rejected
    BY <1>3, <1>6
  <2>2. \A j \in 0 .. Len(ts) : ~T[i][j]
    BY <1>4, <1>6, NoPredicate
  <2>3. r \in Results(ts, i, Predicates \cup M) /\ ~r.ok
    BY <2>1 DEF Rejected, Results
  <2> QED BY <2>2, <2>3 DEF r
<1>7. CASE KindAt(ts, i, "(") /\ depth < MAX_PAREN_DEPTH
  <2>1. i + 1 \in Positions(ts)
    BY <1>0, <1>7, TokenInText
  <2>2. /\ inner \in Results(ts, i + 1, M)
        /\ \A k \in (i + 1) - 1 .. Len(ts) : inner.ok /\ inner.pos = k + 1 <=> E[i + 1][k] /\ ~AtOperator(ts, k + 1)
    BY <1>7, <2>1 DEF ExprsFollow
  <2> HIDE DEF inner
  <2>3. inner.ok \in BOOLEAN /\ (inner.ok => inner.node \in M /\ inner.pos \in Positions(ts) /\ i + 1 < inner.pos)
    BY <2>2, ResultParts
  <2>4. ASSUME inner.ok
        PROVE  /\ inner.pos \in Nat \ {0} /\ i < inner.pos
               /\ Peek(ts, inner.pos) = Sign(")") <=> KindAt(ts, inner.pos, ")")
    <3>1. inner.pos \in Nat \ {0} /\ i < inner.pos
      <4>1. inner.pos \in Positions(ts) /\ i + 1 < inner.pos
        BY <2>3, <2>4
      <4> QED BY <1>0, <4>1 DEF Positions
    <3>2. ")" \in Signs
      BY DEF Signs
    <3> QED BY <3>1, <3>2, Looking
  <2> DEFINE closed == inner.ok /\ KindAt(ts, inner.pos, ")")
  <2>5. r = IF closed THEN Parsed(inner.node, inner.pos + 1) ELSE Rejected
    BY <1>3, <1>7, <2>3, <2>4
  <2>6. CASE closed
    <3>1. r.ok /\ r.pos = inner.pos + 1 /\ r = Parsed(inner.node, inner.pos + 1)
      BY <2>5, <2>6 DEF Parsed
    <3>2. inner.pos + 1 \in Positions(ts)
      BY <2>4, <2>6, TokenInText
    <3>3. i < inner.pos + 1
      BY <1>0, <2>4, <2>6
    <3>4. r \in Results(ts, i, Predicates \cup M)
      BY <2>3, <2>6, <3>1, <3>2, <3>3 DEF Parsed, Results
    <3>5. ASSUME NEW j \in 0 .. Len(ts), r.pos = j + 1 PROVE T[i][j]
      <4>1. inner.pos = j /\ j - 1 \in (i + 1) - 1 .. Len(ts) /\ (j - 1) + 1 = j /\ i < j
        BY <1>0, <2>4, <2>6, <3>1, <3>5
      <4>2. E[i + 1][j - 1]
        BY <2>2, <2>6, <4>1
      <4> QED BY <1>4, <1>7, <2>6, <4>1, <4>2
    <3>6. ASSUME NEW j \in 0 .. Len(ts), T[i][j] PROVE r.pos = j + 1
      <4>1. KindAt(ts, j, ")") /\ i < j /\ E[i + 1][j - 1]
        BY <1>4, <1>7, <3>6, NoPredicate
      <4>2. j \in Nat \ {0} /\ j - 1 \in (i + 1) - 1 .. Len(ts) /\ (j - 1) + 1 = j
        BY <1>0, <4>1
      <4>3. ~AtOperator(ts, j)
        <5>1. Peek(ts, j).kind = ")"
          BY <4>1, <4>2, Looking DEF Signs
        <5> QED BY <5>1 DEF AtOperator
      <4>4. inner.pos = j
        BY <2>2, <4>1, <4>2, <4>3
      <4> QED BY <3>1, <4>4
    <3> QED BY <3>1, <3>4, <3>5, <3>6 DEF r
  <2>7. CASE ~closed
    <3>1. r = Rejected /\ ~r.ok
      BY <2>5, <2>7 DEF Rejected
    <3>2. r \in Results(ts, i, Predicates \cup M)
      BY <3>1 DEF Results
    <3>3. ASSUME NEW j \in 0 .. Len(ts), T[i][j] PROVE FALSE
      <4>1. KindAt(ts, j, ")") /\ i < j /\ E[i + 1][j - 1]
        BY <1>4, <1>7, <3>3, NoPredicate
      <4>2. j \in Nat \ {0} /\ j - 1 \in (i + 1) - 1 .. Len(ts) /\ (j - 1) + 1 = j
        BY <1>0, <4>1
      <4>3. ~AtOperator(ts, j)
        <5>1. Peek(ts, j).kind = ")"
          BY <4>1, <4>2, Looking DEF Signs
        <5> QED BY <5>1 DEF AtOperator
      <4>4. inner.ok /\ inner.pos = j
        BY <2>2, <4>1, <4>2, <4>3
      <4> QED BY <2>7, <4>1, <4>4
    <3> QED BY <3>1, <3>2, <3>3 DEF r
  <2> QED BY <2>6, <2>7
<1> QED BY <1>5, <1>6, <1>7

\* One level of the recursion.
LEMMA OneLevel ==
  ASSUME NEW ts, IsText(ts), NEW depth \in Nat, NEW M, NEW exprs, NEW E,
         depth < MAX_PAREN_DEPTH => ExprsFollow(ts, exprs, M, E)
  PROVE  LET N == Predicates \cup M IN
         ExprsFollow(ts, ParsedAt(ts, depth, exprs), N \cup Joins(N), DerivedAt(ts, depth, E))
  BY TermsOfDepth, ExpressionsFollow DEF ParsedAt, DerivedAt

\* The filters that are parsed: an inner node has two operands at least.
Parsed1 == Predicates \cup Joins(Predicates)
Parsed2 == Parsed1 \cup Joins(Parsed1)
Parsed3 == Parsed2 \cup Joins(Parsed2)

\* They are filters of as many levels.
LEMMA ParsedLevels == Parsed1 \subseteq Level1 /\ Parsed2 \subseteq Level2 /\ Parsed3 \subseteq Level3
<1>1. \A M, N : M \subseteq N => Joins(M) \subseteq BoolNode(N)
  BY DEF Joins, BoolNode
<1>2. Parsed1 \subseteq Level1
  BY <1>1 DEF Parsed1, Level1
<1>3. Parsed2 \subseteq Level2
  BY <1>1, <1>2 DEF Parsed2, Level2
<1> QED BY <1>1, <1>2, <1>3 DEF Parsed3, Level3

\* _parse_expr at each depth: as many levels as are left, and the expressions of the grammar.
LEMMA LevelsFollow ==
  ASSUME NEW ts, IsText(ts)
  PROVE  /\ ExprsFollow(ts, Depth2(ts), Parsed1, Derived2(ts))
         /\ ExprsFollow(ts, Depth1(ts), Parsed2, Derived1(ts))
         /\ ExprsFollow(ts, ParsedAt(ts, 0, Depth1(ts)), Parsed3, DerivedAt(ts, 0, Derived1(ts)))
<1>1. 0 \in Nat /\ 1 \in Nat /\ 2 \in Nat /\ ~(2 < MAX_PAREN_DEPTH)
  BY DEF MAX_PAREN_DEPTH
<1>2. /\ (Predicates \cup {}) \cup Joins(Predicates \cup {}) = Parsed1
      /\ (Predicates \cup Parsed1) \cup Joins(Predicates \cup Parsed1) = Parsed2
      /\ (Predicates \cup Parsed2) \cup Joins(Predicates \cup Parsed2) = Parsed3
  <2>1. Predicates \cup {} = Predicates /\ Predicates \cup Parsed1 = Parsed1 /\ Predicates \cup Parsed2 = Parsed2
    BY DEF Parsed1, Parsed2
  <2> QED BY <2>1 DEF Parsed1, Parsed2, Parsed3
<1> DEFINE none == [i \in Positions(ts) |-> [j \in 0 .. Len(ts) |-> FALSE]]
<1>3. ExprsFollow(ts, ParsedAt(ts, 2, Depth3(ts)), (Predicates \cup {}) \cup Joins(Predicates \cup {}),
                  DerivedAt(ts, 2, none))
  <2> HIDE DEF none
  <2> QED BY <1>1, OneLevel
<1>4. ExprsFollow(ts, Depth2(ts), Parsed1, Derived2(ts))
  BY <1>2, <1>3 DEF Depth2, Derived2
<1>5. ExprsFollow(ts, ParsedAt(ts, 1, Depth2(ts)), (Predicates \cup Parsed1) \cup Joins(Predicates \cup Parsed1),
                  DerivedAt(ts, 1, Derived2(ts)))
  BY <1>1, <1>4, OneLevel
<1>6. ExprsFollow(ts, Depth1(ts), Parsed2, Derived1(ts))
  BY <1>2, <1>5 DEF Depth1, Derived1
<1>7. ExprsFollow(ts, ParsedAt(ts, 0, Depth1(ts)), (Predicates \cup Parsed2) \cup Joins(Predicates \cup Parsed2),
                  DerivedAt(ts, 0, Derived1(ts)))
  BY <1>1, <1>6, OneLevel
<1> QED BY <1>2, <1>4, <1>6, <1>7

\* parse_filter: a text is accepted if and only if the grammar derives it.
LEMMA WholeText ==
  ASSUME NEW t \in Seq(Tokens)
  PROVE  /\ parse_filter(t).ok <=> InGrammar(t)
         /\ parse_filter(t).ok => parse_filter(t).node \in Parsed3 \cup {Empty}
<1> DEFINE f == parse_filter(t)
           whole == ParsedAt(t, 0, Depth1(t))[1]
           E == DerivedAt(t, 0, Derived1(t))
<1>1. CASE t = <<>>
  <2>1. f = Parsed(Empty, 1) /\ InGrammar(t)
    BY <1>1 DEF parse_filter, InGrammar
  <2> HIDE DEF f
  <2>2. f.ok /\ f.node \in Parsed3 \cup {Empty}
    BY <2>1 DEF Parsed
  <2> QED BY <2>1, <2>2 DEF f
<1>2. CASE t # <<>>
  <2>1. IsText(t)
    BY TextOf
  <2>2. Len(t) \in Nat \ {0}
    BY <1>2
  <2>3. 1 \in Positions(t) /\ Len(t) \in 1 - 1 .. Len(t)
    BY <2>2 DEF Positions
  <2>4. /\ whole \in Results(t, 1, Parsed3)
        /\ \A j \in 1 - 1 .. Len(t) : whole.ok /\ whole.pos = j + 1 <=> E[1][j] /\ ~AtOperator(t, j + 1)
    <3>1. ExprsFollow(t, ParsedAt(t, 0, Depth1(t)), Parsed3, E)
      BY <2>1, LevelsFollow
    <3> QED BY <2>3, <3>1 DEF ExprsFollow
  <2>5. f = IF whole.ok /\ whole.pos = Len(t) + 1 THEN whole ELSE Rejected
    BY <1>2 DEF parse_filter
  <2>6. InGrammar(t) <=> E[1][Len(t)]
    BY <1>2 DEF InGrammar
  <2>7. ~AtOperator(t, Len(t) + 1)
    <3>1. Peek(t, Len(t) + 1) = Eof
      BY <2>2 DEF Peek
    <3>2. Eof.kind = "eof"
      BY DEF Eof, Token
    <3> QED BY <3>1, <3>2 DEF AtOperator
  <2> HIDE DEF f, whole, E
  <2>8. f.ok <=> whole.ok /\ whole.pos = Len(t) + 1
    BY <2>5 DEF Rejected
  <2>9. f.ok => f.node \in Parsed3 \cup {Empty}
    <3>1. f.ok => f = whole /\ whole.node \in Parsed3
      BY <2>4, <2>5, <2>8, ResultParts
    <3> QED BY <3>1
  <2> QED BY <2>3, <2>4, <2>6, <2>7, <2>8, <2>9 DEF f
<1> QED BY <1>1, <1>2

\* parse_filter, for every sequence of tokens: it is accepted if and only if the grammar derives
\* it, operators of one kind per level and two levels of parentheses included, and the filter
\* has three levels at most.
THEOREM EveryTextIsParsed ==
  \A t \in Seq(Tokens) : LET whole == parse_filter(t) IN
    (whole.ok <=> InGrammar(t)) /\ (whole.ok => whole.node \in FilterAst)
<1> TAKE t \in Seq(Tokens)
<1>1. Parsed3 \cup {Empty} \subseteq FilterAst
  BY ParsedLevels DEF FilterAst
<1> QED BY <1>1, WholeText

------------------------------------------------------------------------------
\* The texts of the specification.

TypedText == text \in Seq(Tokens)

\* Signs, words and quoted literals are tokens.
LEMMA TokensAre ==
  /\ \A c \in Signs : Sign(c) \in Tokens
  /\ \A w \in Identifiers : Word(w) \in Tokens
  /\ \A v \in Literals : Quoted(v) \in Tokens
  BY DEF Tokens, Sign, Word, Quoted, Token

\* The form of a list is a text.
LEMMA ListTokens ==
  ASSUME NEW values \in Seq(Literals) \ {<<>>}
  PROVE  List(values) \in Seq(Tokens)
<1> DEFINE m == 2 * Len(values) - 1
           token(k) == IF k % 2 = 1 THEN Quoted(values[(k + 1) \div 2]) ELSE Sign(",")
<1>1. Len(values) \in Nat \ {0} /\ m \in Nat
  OBVIOUS
<1>2. ASSUME NEW k \in 1 .. m PROVE token(k) \in Tokens
  <2>1. CASE k % 2 = 1
    <3>1. (k + 1) \div 2 \in 1 .. Len(values)
      BY <1>1, <2>1
    <3>2. values[(k + 1) \div 2] \in Literals
      BY <3>1
    <3> QED BY <2>1, <3>2, TokensAre
  <2>2. CASE k % 2 # 1
    BY <2>2, TokensAre DEF Signs
  <2> QED BY <2>1, <2>2
<1>3. List(values) = [k \in 1 .. m |-> token(k)]
  BY DEF List
<1> HIDE DEF m, token
<1> QED BY <1>1, <1>2, <1>3

\* Sequences of a few members.
LEMMA ShortTexts ==
  ASSUME NEW A, NEW a \in A, NEW b \in A, NEW c \in A, NEW d \in A
  PROVE  <<a>> \in Seq(A) /\ <<a, b, c>> \in Seq(A) /\ <<a, b, c, d>> \in Seq(A)
  OBVIOUS

\* Three sequences in a row.
LEMMA JoinedTexts ==
  ASSUME NEW A, NEW a \in Seq(A), NEW b \in Seq(A), NEW c \in Seq(A)
  PROVE  a \o b \o c \in Seq(A)
  OBVIOUS

\* The form of a predicate is a text.
LEMMA PredicateTokens ==
  ASSUME NEW n \in Predicates
  PROVE  _format_predicate(n) \in Seq(Tokens)
<1> DEFINE f == _format_predicate(n)
<1>1. /\ {Sign("="), Sign("!="), Sign("("), Sign(")")} \subseteq Tokens
      /\ {Word("in"), Word("not"), Word("true"), Word("false")} \subseteq Tokens
      /\ \A c \in ScalarColumns \cup ArrayColumns \cup BoolColumns : Word(c) \in Tokens
  <2>1. {"=", "!=", "(", ")"} \subseteq Signs
    BY DEF Signs
  <2>2. /\ {"in", "not", "true", "false"} \subseteq Identifiers
        /\ ScalarColumns \cup ArrayColumns \cup BoolColumns \subseteq Identifiers
    BY DEF Identifiers, Keywords
  <2>3. \A c \in ScalarColumns \cup ArrayColumns \cup BoolColumns : Word(c) \in Tokens
    BY <2>2, TokensAre
  <2>4. {Word("in"), Word("not"), Word("true"), Word("false")} \subseteq Tokens
    BY <2>2, TokensAre
  <2>5. {Sign("="), Sign("!="), Sign("("), Sign(")")} \subseteq Tokens
    BY <2>1, TokensAre
  <2> QED BY <2>3, <2>4, <2>5
<1>2. CASE n \in [node : {"Equals", "NotEquals"}, column : ScalarColumns, value : Literals]
  <2>1. Word(n.column) \in Tokens /\ Quoted(n.value) \in Tokens /\ n.node \in {"Equals", "NotEquals"}
    BY <1>1, <1>2, TokensAre
  <2>2. n.node = "Equals" => f = <<Word(n.column), Sign("="), Quoted(n.value)>>
    BY DEF _format_predicate
  <2>3. n.node = "NotEquals" => f = <<Word(n.column), Sign("!="), Quoted(n.value)>>
    BY DEF _format_predicate
  <2> HIDE DEF f
  <2>4. f \in Seq(Tokens)
    <3>1. CASE n.node = "Equals"
      BY <1>1, <2>1, <2>2, <3>1, ShortTexts, ZenonT(60)
    <3>2. CASE n.node = "NotEquals"
      BY <1>1, <2>1, <2>3, <3>2, ShortTexts, ZenonT(60)
    <3> QED BY <2>1, <3>1, <3>2
  <2> QED BY <2>4 DEF f
<1>3. CASE n \in [node : {"InList", "NotInList"}, column : ScalarColumns, values : Seq(Literals) \ {<<>>}]
  <2> DEFINE l == List(n.values)
  <2>1. Word(n.column) \in Tokens /\ n.node \in {"InList", "NotInList"}
    BY <1>1, <1>3
  <2>2. n.values \in Seq(Literals) \ {<<>>}
    BY <1>3
  <2>3. l \in Seq(Tokens)
    BY <2>2, ListTokens
  <2>4. n.node = "InList" => f = <<Word(n.column), Word("in"), Sign("(")>> \o l \o <<Sign(")")>>
    BY DEF _format_predicate
  <2>5. n.node = "NotInList" => f = <<Word(n.column), Word("not"), Word("in"), Sign("(")>> \o l \o <<Sign(")")>>
    BY DEF _format_predicate
  <2> HIDE DEF l, f
  <2>6. /\ <<Word(n.column), Word("in"), Sign("(")>> \in Seq(Tokens) /\ <<Sign(")")>> \in Seq(Tokens)
        /\ <<Word(n.column), Word("not"), Word("in"), Sign("(")>> \in Seq(Tokens)
    BY <1>1, <2>1, ShortTexts
  <2>7. f \in Seq(Tokens)
    <3>1. /\ <<Word(n.column), Word("in"), Sign("(")>> \o l \o <<Sign(")")>> \in Seq(Tokens)
          /\ <<Word(n.column), Word("not"), Word("in"), Sign("(")>> \o l \o <<Sign(")")>> \in Seq(Tokens)
      BY <2>3, <2>6, JoinedTexts
    <3> QED BY <2>1, <2>4, <2>5, <3>1
  <2> QED BY <2>7 DEF f
<1>4. CASE n \in [node : {"ArrayContains", "ArrayNotContains"}, column : ArrayColumns, value : Literals]
  <2>1. Word(n.column) \in Tokens /\ Quoted(n.value) \in Tokens /\ n.node \in {"ArrayContains", "ArrayNotContains"}
    BY <1>1, <1>4, TokensAre
  <2>2. n.node = "ArrayContains" => f = <<Quoted(n.value), Word("in"), Word(n.column)>>
    BY DEF _format_predicate
  <2>3. n.node = "ArrayNotContains" => f = <<Quoted(n.value), Word("not"), Word("in"), Word(n.column)>>
    BY DEF _format_predicate
  <2> HIDE DEF f
  <2>4. f \in Seq(Tokens)
    <3>1. /\ <<Quoted(n.value), Word("in"), Word(n.column)>> \in Seq(Tokens)
          /\ <<Quoted(n.value), Word("not"), Word("in"), Word(n.column)>> \in Seq(Tokens)
      BY <1>1, <2>1, ShortTexts
    <3> QED BY <2>1, <2>2, <2>3, <3>1
  <2> QED BY <2>4 DEF f
<1>5. CASE n \in [node : {"BoolEquals"}, column : BoolColumns, truth : BOOLEAN]
  <2>1. Word(n.column) \in Tokens /\ n.node = "BoolEquals"
    BY <1>1, <1>5
  <2>2. f = <<Word(n.column), Sign("="), Word(IF n.truth THEN "true" ELSE "false")>>
    BY <2>1 DEF _format_predicate
  <2>3. Word(IF n.truth THEN "true" ELSE "false") \in Tokens
    BY <1>1
  <2> HIDE DEF f
  <2>4. f \in Seq(Tokens)
    BY <1>1, <2>1, <2>2, <2>3, ShortTexts
  <2> QED BY <2>4 DEF f
<1> QED BY <1>2, <1>3, <1>4, <1>5 DEF Predicates

\* The sentences are texts.
LEMMA SentencesTyped == Sentences \cup Group(Sentences) \subseteq Seq(Tokens)
<1>1. ASSUME NEW S, S \subseteq Seq(Tokens) PROVE Group(S) \subseteq Seq(Tokens)
  <2>1. <<Sign("(")>> \in Seq(Tokens) /\ <<Sign(")")>> \in Seq(Tokens)
    <3>1. Sign("(") \in Tokens /\ Sign(")") \in Tokens
      BY TokensAre DEF Signs
    <3> QED BY <3>1, ShortTexts
  <2>2. \A t \in S : <<Sign("(")>> \o t \o <<Sign(")")>> \in Seq(Tokens)
    BY <1>1, <2>1
  <2> QED BY <2>2 DEF Group
<1>2. Atoms \subseteq Seq(Tokens)
  BY TextAssumption, PredicateTokens DEF Atoms
<1>3. ASSUME NEW S, S \subseteq Seq(Tokens) PROVE Chained(S) \subseteq Seq(Tokens)
  <2>1. \A w \in Operators : <<Word(w)>> \in Seq(Tokens)
    <3>1. \A w \in Operators : Word(w) \in Tokens
      BY TokensAre DEF Operators, Identifiers, Keywords
    <3> QED BY <3>1, ShortTexts
  <2>2. \A a \in Atoms, t \in S, w \in Operators : a \o <<Word(w)>> \o t \in Seq(Tokens)
    BY <1>2, <1>3, <2>1
  <2>3. Chained(S) = S \cup {a \o <<Word(w)>> \o t : a \in Atoms, t \in S, w \in Operators}
    BY DEF Chained
  <2>4. {a \o <<Word(w)>> \o t : a \in Atoms, t \in S, w \in Operators} \subseteq Seq(Tokens)
    <3> DEFINE F(a, t, w) == a \o <<Word(w)>> \o t
    <3>1. \A a \in Atoms, t \in S, w \in Operators : F(a, t, w) \in Seq(Tokens)
      BY <2>2
    <3> HIDE DEF F
    <3>2. {F(a, t, w) : a \in Atoms, t \in S, w \in Operators} \subseteq Seq(Tokens)
      BY <3>1
    <3> QED BY <3>2 DEF F
  <2> QED BY <1>3, <2>3, <2>4
<1>4. Inner \subseteq Seq(Tokens)
  BY <1>2, <1>3 DEF Inner
<1>5. Group(Inner) \subseteq Seq(Tokens)
  BY <1>1, <1>4
<1>6. Outer \subseteq Seq(Tokens)
  BY <1>2, <1>3, <1>5 DEF Outer
<1>7. Group(Outer) \subseteq Seq(Tokens) /\ Group(Group(Inner)) \subseteq Seq(Tokens)
  BY <1>1, <1>5, <1>6
<1>8. Chained(Group(Group(Inner))) \subseteq Seq(Tokens) /\ Chained(Inner) \subseteq Seq(Tokens)
  BY <1>3, <1>4, <1>7
<1>9. Sentences \subseteq Seq(Tokens)
  BY <1>6, <1>7, <1>8 DEF Sentences
<1> QED BY <1>1, <1>9

\* Editing leaves a text a text.
LEMMA TextsTyped == TextSpec => []TypedText
<1>1. TextInit => TypedText
  <2>1. <<>> \in Seq(Tokens)
    OBVIOUS
  <2> QED BY <2>1, SentencesTyped DEF TextInit, TypedText
<1>2. TypedText /\ [TextNext]_textVars => TypedText'
  <2> SUFFICES ASSUME TypedText, [TextNext]_textVars PROVE TypedText'
    OBVIOUS
  <2> USE DEF TypedText
  <2>1. CASE Drop
    <3>1. PICK i \in DOMAIN text : text' = RemoveAt(text, i)
      BY <2>1 DEF Drop, Edit
    <3>2. SubSeq(text, 1, i - 1) \in Seq(Tokens) /\ SubSeq(text, i + 1, Len(text)) \in Seq(Tokens)
      OBVIOUS
    <3> QED BY <3>1, <3>2 DEF RemoveAt
  <2>2. CASE Swap
    <3>1. PICK i \in DOMAIN text, s \in Strays : text' = ReplaceAt(text, i, s)
      BY <2>2 DEF Swap, Edit
    <3>2. s \in Tokens
      BY TextAssumption
    <3> QED BY <3>1, <3>2 DEF ReplaceAt
  <2>3. CASE Add
    <3>1. PICK i \in 1 .. Len(text) + 1, s \in Strays : text' = InsertAt(text, i, s)
      BY <2>3 DEF Add, Edit
    <3>2. s \in Tokens
      BY TextAssumption
    <3>3. SubSeq(text, 1, i - 1) \in Seq(Tokens) /\ SubSeq(text, i, Len(text)) \in Seq(Tokens)
      OBVIOUS
    <3>4. <<s>> \in Seq(Tokens)
      BY <3>2
    <3> QED BY <3>1, <3>3, <3>4 DEF InsertAt
  <2>4. CASE UNCHANGED textVars
    BY <2>4 DEF textVars
  <2> QED BY <2>1, <2>2, <2>3, <2>4 DEF TextNext
<1> QED BY <1>1, <1>2, PTL DEF TextSpec

\* parse_filter: whatever is dropped, replaced or inserted, a text is accepted if and only if the
\* grammar derives it.
THEOREM ParserIsTheGrammar == TextSpec => []ParserFollowsGrammar
<1>1. TypedText => ParserFollowsGrammar
  BY EveryTextIsParsed DEF TypedText, ParserFollowsGrammar
<1> QED BY <1>1, TextsTyped, PTL

\* _compile: the SQL of every text that is accepted is true of exactly the rows that the
\* description selects.
THEOREM ScopesAreDefinite == TextSpec => []ScopeIsDefinite
<1>1. TypedText => ScopeIsDefinite
  BY EveryTextIsParsed, EveryFilterIsDefinite DEF TypedText, ScopeIsDefinite
<1> QED BY <1>1, TextsTyped, PTL

------------------------------------------------------------------------------
\* The canonical form of a filter.

\* The tokens of a form are there from p on.
At(ts, p, form) ==
  /\ p + Len(form) <= Len(ts) + 1
  /\ \A k \in 1 .. Len(form) : ts[p + k - 1] = form[k]

\* Two forms in a row are there one after the other.
LEMMA AtJoined ==
  ASSUME NEW ts, Len(ts) \in Nat, NEW p \in Nat \ {0}, NEW A, NEW a \in Seq(A), NEW b \in Seq(A),
         At(ts, p, a \o b)
  PROVE  At(ts, p, a) /\ At(ts, p + Len(a), b) /\ (p + Len(a)) + Len(b) = p + Len(a \o b)
<1>1. Len(a) \in Nat /\ Len(b) \in Nat /\ Len(a \o b) = Len(a) + Len(b)
  OBVIOUS
<1>2. p + Len(a \o b) <= Len(ts) + 1 /\ \A k \in 1 .. Len(a \o b) : ts[p + k - 1] = (a \o b)[k]
  BY DEF At
<1>3. At(ts, p, a)
  <2>1. \A k \in 1 .. Len(a) : k \in 1 .. Len(a \o b) /\ (a \o b)[k] = a[k]
    BY <1>1
  <2> QED BY <1>1, <1>2, <2>1 DEF At
<1>4. At(ts, p + Len(a), b)
  <2>1. ASSUME NEW k \in 1 .. Len(b) PROVE ts[(p + Len(a)) + k - 1] = b[k]
    <3>1. Len(a) + k \in 1 .. Len(a \o b) /\ (a \o b)[Len(a) + k] = b[k]
      BY <1>1
    <3>2. ts[p + (Len(a) + k) - 1] = b[k]
      BY <1>2, <3>1
    <3>3. p + (Len(a) + k) - 1 = (p + Len(a)) + k - 1
      BY <1>1
    <3> QED BY <3>2, <3>3
  <2>2. (p + Len(a)) + Len(b) <= Len(ts) + 1
    BY <1>1, <1>2
  <2> QED BY <2>1, <2>2 DEF At
<1> QED BY <1>1, <1>3, <1>4

\* The tokens of a short form.
One(ts, p, a) == Peek(ts, p) = a /\ ts[p] = a /\ p + 1 \in Positions(ts)
Three(ts, p, a, b, c) ==
  /\ Peek(ts, p) = a /\ Peek(ts, p + 1) = b /\ Peek(ts, p + 2) = c
  /\ ts[p] = a /\ ts[p + 1] = b /\ ts[p + 2] = c
Four(ts, p, a, b, c, d) ==
  /\ Peek(ts, p) = a /\ Peek(ts, p + 1) = b /\ Peek(ts, p + 2) = c /\ Peek(ts, p + 3) = d
  /\ ts[p] = a /\ ts[p + 1] = b /\ ts[p + 2] = c /\ ts[p + 3] = d

\* The tokens of a form of one, three or four.
LEMMA AtShort ==
  ASSUME NEW ts, IsText(ts), NEW p \in Nat \ {0}, NEW a, NEW b, NEW c, NEW d
  PROVE  /\ At(ts, p, <<a>>) => One(ts, p, a)
         /\ At(ts, p, <<a, b, c>>) => Three(ts, p, a, b, c)
         /\ At(ts, p, <<a, b, c, d>>) => Four(ts, p, a, b, c, d)
<1> USE DEF One, Three, Four
<1>0. Len(ts) \in Nat
  BY DEF IsText
<1>1. ASSUME At(ts, p, <<a>>) PROVE One(ts, p, a)
  <2>1. p + 1 <= Len(ts) + 1 /\ \A k \in 1 .. 1 : ts[p + k - 1] = <<a>>[k]
    BY <1>1 DEF At
  <2>2. p \in 1 .. Len(ts) /\ p + 1 \in Positions(ts) /\ p + 1 - 1 = p
    BY <1>0, <2>1 DEF Positions
  <2>3. ts[p + 1 - 1] = a
    BY <2>1
  <2> QED BY <2>2, <2>3 DEF Peek
<1>2. ASSUME At(ts, p, <<a, b, c>>)
      PROVE  Three(ts, p, a, b, c)
  <2>1. p + 3 <= Len(ts) + 1 /\ \A k \in 1 .. 3 : ts[p + k - 1] = <<a, b, c>>[k]
    BY <1>2 DEF At
  <2>2. /\ p <= Len(ts) /\ p + 1 <= Len(ts) /\ p + 2 <= Len(ts) /\ p + 3 \in Positions(ts)
        /\ p + 1 - 1 = p /\ p + 2 - 1 = p + 1 /\ p + 3 - 1 = p + 2
    BY <1>0, <2>1 DEF Positions
  <2>3. ts[p + 1 - 1] = a /\ ts[p + 2 - 1] = b /\ ts[p + 3 - 1] = c
    BY <2>1
  <2> QED BY <2>2, <2>3 DEF Peek
<1>3. ASSUME At(ts, p, <<a, b, c, d>>)
      PROVE  Four(ts, p, a, b, c, d)
  <2>1. p + 4 <= Len(ts) + 1 /\ \A k \in 1 .. 4 : ts[p + k - 1] = <<a, b, c, d>>[k]
    BY <1>3 DEF At
  <2>2. /\ p <= Len(ts) /\ p + 1 <= Len(ts) /\ p + 2 <= Len(ts) /\ p + 3 <= Len(ts) /\ p + 4 \in Positions(ts)
        /\ p + 1 - 1 = p /\ p + 2 - 1 = p + 1 /\ p + 3 - 1 = p + 2 /\ p + 4 - 1 = p + 3
    BY <1>0, <2>1 DEF Positions
  <2>3. ts[p + 1 - 1] = a /\ ts[p + 2 - 1] = b /\ ts[p + 3 - 1] = c /\ ts[p + 4 - 1] = d
    BY <2>1
  <2> QED BY <2>2, <2>3 DEF Peek
<1> QED BY <1>1, <1>2, <1>3

\* Kind and value of the tokens a form is made of.
LEMMA Lexemes ==
  /\ \A w : Word(w).kind = "ident" /\ Word(w).value = w
  /\ \A v : Quoted(v).kind = "string" /\ Quoted(v).value = v
  /\ \A c : Sign(c).kind = c
  /\ \A v, w : Word(v) = Word(w) => v = w
  BY DEF Word, Quoted, Sign, Token

\* The list of a form is parsed to its values.
LEMMA ListAt ==
  ASSUME NEW ts, IsText(ts), NEW q \in Nat \ {0}, NEW values \in Seq(Literals) \ {<<>>},
         At(ts, q, List(values) \o <<Sign(")")>>)
  PROVE  /\ _parse_value_list(ts, q) = Parsed(values, q + Len(List(values) \o <<Sign(")")>>))
         /\ Len(List(values) \o <<Sign(")")>>) \in Nat
<1> DEFINE n == Len(values)
           m == 2 * n - 1
           l == List(values)
           form == l \o <<Sign(")")>>
<1>0. Len(ts) \in Nat /\ DOMAIN ts = 1 .. Len(ts)
  BY DEF IsText
<1>1. n \in Nat \ {0} /\ m \in Nat \ {0} /\ values = [k \in 1 .. n |-> values[k]]
  OBVIOUS
<1>2. l = [k \in 1 .. m |-> IF k % 2 = 1 THEN Quoted(values[(k + 1) \div 2]) ELSE Sign(",")]
  BY DEF List
<1>3. l \in Seq(Tokens) /\ <<Sign(")")>> \in Seq(Tokens)
  <2>1. Sign(")") \in Tokens
    BY TokensAre DEF Signs
  <2>2. <<Sign(")")>> \in Seq(Tokens)
    BY <2>1, ShortTexts
  <2> QED BY <2>2, ListTokens
<1> HIDE DEF n, m, l
<1>4. Len(l) = m
  <2>1. DOMAIN l = 1 .. m
    BY <1>2
  <2>2. Len(l) \in Nat /\ DOMAIN l = 1 .. Len(l)
    BY <1>3
  <2> QED BY <1>1, <2>1, <2>2
<1>5. /\ Len(form) = 2 * n
      /\ \A k \in 1 .. m : form[k] = l[k]
      /\ form[2 * n] = Sign(")")
  <2>1. m + 1 = 2 * n
    BY <1>1 DEF m
  <2>2. Len(form) = m + 1 /\ (\A k \in 1 .. m : form[k] = l[k]) /\ form[m + 1] = Sign(")")
    BY <1>1, <1>3, <1>4
  <2> QED BY <2>1, <2>2
<1>6. q + 2 * n <= Len(ts) + 1 /\ \A k \in 1 .. 2 * n : ts[q + k - 1] = form[k]
  <2>1. At(ts, q, form)
    BY DEF l
  <2> HIDE DEF form
  <2> QED BY <1>5, <2>1 DEF At
<1> HIDE DEF form
<1>7. ASSUME NEW k \in 1 .. n PROVE ts[q + 2 * k - 2] = Quoted(values[k])
  <2>1. 2 * k - 1 \in 1 .. m /\ 2 * k - 1 \in 1 .. 2 * n /\ (2 * k - 1) % 2 = 1 /\ ((2 * k - 1) + 1) \div 2 = k
        /\ q + (2 * k - 1) - 1 = q + 2 * k - 2
    <3>1. k \in Nat /\ k >= 1 /\ k <= n
      BY <1>1
    <3>2. 2 * k - 1 \in 1 .. m /\ 2 * k - 1 \in 1 .. 2 * n
      BY <1>1, <3>1 DEF m
    <3>3. (2 * k - 1) % 2 = 1
      BY <3>1
    <3>4. (2 * k - 1) + 1 = 2 * k /\ (2 * k) \div 2 = k
      BY <3>1
    <3>5. q + (2 * k - 1) - 1 = q + 2 * k - 2
      BY <3>1
    <3> QED BY <3>2, <3>3, <3>4, <3>5
  <2>2. l[2 * k - 1] = Quoted(values[((2 * k - 1) + 1) \div 2])
    BY <1>2, <2>1
  <2>3. ts[q + (2 * k - 1) - 1] = form[2 * k - 1] /\ form[2 * k - 1] = l[2 * k - 1]
    BY <1>5, <1>6, <2>1
  <2> QED BY <2>1, <2>2, <2>3
<1>8. ASSUME NEW k \in 1 .. n - 1 PROVE ts[q + 2 * k - 1] = Sign(",")
  <2>1. 2 * k \in 1 .. m /\ 2 * k \in 1 .. 2 * n /\ (2 * k) % 2 # 1
    BY <1>1 DEF m
  <2>2. l[2 * k] = Sign(",")
    BY <1>2, <2>1
  <2> QED BY <1>5, <1>6, <2>1, <2>2
<1>9. ts[q + 2 * n - 1] = Sign(")") /\ q + 2 * n - 1 \in 1 .. Len(ts)
  <2>1. 2 * n \in 1 .. 2 * n
    BY <1>1
  <2>2. ts[q + 2 * n - 1] = Sign(")")
    BY <1>5, <1>6, <2>1
  <2>3. q + 2 * n <= Len(ts) + 1
    BY <1>6
  <2> QED BY <1>0, <1>1, <2>2, <2>3
<1>10. \A k \in 1 .. n : q + 2 * k - 2 \in 1 .. Len(ts)
  <2>3. q + 2 * n <= Len(ts) + 1
    BY <1>6
  <2> QED BY <1>0, <1>1, <2>3
<1>11. \A k \in 1 .. n - 1 : q + 2 * k - 1 \in 1 .. Len(ts)
  <2>3. q + 2 * n <= Len(ts) + 1
    BY <1>6
  <2> QED BY <1>0, <1>1, <2>3
<1>12. Count(ts, q) = n
  <2>1. q \in Positions(ts) /\ n \in 1 .. Len(ts) + 1
    <3>1. q + 2 * n <= Len(ts) + 1
      BY <1>6
    <3> QED BY <1>0, <1>1, <3>1 DEF Positions
  <2>2. ~KindAt(ts, q + 2 * n - 1, ",")
    BY <1>9, Lexemes DEF KindAt
  <2>3. \A k \in 1 .. n - 1 : KindAt(ts, q + 2 * k - 1, ",")
    BY <1>0, <1>8, <1>11, Lexemes DEF KindAt
  <2> QED BY <2>1, <2>2, <2>3, Counted
<1>13. Peek(ts, q + 2 * n - 1) = Sign(")")
  BY <1>9 DEF Peek
<1>14. \A k \in 1 .. n : Peek(ts, q + 2 * k - 2).kind = "string" /\ ts[q + 2 * k - 2].value = values[k]
  <2> TAKE k \in 1 .. n
  <2> DEFINE x == q + 2 * k - 2
  <2>1. ts[x] = Quoted(values[k]) /\ x \in 1 .. Len(ts)
    BY <1>7, <1>10
  <2> HIDE DEF x
  <2>2. Peek(ts, x).kind = "string" /\ ts[x].value = values[k]
    BY <2>1, Lexemes DEF Peek
  <2> QED BY <2>2 DEF x
<1>15. [k \in 1 .. n |-> ts[q + 2 * k - 2].value] = values
  BY <1>1, <1>14
<1>16. _parse_value_list(ts, q) = Parsed([k \in 1 .. n |-> ts[q + 2 * k - 2].value], q + 2 * n)
  BY <1>12, <1>13, <1>14 DEF _parse_value_list
<1>17. Len(form) \in Nat
  BY <1>1, <1>5
<1> QED BY <1>5, <1>15, <1>16, <1>17 DEF form, l

ReadsList(name, column, ts, p, values, rest) ==
  ListPredicate(name, column, ts, p) =
    Parsed([node |-> name, column |-> column, values |-> values], (p + 1) + Len(rest))

\* The same behind its parenthesis, for the predicate around it.
LEMMA ListPredicateAt ==
  ASSUME NEW ts, IsText(ts), NEW p \in Nat \ {0}, NEW name, NEW column, NEW values \in Seq(Literals) \ {<<>>},
         NEW rest, rest = List(values) \o <<Sign(")")>>,
         Peek(ts, p) = Sign("("), At(ts, p + 1, rest)
  PROVE  ReadsList(name, column, ts, p, values, rest)
<1> DEFINE list == _parse_value_list(ts, p + 1)
<1>1. p + 1 \in Nat \ {0}
  OBVIOUS
<1>2. list = Parsed(values, (p + 1) + Len(rest))
  BY <1>1, ListAt
<1>3. ListPredicate(name, column, ts, p) =
        IF Peek(ts, p) # Sign("(") \/ ~list.ok THEN Rejected
        ELSE Parsed([node |-> name, column |-> column, values |-> list.node], list.pos)
  BY DEF ListPredicate
<1> HIDE DEF list
<1>4. list.ok /\ list.node = values /\ list.pos = (p + 1) + Len(rest)
  BY <1>2 DEF Parsed
<1> QED BY <1>3, <1>4 DEF ReadsList

\* The form of a predicate is parsed to it.
LEMMA PredicateAt ==
  ASSUME NEW ts, IsText(ts), NEW p \in Nat \ {0}, NEW n \in Predicates, At(ts, p, _format_predicate(n))
  PROVE  /\ _parse_predicate(ts, p) = Parsed(n, p + Len(_format_predicate(n)))
         /\ Peek(ts, p) # Sign("(")
<1> DEFINE form == _format_predicate(n)
           token == Peek(ts, p)
<1>0. /\ _parse_predicate(ts, p) =
           CASE token.kind = "string" -> ArrayPredicate(ts, p)
             [] token.kind = "ident" /\ token.value \in BoolColumns -> _parse_bool_predicate(token.value, ts, p + 1)
             [] token.kind = "ident" /\ token.value \in ScalarColumns -> ScalarPredicate(token.value, ts, p + 1)
             [] OTHER -> Rejected
      /\ BoolColumns \cap ScalarColumns = {}
      /\ (p + 1) + 1 = p + 2 /\ (p + 1) + 2 = p + 3 /\ (p + 2) + 1 = p + 3 /\ (p + 2) + 2 = p + 4
      /\ Len(ts) \in Nat /\ Sign("(").kind = "("
  BY Lexemes DEF _parse_predicate, BoolColumns, ScalarColumns, IsText
<1>s. \A c \in ScalarColumns : token = Word(c) =>
        _parse_predicate(ts, p) = ScalarPredicate(c, ts, p + 1) /\ token # Sign("(")
  <2> TAKE c \in ScalarColumns
  <2> HAVE token = Word(c)
  <2>1. token.kind = "ident" /\ token.value = c
    BY Lexemes
  <2> HIDE DEF token
  <2> QED BY <1>0, <2>1
<1>1. CASE n \in [node : {"Equals", "NotEquals"}, column : ScalarColumns, value : Literals]
  <2> DEFINE sign == IF n.node = "Equals" THEN "=" ELSE "!="
  <2>1. n.column \in ScalarColumns /\ n.node \in {"Equals", "NotEquals"}
        /\ n = [node |-> n.node, column |-> n.column, value |-> n.value]
    BY <1>1
  <2>2. form = <<Word(n.column), Sign(sign), Quoted(n.value)>>
    BY <2>1 DEF _format_predicate
  <2>3. Three(ts, p, Word(n.column), Sign(sign), Quoted(n.value))
    <3>1. At(ts, p, <<Word(n.column), Sign(sign), Quoted(n.value)>>)
      BY <2>2
    <3> QED BY <3>1, AtShort
  <2>4. Len(form) = 3
    BY <2>2
  <2>5. /\ Peek(ts, p + 1).kind \in {"=", "!="} /\ Peek(ts, (p + 1) + 1).kind = "string"
        /\ ~AtKeyword(ts, p + 1, "in") /\ ~AtKeyword(ts, p + 1, "not")
        /\ ts[p + 1].kind = sign /\ ts[(p + 1) + 1].value = n.value
    BY <1>0, <2>3, Lexemes DEF AtKeyword, Three
  <2> HIDE DEF form, token
  <2>6. ScalarPredicate(n.column, ts, p + 1) =
          Parsed([node |-> IF ts[p + 1].kind = "=" THEN "Equals" ELSE "NotEquals",
                  column |-> n.column, value |-> ts[(p + 1) + 1].value], (p + 1) + 2)
    <3> HIDE DEF sign
    <3> QED BY <2>5 DEF ScalarPredicate
  <2>7. [node |-> IF ts[p + 1].kind = "=" THEN "Equals" ELSE "NotEquals",
         column |-> n.column, value |-> ts[(p + 1) + 1].value] = n
    BY <2>1, <2>5
  <2>8. ScalarPredicate(n.column, ts, p + 1) = Parsed(n, p + Len(form))
    BY <1>0, <2>4, <2>6, <2>7
  <2> QED BY <1>s, <2>1, <2>3, <2>8 DEF form, token, Three
<1>2. CASE n \in [node : {"InList", "NotInList"}, column : ScalarColumns, values : Seq(Literals) \ {<<>>}]
  <2> DEFINE rest == List(n.values) \o <<Sign(")")>>
             head == IF n.node = "InList" THEN <<Word(n.column), Word("in"), Sign("(")>>
                     ELSE <<Word(n.column), Word("not"), Word("in"), Sign("(")>>
  <2>1. n.column \in ScalarColumns /\ n.node \in {"InList", "NotInList"}
        /\ n = [node |-> n.node, column |-> n.column, values |-> n.values]
        /\ n.values \in Seq(Literals) \ {<<>>}
    BY <1>2
  <2>2. List(n.values) \in Seq(Tokens) /\ <<Sign(")")>> \in Seq(Tokens) /\ head \in Seq(Tokens)
    <3>1. /\ {Sign("("), Sign(")")} \subseteq Tokens
          /\ {Word("in"), Word("not"), Word(n.column)} \subseteq Tokens
      BY <2>1, TokensAre DEF Signs, Identifiers, Keywords
    <3>2. /\ <<Word(n.column), Word("in"), Sign("(")>> \in Seq(Tokens) /\ <<Sign(")")>> \in Seq(Tokens)
          /\ <<Word(n.column), Word("not"), Word("in"), Sign("(")>> \in Seq(Tokens)
      BY <3>1, ShortTexts
    <3> QED BY <2>1, <3>2, ListTokens
  <2>3. rest \in Seq(Tokens)
    BY <2>2
  <2>4. form = head \o rest
    <3>1. form = head \o List(n.values) \o <<Sign(")")>>
      BY <2>1 DEF _format_predicate
    <3> DEFINE l == List(n.values)
               e == <<Sign(")")>>
    <3> HIDE DEF head, l, e, form
    <3>2. (head \o l) \o e = head \o (l \o e)
      BY <2>2 DEF l, e
    <3> QED BY <3>1, <3>2 DEF l, e
  <2> HIDE DEF rest, form, token
  <2>5. At(ts, p, head) /\ At(ts, p + Len(head), rest) /\ (p + Len(head)) + Len(rest) = p + Len(form)
    <3> HIDE DEF head
    <3>1. At(ts, p, head \o rest)
      BY <2>4 DEF form
    <3> QED BY <1>0, <2>2, <2>3, <2>4, <3>1, AtJoined
  <2>6. CASE n.node = "InList"
    <3>1. head = <<Word(n.column), Word("in"), Sign("(")>> /\ Len(head) = 3
      BY <2>6
    <3>2. Peek(ts, p) = Word(n.column) /\ Peek(ts, p + 1) = Word("in") /\ Peek(ts, p + 2) = Sign("(")
      <4>1. At(ts, p, <<Word(n.column), Word("in"), Sign("(")>>)
        BY <2>5, <3>1
      <4>2. Three(ts, p, Word(n.column), Word("in"), Sign("("))
        BY <4>1, AtShort
      <4> QED BY <4>2 DEF Three
    <3> HIDE DEF head
    <3>3. AtKeyword(ts, p + 1, "in") /\ Peek(ts, p + 1).kind \notin {"=", "!="} /\ ~AtKeyword(ts, p + 1, "not")
      BY <3>2, Lexemes DEF AtKeyword
    <3>4. ScalarPredicate(n.column, ts, p + 1) = ListPredicate("InList", n.column, ts, (p + 1) + 1)
      BY <3>3 DEF ScalarPredicate
    <3>5. p + 2 \in Nat \ {0} /\ p + Len(head) = (p + 2) + 1
      BY <3>1
    <3>6. At(ts, (p + 2) + 1, rest)
      BY <2>5, <3>5
    <3>7. ListPredicate("InList", n.column, ts, p + 2) =
            Parsed([node |-> "InList", column |-> n.column, values |-> n.values], ((p + 2) + 1) + Len(rest))
      <4> DEFINE q == p + 2
                 vs == n.values
      <4>1. q \in Nat \ {0} /\ vs \in Seq(Literals) \ {<<>>} /\ rest = List(vs) \o <<Sign(")")>>
            /\ Peek(ts, q) = Sign("(") /\ At(ts, q + 1, rest)
        BY <2>1, <3>2, <3>5, <3>6 DEF rest
      <4> HIDE DEF q, vs
      <4>2. ReadsList("InList", n.column, ts, q, vs, rest)
        BY <4>1, ListPredicateAt
      <4> QED BY <4>2 DEF q, vs, ReadsList
    <3>8. ScalarPredicate(n.column, ts, p + 1) = Parsed(n, p + Len(form))
      BY <1>0, <2>1, <2>5, <2>6, <3>4, <3>5, <3>7
    <3> QED BY <1>s, <2>1, <3>2, <3>8 DEF form, token
  <2>7. CASE n.node = "NotInList"
    <3>1. head = <<Word(n.column), Word("not"), Word("in"), Sign("(")>> /\ Len(head) = 4
      BY <2>7
    <3>2. Peek(ts, p) = Word(n.column) /\ Peek(ts, p + 1) = Word("not") /\ Peek(ts, p + 2) = Word("in")
          /\ Peek(ts, p + 3) = Sign("(")
      <4>1. At(ts, p, <<Word(n.column), Word("not"), Word("in"), Sign("(")>>)
        BY <2>5, <3>1
      <4>2. Four(ts, p, Word(n.column), Word("not"), Word("in"), Sign("("))
        BY <4>1, AtShort
      <4> QED BY <4>2 DEF Four
    <3> HIDE DEF head
    <3>3. /\ ~AtKeyword(ts, p + 1, "in") /\ Peek(ts, p + 1).kind \notin {"=", "!="} /\ AtKeyword(ts, p + 1, "not")
          /\ AtKeyword(ts, (p + 1) + 1, "in")
      BY <1>0, <3>2, Lexemes DEF AtKeyword
    <3>4. ScalarPredicate(n.column, ts, p + 1) = ListPredicate("NotInList", n.column, ts, (p + 1) + 2)
      BY <3>3 DEF ScalarPredicate
    <3>5. p + 3 \in Nat \ {0} /\ p + Len(head) = (p + 3) + 1
      BY <3>1
    <3>6. At(ts, (p + 3) + 1, rest)
      BY <2>5, <3>5
    <3>7. ListPredicate("NotInList", n.column, ts, p + 3) =
            Parsed([node |-> "NotInList", column |-> n.column, values |-> n.values], ((p + 3) + 1) + Len(rest))
      <4> DEFINE q == p + 3
                 vs == n.values
      <4>1. q \in Nat \ {0} /\ vs \in Seq(Literals) \ {<<>>} /\ rest = List(vs) \o <<Sign(")")>>
            /\ Peek(ts, q) = Sign("(") /\ At(ts, q + 1, rest)
        BY <2>1, <3>2, <3>5, <3>6 DEF rest
      <4> HIDE DEF q, vs
      <4>2. ReadsList("NotInList", n.column, ts, q, vs, rest)
        BY <4>1, ListPredicateAt
      <4> QED BY <4>2 DEF q, vs, ReadsList
    <3>8. ScalarPredicate(n.column, ts, p + 1) = Parsed(n, p + Len(form))
      BY <1>0, <2>1, <2>5, <2>7, <3>4, <3>5, <3>7
    <3> QED BY <1>s, <2>1, <3>2, <3>8 DEF form, token
  <2> QED BY <2>1, <2>6, <2>7
<1>3. CASE n \in [node : {"ArrayContains", "ArrayNotContains"}, column : ArrayColumns, value : Literals]
  <2>1. n.column \in ArrayColumns /\ n.node \in {"ArrayContains", "ArrayNotContains"}
        /\ n = [node |-> n.node, column |-> n.column, value |-> n.value]
    BY <1>3
  <2>2. CASE n.node = "ArrayContains"
    <3>1. form = <<Quoted(n.value), Word("in"), Word(n.column)>>
      BY <2>2 DEF _format_predicate
    <3>2. Peek(ts, p) = Quoted(n.value) /\ ts[p] = Quoted(n.value) /\ Peek(ts, p + 1) = Word("in")
          /\ Peek(ts, p + 2) = Word(n.column)
      <4>1. At(ts, p, <<Quoted(n.value), Word("in"), Word(n.column)>>)
        BY <3>1
      <4>2. Three(ts, p, Quoted(n.value), Word("in"), Word(n.column))
        BY <4>1, AtShort
      <4> QED BY <4>2 DEF Three
    <3>3. Len(form) = 3
      BY <3>1
    <3>4. /\ Peek(ts, p).kind = "string" /\ ts[p].value = n.value
          /\ ~AtKeyword(ts, p + 1, "not") /\ AtKeyword(ts, p + 1, "in")
          /\ Peek(ts, (p + 1) + 1).kind = "ident" /\ Peek(ts, (p + 1) + 1).value = n.column
      BY <1>0, <3>2, Lexemes DEF AtKeyword
    <3> HIDE DEF form
    <3>5. ArrayPredicate(ts, p) = Parsed([node |-> "ArrayContains", column |-> n.column, value |-> n.value], (p + 1) + 2)
      BY <2>1, <3>4 DEF ArrayPredicate
    <3>6. _parse_predicate(ts, p) = ArrayPredicate(ts, p)
      <4>1. token.kind = "string"
        BY <3>4
      <4> HIDE DEF token
      <4> QED BY <1>0, <4>1
    <3>7. _parse_predicate(ts, p) = Parsed(n, p + Len(form))
      BY <1>0, <2>1, <2>2, <3>3, <3>5, <3>6
    <3> QED BY <1>0, <3>4, <3>7 DEF form
  <2>3. CASE n.node = "ArrayNotContains"
    <3>1. form = <<Quoted(n.value), Word("not"), Word("in"), Word(n.column)>>
      BY <2>3 DEF _format_predicate
    <3>2. Peek(ts, p) = Quoted(n.value) /\ ts[p] = Quoted(n.value) /\ Peek(ts, p + 1) = Word("not")
          /\ Peek(ts, p + 2) = Word("in") /\ Peek(ts, p + 3) = Word(n.column)
      <4>1. At(ts, p, <<Quoted(n.value), Word("not"), Word("in"), Word(n.column)>>)
        BY <3>1
      <4>2. Four(ts, p, Quoted(n.value), Word("not"), Word("in"), Word(n.column))
        BY <4>1, AtShort
      <4> QED BY <4>2 DEF Four
    <3>3. Len(form) = 4
      BY <3>1
    <3>4. /\ Peek(ts, p).kind = "string" /\ ts[p].value = n.value
          /\ AtKeyword(ts, p + 1, "not") /\ AtKeyword(ts, p + 2, "in")
          /\ Peek(ts, (p + 2) + 1).kind = "ident" /\ Peek(ts, (p + 2) + 1).value = n.column
      BY <1>0, <3>2, Lexemes DEF AtKeyword
    <3> HIDE DEF form
    <3>5. ArrayPredicate(ts, p) = Parsed([node |-> "ArrayNotContains", column |-> n.column, value |-> n.value], (p + 2) + 2)
      BY <2>1, <3>4 DEF ArrayPredicate
    <3>6. _parse_predicate(ts, p) = ArrayPredicate(ts, p)
      <4>1. token.kind = "string"
        BY <3>4
      <4> HIDE DEF token
      <4> QED BY <1>0, <4>1
    <3>7. _parse_predicate(ts, p) = Parsed(n, p + Len(form))
      BY <1>0, <2>1, <2>3, <3>3, <3>5, <3>6
    <3> QED BY <1>0, <3>4, <3>7 DEF form
  <2> QED BY <2>1, <2>2, <2>3
<1>4. CASE n \in [node : {"BoolEquals"}, column : BoolColumns, truth : BOOLEAN]
  <2> DEFINE w == IF n.truth THEN "true" ELSE "false"
  <2>1. n.column \in BoolColumns /\ n.node = "BoolEquals" /\ n.truth \in BOOLEAN
        /\ n = [node |-> n.node, column |-> n.column, truth |-> n.truth]
    BY <1>4
  <2>2. form = <<Word(n.column), Sign("="), Word(w)>>
    BY <2>1 DEF _format_predicate
  <2>3. Peek(ts, p) = Word(n.column) /\ Peek(ts, p + 1) = Sign("=") /\ Peek(ts, p + 2) = Word(w) /\ ts[p + 2] = Word(w)
    <3> HIDE DEF w
    <3>1. At(ts, p, <<Word(n.column), Sign("="), Word(w)>>)
      BY <2>2
    <3>2. Three(ts, p, Word(n.column), Sign("="), Word(w))
      BY <3>1, AtShort
    <3> QED BY <3>2 DEF Three
  <2>4. Len(form) = 3
    BY <2>2
  <2>5. /\ Peek(ts, p).kind = "ident" /\ Peek(ts, p).value = n.column
        /\ Peek(ts, (p + 1) + 1) \in {Word("true"), Word("false")}
        /\ (ts[(p + 1) + 1] = Word("true")) = n.truth
    BY <1>0, <2>1, <2>3, Lexemes
  <2> HIDE DEF form, w
  <2>6. _parse_bool_predicate(n.column, ts, p + 1) =
          Parsed([node |-> "BoolEquals", column |-> n.column, truth |-> n.truth], (p + 1) + 2)
    BY <2>3, <2>5 DEF _parse_bool_predicate
  <2>7. _parse_predicate(ts, p) = _parse_bool_predicate(n.column, ts, p + 1)
    <3>1. token.kind = "ident" /\ token.value = n.column
      BY <2>5
    <3> HIDE DEF token
    <3> QED BY <1>0, <2>1, <3>1
  <2>8. _parse_predicate(ts, p) = Parsed(n, p + Len(form))
    BY <1>0, <2>1, <2>4, <2>6, <2>7
  <2> QED BY <1>0, <2>5, <2>8 DEF form
<1> QED BY <1>1, <1>2, <1>3, <1>4 DEF Predicates

------------------------------------------------------------------------------
\* Joined texts.

\* What has been joined, sequence by sequence.
Flattens(flat, X, seqs, m) ==
  /\ \A k \in 1 .. m : flat[k] \in X
  /\ flat[1] = seqs[1]
  /\ \A k \in 1 .. m - 1 : flat[k + 1] = flat[k] \o seqs[k + 1]

\* FlattenSeq joins its sequences one by one.
LEMMA Flattening ==
  ASSUME NEW X, \A a \in X, b \in X : a \o b \in X,
         NEW m \in Nat \ {0}, NEW seqs, Len(seqs) = m, \A k \in 1 .. m : seqs[k] \in X
  PROVE  \E flat : Flattens(flat, X, seqs, m) /\ FlattenSeq(seqs) = flat[m]
<1> DEFINE V == [n : Nat, form : X]
           start == [n |-> 1, form |-> seqs[1]]
           more(s) == [n |-> s.n + 1, form |-> IF s.n + 1 \in 1 .. m THEN s.form \o seqs[s.n + 1] ELSE s.form]
           step == [s \in V |-> more(s)]
<1>1. start \in V
  <2>1. 1 \in 1 .. m
    OBVIOUS
  <2> QED BY <2>1
<1>2. \A s \in V : more(s) \in V
  <2> TAKE s \in V
  <2>1. s.n + 1 \in Nat /\ s.form \in X
    OBVIOUS
  <2>2. s.n + 1 \in 1 .. m => s.form \o seqs[s.n + 1] \in X
    BY <2>1
  <2> QED BY <2>1, <2>2
<1>3. step \in [V -> V]
  <2> HIDE DEF more, V
  <2> QED BY <1>2
<1>4. PICK f : Iterates(f, V, start, step)
  <2> HIDE DEF V, start, step
  <2> QED BY <1>1, <1>3, Recursion
<1>5. f[0] = start /\ \A n \in Nat : f[n] \in V /\ f[n + 1] = more(f[n])
  <2>1. f[0] = start /\ \A n \in Nat : f[n] \in V /\ f[n + 1] = step[f[n]]
    <3> HIDE DEF V, start, step
    <3> QED BY <1>4 DEF Iterates
  <2> HIDE DEF V, start, more
  <2> QED BY <2>1
<1>6. \A n \in Nat : f[n].n = n + 1
  <2> DEFINE S == {n \in Nat : f[n].n = n + 1}
  <2>1. 0 \in S
    BY <1>5
  <2>2. ASSUME NEW n \in Nat, n \in S PROVE n + 1 \in S
    <3>1. f[n + 1] = more(f[n]) /\ f[n].n = n + 1
      BY <1>5, <2>2
    <3>2. f[n + 1].n = f[n].n + 1
      BY <3>1
    <3>3. f[n + 1].n = (n + 1) + 1
      BY <3>1, <3>2
    <3> QED BY <3>3
  <2>3. \A n \in Nat : n \in S
    <3> HIDE DEF S
    <3> QED BY <2>1, <2>2, Induction
  <2> QED BY <2>3
<1> DEFINE h == [k \in 1 .. m |-> f[k - 1].form]
<1>7. \A k \in 1 .. m : h[k] = IF k = 1 THEN seqs[k] ELSE h[k - 1] \o seqs[k]
  <2> TAKE k \in 1 .. m
  <2>1. CASE k = 1
    <3>1. h[1] = f[0].form
      BY <2>1
    <3>2. f[0].form = seqs[1]
      BY <1>5
    <3> QED BY <2>1, <3>1, <3>2
  <2>2. CASE k # 1
    <3>1. k - 2 \in Nat /\ k - 1 \in 1 .. m /\ (k - 2) + 1 = k - 1 /\ (k - 1) - 1 = k - 2 /\ (k - 1) + 1 = k
      BY <2>2
    <3>2. f[k - 2].n = k - 1
      BY <1>6, <3>1
    <3>3. f[k - 1] = more(f[k - 2])
      BY <1>5, <3>1
    <3>4. f[k - 1].form = f[k - 2].form \o seqs[k]
      <4>1. f[k - 1].form = IF f[k - 2].n + 1 \in 1 .. m THEN f[k - 2].form \o seqs[f[k - 2].n + 1] ELSE f[k - 2].form
        BY <3>3
      <4> QED BY <3>1, <3>2, <4>1
    <3>5. h[k] = f[k - 1].form /\ h[k - 1] = f[k - 2].form
      BY <3>1
    <3> QED BY <2>2, <3>4, <3>5
  <2> QED BY <2>1, <2>2
<1>8. h = [k \in 1 .. m |-> IF k = 1 THEN seqs[k] ELSE h[k - 1] \o seqs[k]]
  <2>1. DOMAIN h = 1 .. m /\ h = [k \in 1 .. m |-> h[k]]
    OBVIOUS
  <2> HIDE DEF h
  <2> QED BY <1>7, <2>1
<1> HIDE DEF h
<1> DEFINE g == CHOOSE g : g = [k \in 1 .. m |-> IF k = 1 THEN seqs[k] ELSE g[k - 1] \o seqs[k]]
<1>9. g = [k \in 1 .. m |-> IF k = 1 THEN seqs[k] ELSE g[k - 1] \o seqs[k]]
  BY <1>8
<1>10. FlattenSeq(seqs) = g[m]
  BY DEF FlattenSeq
<1> HIDE DEF g
<1>11. /\ g[1] = seqs[1]
       /\ \A k \in 1 .. m - 1 : g[k + 1] = g[k] \o seqs[k + 1]
  <2>1. \A k \in 1 .. m : g[k] = IF k = 1 THEN seqs[k] ELSE g[k - 1] \o seqs[k]
    BY <1>9
  <2>2. 1 \in 1 .. m
    OBVIOUS
  <2>3. ASSUME NEW k \in 1 .. m - 1 PROVE g[k + 1] = g[k] \o seqs[k + 1]
    <3>1. k + 1 \in 1 .. m /\ k + 1 # 1 /\ (k + 1) - 1 = k
      OBVIOUS
    <3> QED BY <2>1, <3>1
  <2> QED BY <2>1, <2>2, <2>3
<1>12. \A k \in 1 .. m : g[k] \in X
  <2> DEFINE S == {n \in Nat : n < m => g[n + 1] \in X}
  <2>1. 0 \in S
    <3>1. g[1] \in X
      BY <1>11
    <3> QED BY <3>1
  <2>2. ASSUME NEW n \in Nat, n \in S PROVE n + 1 \in S
    <3>1. CASE n + 1 < m
      <4>1. n + 1 \in 1 .. m - 1 /\ (n + 1) + 1 \in 1 .. m /\ n < m
        BY <3>1
      <4>2. g[n + 1] \in X /\ seqs[(n + 1) + 1] \in X
        BY <2>2, <4>1
      <4>3. g[(n + 1) + 1] = g[n + 1] \o seqs[(n + 1) + 1]
        BY <1>11, <4>1
      <4>4. g[(n + 1) + 1] \in X
        BY <4>2, <4>3
      <4> QED BY <4>4
    <3>2. CASE ~(n + 1 < m)
      BY <3>2
    <3> QED BY <3>1, <3>2
  <2>3. \A n \in Nat : n \in S
    <3> HIDE DEF S
    <3> QED BY <2>1, <2>2, Induction
  <2> TAKE k \in 1 .. m
  <2>4. k - 1 \in Nat /\ k - 1 < m /\ (k - 1) + 1 = k
    OBVIOUS
  <2>5. k - 1 \in S
    BY <2>3, <2>4
  <2> QED BY <2>4, <2>5
<1> QED BY <1>10, <1>11, <1>12 DEF Flattens

------------------------------------------------------------------------------
\* The loop on a canonical form.

\* The loop from i on is closed by round m.
ClosedBy(ts, terms, i, m) ==
  /\ \A k \in 0 .. m - 1 : Rounds(ts, terms, i)[k].state = "open"
  /\ Rounds(ts, terms, i)[m].state = "closed"
Closes(ts, terms, i, m) ==
  _parse_expr(ts, terms)[i] = Parsed(Joint(Rounds(ts, terms, i)[m]), Rounds(ts, terms, i)[m].pos)

\* The first round that closes the loop decides it.
LEMMA LoopClosed ==
  ASSUME NEW ts, IsText(ts), NEW N, NEW terms,
         \A k \in Positions(ts) : terms[k] \in Results(ts, k, N),
         NEW i \in Positions(ts), NEW m \in Nat, ClosedBy(ts, terms, i, m)
  PROVE  Closes(ts, terms, i, m)
<1> DEFINE g == Rounds(ts, terms, i)
<1>0. Len(ts) \in Nat
  BY DEF IsText
<1>1. LoopOf(ts, terms, N, i, g)
  BY <1>0, RoundsFollow
<1>2. g[Len(ts)].state # "open"
  BY LoopEnds
<1>3. _parse_expr(ts, terms)[i] =
        IF g[Len(ts)].state = "closed" THEN Parsed(Joint(g[Len(ts)]), g[Len(ts)].pos) ELSE Rejected
  BY DEF _parse_expr
<1>4. (\A k \in 0 .. m - 1 : g[k].state = "open") /\ g[m].state = "closed"
  BY DEF ClosedBy
<1> HIDE DEF g
<1>5. ~(Len(ts) < m)
  <2> SUFFICES ASSUME Len(ts) < m PROVE FALSE
    OBVIOUS
  <2>1. Len(ts) \in 0 .. m - 1
    BY <1>0
  <2> QED BY <1>2, <1>4, <2>1
<1>6. \A d \in Nat : g[m + d] = g[m]
  <2> DEFINE S == {d \in Nat : g[m + d] = g[m]}
  <2>1. 0 \in S
    OBVIOUS
  <2>2. ASSUME NEW d \in Nat, d \in S PROVE d + 1 \in S
    <3>1. m + d \in Nat /\ m + (d + 1) = (m + d) + 1
      OBVIOUS
    <3>2. g[(m + d) + 1] = NextTerm(ts, terms, g[m + d])
      BY <1>1, <3>1 DEF LoopOf
    <3>3. g[m + d] = g[m]
      BY <2>2
    <3>4. NextTerm(ts, terms, g[m]) = g[m]
      BY <1>4 DEF NextTerm
    <3>5. g[m + (d + 1)] = g[m]
      BY <3>1, <3>2, <3>3, <3>4
    <3> QED BY <3>5
  <2>3. \A d \in Nat : d \in S
    <3> HIDE DEF S
    <3> QED BY <2>1, <2>2, Induction
  <2> QED BY <2>3
<1>7. g[Len(ts)] = g[m]
  <2>1. Len(ts) - m \in Nat /\ m + (Len(ts) - m) = Len(ts)
    BY <1>0, <1>5
  <2>2. g[m + (Len(ts) - m)] = g[m]
    BY <1>6, <2>1
  <2> QED BY <2>1, <2>2
<1> QED BY <1>3, <1>4, <1>7 DEF g, Closes

\* A term behind which no operator follows is the expression.
LEMMA SingleTerm ==
  ASSUME NEW ts, IsText(ts), NEW N, NEW terms,
         \A k \in Positions(ts) : terms[k] \in Results(ts, k, N),
         NEW i \in Positions(ts), terms[i].ok, ~AtOperator(ts, terms[i].pos)
  PROVE  _parse_expr(ts, terms)[i] = Parsed(terms[i].node, terms[i].pos)
<1> DEFINE g == Rounds(ts, terms, i)
           term == terms[i]
           s == g[0]
           u == g[1]
<1>0. Len(ts) \in Nat
  BY DEF IsText
<1>1. LoopOf(ts, terms, N, i, g)
  BY <1>0, RoundsFollow
<1>2. s \in LoopStates(ts, N) /\ s = FirstTerm(term) /\ g[0 + 1] = NextTerm(ts, terms, s)
  <2> HIDE DEF g
  <2> QED BY <1>1 DEF LoopOf
<1>3. s.state = "open" /\ s.op = "" /\ s.children = <<term.node>> /\ s.pos = term.pos
  <2>1. term \in Results(ts, i, N) /\ term.ok
    OBVIOUS
  <2> HIDE DEF s, term
  <2> QED BY <1>2, <2>1, FirstCases
<1>4. u = NextTerm(ts, terms, s)
  <2> HIDE DEF s, g
  <2> QED BY <1>2
<1>5. u.state = "closed" /\ u.op = "" /\ u.children = <<term.node>> /\ u.pos = term.pos
  <2>1. ~AtOperator(ts, s.pos)
    BY <1>3
  <2> HIDE DEF s, u, term
  <2>2. u = [s EXCEPT !.state = "closed"]
    BY <1>3, <1>4, <2>1 DEF NextTerm
  <2> QED BY <1>2, <1>3, <2>2 DEF LoopStates
<1>6. _parse_expr(ts, terms)[i] = Parsed(Joint(u), u.pos)
  <2>1. 1 \in Nat /\ \A k \in 0 .. 1 - 1 : k = 0
    OBVIOUS
  <2>2. \A k \in 0 .. 1 - 1 : g[k].state = "open"
    BY <1>3, <2>1
  <2>3. g[1].state = "closed"
    BY <1>5
  <2>4. ClosedBy(ts, terms, i, 1)
    BY <2>2, <2>3 DEF ClosedBy
  <2>5. Closes(ts, terms, i, 1)
    BY <2>1, <2>4, LoopClosed
  <2> QED BY <2>5 DEF Closes
<1>7. Joint(u) = term.node
  <2> HIDE DEF u, term
  <2>1. Joint(u) = u.children[1]
    BY <1>5 DEF Joint
  <2>2. <<term.node>>[1] = term.node
    OBVIOUS
  <2> QED BY <1>5, <2>1, <2>2
<1> QED BY <1>5, <1>6, <1>7

\* The children so far, and one more.
LEMMA AppendPrefix ==
  ASSUME NEW N, NEW c \in Seq(N), NEW k \in 1 .. Len(c) - 1
  PROVE  Append([x \in 1 .. k |-> c[x]], c[k + 1]) = [x \in 1 .. k + 1 |-> c[x]]
<1> DEFINE a == [x \in 1 .. k |-> c[x]]
           b == [x \in 1 .. k + 1 |-> c[x]]
<1>1. k \in Nat /\ k + 1 \in 1 .. Len(c) /\ \A x \in 1 .. k + 1 : c[x] \in N
  OBVIOUS
<1>2. a \in Seq(N) /\ Len(a) = k
  BY <1>1
<1>3. b \in Seq(N) /\ Len(b) = k + 1
  BY <1>1
<1>4. Append(a, c[k + 1]) \in Seq(N) /\ Len(Append(a, c[k + 1])) = k + 1
  <2> HIDE DEF a
  <2> QED BY <1>1, <1>2
<1>5. \A x \in 1 .. k + 1 : Append(a, c[k + 1])[x] = b[x]
  <2> TAKE x \in 1 .. k + 1
  <2>1. CASE x = k + 1
    BY <1>1, <1>2, <2>1
  <2>2. CASE x # k + 1
    <3>1. x \in 1 .. k
      BY <2>2
    <3>2. a[x] = c[x] /\ b[x] = c[x]
      BY <3>1
    <3> HIDE DEF a, b
    <3> QED BY <1>2, <3>1, <3>2
  <2> QED BY <2>1, <2>2
<1> HIDE DEF a, b
<1>6. Append(a, c[k + 1]) = b
  <2> DEFINE d == Append(a, c[k + 1])
  <2>1. d \in Seq(N) /\ Len(d) = k + 1 /\ \A x \in 1 .. k + 1 : d[x] = b[x]
    BY <1>4, <1>5
  <2> HIDE DEF d
  <2>2. d = b
    BY <1>3, <2>1
  <2> QED BY <2>2 DEF d
<1> QED BY <1>6 DEF a, b

Children(c, N, m) == c \in Seq(N) /\ Len(c) = m

\* Terms that follow each other with one operator between them; the k-th ends at ends[k].
Linked(ts, terms, p, c, m, w, ends) ==
  /\ terms[p] = Parsed(c[1], ends[1])
  /\ \A k \in 1 .. m - 1 :
       /\ ends[k] \in 1 .. Len(ts) /\ AtOperator(ts, ends[k]) /\ ts[ends[k]].value = w
       /\ terms[ends[k] + 1] = Parsed(c[k + 1], ends[k + 1])

\* The state of the loop after k more terms.
LoopAt(s, c, w, ends, k) ==
  /\ s.state = "open" /\ s.op = IF k = 0 THEN "" ELSE w
  /\ s.children = [x \in 1 .. k + 1 |-> c[x]] /\ s.pos = ends[k + 1]

\* The loop takes up linked terms one by one and closes behind the last.
LEMMA LinkedLoop ==
  ASSUME NEW ts, IsText(ts), NEW N, NEW terms,
         \A k \in Positions(ts) : terms[k] \in Results(ts, k, N),
         NEW p \in Positions(ts), NEW w \in Operators, NEW m \in Nat, m >= 2, NEW c, Children(c, N, m), NEW ends,
         Linked(ts, terms, p, c, m, w, ends), ~AtOperator(ts, ends[m])
  PROVE  _parse_expr(ts, terms)[p] =
           Parsed([node |-> "BoolNode", op |-> IF w = "and" THEN "AND" ELSE "OR", children |-> c], ends[m])
<1> DEFINE g == Rounds(ts, terms, p)
<1>0. Len(ts) \in Nat
  BY DEF IsText
<1>c. [x \in 1 .. m |-> c[x]] = c
  BY DEF Children
<1>1. LoopOf(ts, terms, N, p, g)
  BY <1>0, RoundsFollow
<1> HIDE DEF g
<1>2. g[0] = FirstTerm(terms[p]) /\ \A n \in Nat : g[n] \in LoopStates(ts, N) /\ g[n + 1] = NextTerm(ts, terms, g[n])
  BY <1>1 DEF LoopOf
<1>3. LoopAt(g[0], c, w, ends, 0)
  <2>1. terms[p] \in Results(ts, p, N) /\ terms[p] = Parsed(c[1], ends[1])
    BY DEF Linked
  <2>2. terms[p].ok /\ terms[p].node = c[1] /\ terms[p].pos = ends[1]
    BY <2>1 DEF Parsed
  <2>3. g[0].state = "open" /\ g[0].op = "" /\ g[0].children = <<terms[p].node>> /\ g[0].pos = terms[p].pos
    <3> DEFINE r == terms[p]
    <3>1. r \in Results(ts, p, N) /\ r.ok /\ g[0] = FirstTerm(r)
      BY <1>2, <2>1, <2>2
    <3> HIDE DEF r
    <3>2. g[0].state = "open" /\ g[0].op = "" /\ g[0].children = <<r.node>> /\ g[0].pos = r.pos
      BY <3>1, FirstCases
    <3> QED BY <3>2 DEF r
  <2>4. <<c[1]>> = [x \in 1 .. 0 + 1 |-> c[x]]
    <3>1. 1 .. 0 + 1 = {1}
      OBVIOUS
    <3> QED BY <3>1
  <2>5. ends[0 + 1] = ends[1]
    OBVIOUS
  <2> QED BY <2>2, <2>3, <2>4, <2>5 DEF LoopAt
<1>4. ASSUME NEW k \in Nat, k + 1 < m, LoopAt(g[k], c, w, ends, k) PROVE LoopAt(g[k + 1], c, w, ends, k + 1)
  <2> DEFINE s == g[k]
             u == g[k + 1]
             e == ends[k + 1]
             term == terms[e + 1]
  <2>1. k + 1 \in 1 .. m - 1 /\ k + 1 \in Nat /\ k + 1 # 0
    BY <1>0, <1>4
  <2>2. e \in 1 .. Len(ts) /\ AtOperator(ts, e) /\ ts[e].value = w /\ term = Parsed(c[(k + 1) + 1], ends[(k + 1) + 1])
    BY <2>1 DEF Linked
  <2>3. s \in LoopStates(ts, N) /\ u = NextTerm(ts, terms, s)
    BY <1>2
  <2>4. s.state = "open" /\ (s.op = "" \/ s.op = w) /\ s.children = [x \in 1 .. k + 1 |-> c[x]] /\ s.pos = e
    BY <1>4 DEF LoopAt
  <2> HIDE DEF s, u, e
  <2>5. term.ok /\ term.node = c[(k + 1) + 1] /\ term.pos = ends[(k + 1) + 1]
    BY <2>2 DEF Parsed
  <2>6. MayFollow(s.op, w)
    BY <2>4 DEF MayFollow
  <2>7. u.state = "open" /\ u.op = w /\ u.children = Append(s.children, term.node) /\ u.pos = term.pos
    BY <2>2, <2>3, <2>4, <2>5, <2>6, RoundCases
  <2>8. Append([x \in 1 .. k + 1 |-> c[x]], c[(k + 1) + 1]) = [x \in 1 .. (k + 1) + 1 |-> c[x]]
    <3>1. c \in Seq(N) /\ k + 1 \in 1 .. Len(c) - 1
      BY <2>1 DEF Children
    <3> QED BY <3>1, AppendPrefix
  <2> HIDE DEF term
  <2> QED BY <2>1, <2>4, <2>5, <2>7, <2>8 DEF LoopAt, u
<1>5. \A k \in 0 .. m - 1 : LoopAt(g[k], c, w, ends, k)
  <2> DEFINE S == {k \in Nat : k < m => LoopAt(g[k], c, w, ends, k)}
  <2>1. 0 \in S
    BY <1>3
  <2>2. ASSUME NEW k \in Nat, k \in S PROVE k + 1 \in S
    <3>1. k + 1 < m => k < m
      BY <1>0
    <3> QED BY <1>4, <2>2, <3>1
  <2>3. \A k \in Nat : k \in S
    <3> HIDE DEF S
    <3> QED BY <2>1, <2>2, Induction
  <2> TAKE k \in 0 .. m - 1
  <2>4. k \in Nat /\ k < m
    BY <1>0
  <2> QED BY <2>3, <2>4
<1> DEFINE s == g[m - 1]
           u == g[m]
<1>6. m - 1 \in 0 .. m - 1 /\ m - 1 \in Nat /\ m - 1 # 0 /\ (m - 1) + 1 = m
  BY <1>0
<1>7. s.state = "open" /\ s.op = w /\ s.children = [x \in 1 .. m |-> c[x]] /\ s.pos = ends[m]
  BY <1>5, <1>6 DEF LoopAt
<1>8. s \in LoopStates(ts, N) /\ u = NextTerm(ts, terms, s)
  BY <1>2, <1>6
<1>10. u.state = "closed" /\ u.op = w /\ u.children = c /\ u.pos = ends[m]
  <2> HIDE DEF s, u
  <2>1. ~AtOperator(ts, s.pos)
    BY <1>7
  <2> QED BY <1>7, <1>8, <1>c, <2>1, RoundCases
<1>11. \A k \in 0 .. m - 1 : g[k].state = "open"
  BY <1>5 DEF LoopAt
<1>12. _parse_expr(ts, terms)[p] = Parsed(Joint(u), u.pos)
  <2>1. ClosedBy(ts, terms, p, m)
    BY <1>10, <1>11 DEF g, ClosedBy
  <2>2. Closes(ts, terms, p, m)
    BY <2>1, LoopClosed
  <2> HIDE DEF u
  <2> QED BY <2>2 DEF g, u, Closes
<1>13. Joint(u) = [node |-> "BoolNode", op |-> IF w = "and" THEN "AND" ELSE "OR", children |-> c]
  <2> HIDE DEF u
  <2>1. w # ""
    BY DEF Operators
  <2> QED BY <1>10, <2>1 DEF Joint
<1> HIDE DEF u
<1> QED BY <1>10, <1>12, <1>13, <1>c

\* Wherever the form is, the term there is the node.
Reads(ts, terms, form, n) ==
  \A q \in Nat \ {0} : At(ts, q, form) => terms[q] = Parsed(n, q + Len(form))

\* The operands of a chain, one after the other.
Links(seqs, forms, w, m) ==
  seqs[1] = forms[1] /\ \A k \in 1 .. m - 1 : seqs[k + 1] = <<Word(w)>> \o forms[k + 1]

EndsOf(flat, p, m) == [k \in 1 .. m |-> p + Len(flat[k])]

\* Where the form of a chain is, its operands are linked terms.
LEMMA ChainLinked ==
  ASSUME NEW ts, IsText(ts), NEW terms, NEW p \in Nat \ {0}, NEW w \in Operators,
         NEW m \in Nat, m >= 2, NEW c, NEW forms,
         \A k \in 1 .. m : forms[k] \in Seq(Tokens) /\ Reads(ts, terms, forms[k], c[k]),
         NEW seqs, Links(seqs, forms, w, m),
         NEW flat, Flattens(flat, Seq(Tokens), seqs, m), At(ts, p, flat[m])
  PROVE  Linked(ts, terms, p, c, m, w, EndsOf(flat, p, m))
<1>0. Len(ts) \in Nat
  BY DEF IsText
<1>w. Word(w) \in Tokens
  BY TokensAre DEF Operators, Identifiers, Keywords
<1>1. ASSUME NEW k \in 1 .. m - 1
      PROVE  /\ k \in 1 .. m /\ k + 1 \in 1 .. m
             /\ flat[k] \in Seq(Tokens) /\ flat[k + 1] = flat[k] \o (<<Word(w)>> \o forms[k + 1])
             /\ forms[k + 1] \in Seq(Tokens) /\ <<Word(w)>> \o forms[k + 1] \in Seq(Tokens)
  <2>1. k \in 1 .. m /\ k + 1 \in 1 .. m
    OBVIOUS
  <2>2. flat[k] \in Seq(Tokens) /\ flat[k + 1] = flat[k] \o seqs[k + 1] /\ seqs[k + 1] = <<Word(w)>> \o forms[k + 1]
    BY <2>1 DEF Flattens, Links
  <2>3. forms[k + 1] \in Seq(Tokens) /\ <<Word(w)>> \in Seq(Tokens)
    BY <1>w, <2>1
  <2>4. <<Word(w)>> \o forms[k + 1] \in Seq(Tokens)
    BY <2>3
  <2> QED BY <2>1, <2>2, <2>3, <2>4
<1>2. ASSUME NEW k \in 1 .. m - 1, At(ts, p, flat[k + 1])
      PROVE  /\ At(ts, p, flat[k]) /\ At(ts, p + Len(flat[k]), <<Word(w)>> \o forms[k + 1])
             /\ (p + Len(flat[k])) + Len(<<Word(w)>> \o forms[k + 1]) = p + Len(flat[k + 1])
  <2> DEFINE a == flat[k]
             b == <<Word(w)>> \o forms[k + 1]
  <2>1. a \in Seq(Tokens) /\ b \in Seq(Tokens) /\ flat[k + 1] = a \o b
    BY <1>1
  <2> HIDE DEF a, b
  <2>2. At(ts, p, a \o b)
    BY <1>2, <2>1
  <2>3. At(ts, p, a) /\ At(ts, p + Len(a), b) /\ (p + Len(a)) + Len(b) = p + Len(a \o b)
    BY <1>0, <2>1, <2>2, AtJoined
  <2> QED BY <2>1, <2>3 DEF a, b
<1>3. \A k \in 1 .. m : At(ts, p, flat[k])
  <2> DEFINE S == {d \in Nat : d < m => At(ts, p, flat[m - d])}
  <2>1. 0 \in S
    OBVIOUS
  <2>2. ASSUME NEW d \in Nat, d \in S PROVE d + 1 \in S
    <3>1. CASE d + 1 < m
      <4>1. m - (d + 1) \in 1 .. m - 1 /\ (m - (d + 1)) + 1 = m - d /\ d < m
        BY <3>1
      <4>2. At(ts, p, flat[(m - (d + 1)) + 1])
        BY <2>2, <4>1
      <4>3. At(ts, p, flat[m - (d + 1)])
        BY <1>2, <4>1, <4>2
      <4> QED BY <4>3
    <3>2. CASE ~(d + 1 < m)
      BY <3>2
    <3> QED BY <3>1, <3>2
  <2>3. \A d \in Nat : d \in S
    <3> HIDE DEF S
    <3> QED BY <2>1, <2>2, Induction
  <2> TAKE k \in 1 .. m
  <2>4. m - k \in Nat /\ m - k < m /\ m - (m - k) = k
    OBVIOUS
  <2>5. m - k \in S
    BY <2>3, <2>4
  <2> QED BY <2>4, <2>5
<1> DEFINE ends == EndsOf(flat, p, m)
<1>4. \A k \in 1 .. m : ends[k] = p + Len(flat[k])
  BY DEF EndsOf
<1> HIDE DEF ends
<1>5. terms[p] = Parsed(c[1], ends[1])
  <2>1. 1 \in 1 .. m
    OBVIOUS
  <2>2. flat[1] = forms[1] /\ At(ts, p, flat[1]) /\ Reads(ts, terms, forms[1], c[1])
    BY <1>3, <2>1 DEF Flattens, Links
  <2> QED BY <1>4, <2>1, <2>2 DEF Reads
<1>6. ASSUME NEW k \in 1 .. m - 1
      PROVE  /\ ends[k] \in 1 .. Len(ts) /\ AtOperator(ts, ends[k]) /\ ts[ends[k]].value = w
             /\ terms[ends[k] + 1] = Parsed(c[k + 1], ends[k + 1])
  <2> DEFINE e == ends[k]
             op == <<Word(w)>>
             form == forms[k + 1]
  <2>1. /\ k \in 1 .. m /\ k + 1 \in 1 .. m /\ form \in Seq(Tokens) /\ op \in Seq(Tokens)
        /\ e = p + Len(flat[k]) /\ ends[k + 1] = p + Len(flat[k + 1]) /\ Len(op) = 1 /\ flat[k] \in Seq(Tokens)
    <3>1. k \in 1 .. m /\ k + 1 \in 1 .. m /\ form \in Seq(Tokens) /\ flat[k] \in Seq(Tokens)
      BY <1>1
    <3>2. op \in Seq(Tokens)
      BY <1>w, ShortTexts
    <3>3. Len(op) = 1
      OBVIOUS
    <3>4. e = p + Len(flat[k]) /\ ends[k + 1] = p + Len(flat[k + 1])
      BY <1>4, <3>1
    <3> HIDE DEF op, e, form
    <3> QED BY <3>1, <3>2, <3>3, <3>4
  <2>2. e \in Nat \ {0}
    <3>1. Len(flat[k]) \in Nat
      BY <2>1
    <3> QED BY <2>1, <3>1
  <2>3. At(ts, p, flat[k + 1])
    BY <1>3, <2>1
  <2>4. At(ts, e, op \o form) /\ e + Len(op \o form) = ends[k + 1]
    BY <1>2, <2>1, <2>3
  <2> HIDE DEF e, op, form
  <2>5. At(ts, e, op) /\ At(ts, e + Len(op), form) /\ (e + Len(op)) + Len(form) = ends[k + 1]
    <3>1. op \in Seq(Tokens) /\ form \in Seq(Tokens) /\ At(ts, e, op \o form)
      BY <2>1, <2>4
    <3>2. At(ts, e, op) /\ At(ts, e + Len(op), form) /\ (e + Len(op)) + Len(form) = e + Len(op \o form)
      BY <1>0, <2>2, <3>1, AtJoined
    <3> QED BY <2>4, <3>2
  <2>6. One(ts, e, Word(w))
    <3>1. At(ts, e, <<Word(w)>>)
      BY <2>5 DEF op
    <3> QED BY <2>2, <3>1, AtShort
  <2>7. e \in 1 .. Len(ts)
    BY <1>0, <2>2, <2>6 DEF One, Positions
  <2>8. Peek(ts, e).kind = "ident" /\ Peek(ts, e).value = w /\ ts[e].value = w
    BY <2>6, Lexemes DEF One
  <2>9. AtOperator(ts, e)
    BY <2>8 DEF AtOperator
  <2>10. terms[e + 1] = Parsed(c[k + 1], ends[k + 1])
    <3>1. e + 1 \in Nat \ {0} /\ At(ts, e + 1, form) /\ (e + 1) + Len(form) = ends[k + 1]
      BY <2>1, <2>2, <2>5
    <3>2. Reads(ts, terms, form, c[k + 1])
      BY <2>1 DEF form
    <3>3. terms[e + 1] = Parsed(c[k + 1], (e + 1) + Len(form))
      BY <3>1, <3>2 DEF Reads
    <3> QED BY <3>1, <3>3
  <2> QED BY <2>7, <2>8, <2>9, <2>10 DEF e
<1>7. Linked(ts, terms, p, c, m, w, ends)
  BY <1>5, <1>6 DEF Linked
<1> QED BY <1>7 DEF ends

------------------------------------------------------------------------------
\* The formatter and the parser, level by level.

\* Wherever the form is and no operator follows, the expression there is the node.
ReadsExpr(ts, exprs, form, n) ==
  \A q \in Nat \ {0} : At(ts, q, form) /\ ~AtOperator(ts, q + Len(form)) => exprs[q] = Parsed(n, q + Len(form))

\* A form that is there lies inside the text.
LEMMA InPositions ==
  ASSUME NEW ts, Len(ts) \in Nat, NEW q \in Nat \ {0}, NEW form \in Seq(Tokens), At(ts, q, form)
  PROVE  q \in Positions(ts) /\ Len(form) \in Nat /\ q + Len(form) \in Positions(ts)
<1>1. Len(form) \in Nat
  OBVIOUS
<1>2. q + Len(form) <= Len(ts) + 1
  BY DEF At
<1> HIDE DEF At
<1> QED BY <1>1, <1>2 DEF Positions

\* The form of a predicate is read as a term, at any depth.
LEMMA PredicateReads ==
  ASSUME NEW ts, IsText(ts), NEW depth, NEW exprs, NEW n \in Predicates
  PROVE  Reads(ts, _parse_term(ts, depth, exprs), _format_predicate(n), n)
<1> DEFINE form == _format_predicate(n)
<1> SUFFICES ASSUME NEW q \in Nat \ {0}, At(ts, q, form)
             PROVE  _parse_term(ts, depth, exprs)[q] = Parsed(n, q + Len(form))
  BY DEF Reads
<1>0. Len(ts) \in Nat
  BY DEF IsText
<1>1. form \in Seq(Tokens)
  BY PredicateTokens
<1>2. _parse_predicate(ts, q) = Parsed(n, q + Len(form)) /\ Peek(ts, q) # Sign("(")
  BY PredicateAt
<1> HIDE DEF form
<1>3. q \in Positions(ts)
  BY <1>0, <1>1, InPositions
<1> QED BY <1>2, <1>3 DEF _parse_term

\* The tokens of a form in parentheses.
LEMMA GroupAt ==
  ASSUME NEW ts, IsText(ts), NEW q \in Nat \ {0}, NEW form \in Seq(Tokens),
         At(ts, q, <<Sign("(")>> \o form \o <<Sign(")")>>)
  PROVE  /\ One(ts, q, Sign("(")) /\ At(ts, q + 1, form) /\ One(ts, (q + 1) + Len(form), Sign(")"))
         /\ ((q + 1) + Len(form)) + 1 = q + Len(<<Sign("(")>> \o form \o <<Sign(")")>>)
         /\ (q + 1) + Len(form) \in Nat
<1> DEFINE a == <<Sign("(")>>
           b == <<Sign(")")>>
           ab == a \o form
<1>0. Len(ts) \in Nat
  BY DEF IsText
<1>1. a \in Seq(Tokens) /\ b \in Seq(Tokens)
  <2>1. Sign("(") \in Tokens /\ Sign(")") \in Tokens
    BY TokensAre DEF Signs
  <2> QED BY <2>1, ShortTexts
<1>l. Len(a) = 1 /\ Len(b) = 1
  OBVIOUS
<1>2. At(ts, q, ab \o b)
  OBVIOUS
<1> HIDE DEF a, b
<1>3. ab \in Seq(Tokens)
  BY <1>1
<1> HIDE DEF ab
<1>4. At(ts, q, ab) /\ At(ts, q + Len(ab), b) /\ (q + Len(ab)) + Len(b) = q + Len(ab \o b)
  BY <1>0, <1>1, <1>2, <1>3, AtJoined
<1>5. At(ts, q, a) /\ At(ts, q + Len(a), form) /\ (q + Len(a)) + Len(form) = q + Len(ab)
  <2>1. At(ts, q, a \o form)
    BY <1>4 DEF ab
  <2> QED BY <1>0, <1>1, <2>1, AtJoined DEF ab
<1>6. Len(form) \in Nat
  OBVIOUS
<1> DEFINE e == (q + 1) + Len(form)
<1>7. At(ts, q + 1, form) /\ e = q + Len(ab) /\ e \in Nat \ {0} /\ At(ts, e, b) /\ e + 1 = q + Len(ab \o b)
  <2>1. q + Len(a) = q + 1 /\ (q + Len(ab)) + 1 = q + Len(ab \o b)
    BY <1>l, <1>4
  <2>2. At(ts, q + 1, form) /\ e = q + Len(ab)
    BY <1>5, <2>1
  <2>3. e \in Nat \ {0}
    BY <1>6
  <2> HIDE DEF e
  <2> QED BY <1>4, <2>1, <2>2, <2>3
<1> HIDE DEF e
<1>8. One(ts, q, Sign("("))
  <2>1. At(ts, q, <<Sign("(")>>)
    BY <1>5 DEF a
  <2> QED BY <2>1, AtShort
<1>9. One(ts, e, Sign(")"))
  <2>1. At(ts, e, <<Sign(")")>>)
    BY <1>7 DEF b
  <2> QED BY <1>7, <2>1, AtShort
<1> QED BY <1>7, <1>8, <1>9 DEF e, ab, a, b

\* A form in parentheses is read as a term, if its content is read one level down.
LEMMA GroupReads ==
  ASSUME NEW ts, IsText(ts), NEW depth \in Nat, depth < MAX_PAREN_DEPTH, NEW exprs, NEW n,
         NEW form \in Seq(Tokens), ReadsExpr(ts, exprs, form, n)
  PROVE  Reads(ts, _parse_term(ts, depth, exprs), <<Sign("(")>> \o form \o <<Sign(")")>>, n)
<1> DEFINE group == <<Sign("(")>> \o form \o <<Sign(")")>>
<1> SUFFICES ASSUME NEW q \in Nat \ {0}, At(ts, q, group)
             PROVE  _parse_term(ts, depth, exprs)[q] = Parsed(n, q + Len(group))
  BY DEF Reads
<1> DEFINE e == (q + 1) + Len(form)
           inner == exprs[q + 1]
<1>0. Len(ts) \in Nat
  BY DEF IsText
<1>1. /\ One(ts, q, Sign("(")) /\ At(ts, q + 1, form) /\ One(ts, e, Sign(")"))
      /\ e + 1 = q + Len(group) /\ e \in Nat
  BY GroupAt
<1> HIDE DEF group
<1>2. Peek(ts, q) = Sign("(") /\ q \in Positions(ts) /\ q + 1 \in Nat \ {0}
  <2>1. Peek(ts, q) = Sign("(") /\ q + 1 \in Positions(ts)
    BY <1>1 DEF One
  <2> QED BY <1>0, <2>1 DEF Positions
<1>3. Peek(ts, e) = Sign(")") /\ ~AtOperator(ts, e)
  <2>1. Peek(ts, e) = Sign(")")
    BY <1>1 DEF One
  <2>2. Peek(ts, e).kind = ")"
    BY <2>1, Lexemes
  <2> QED BY <2>1, <2>2 DEF AtOperator
<1>4. inner = Parsed(n, e)
  BY <1>1, <1>2, <1>3 DEF ReadsExpr
<1>5. ~TooDeep(depth)
  BY DEF TooDeep, MAX_PAREN_DEPTH
<1> HIDE DEF e
<1>6. _parse_term(ts, depth, exprs)[q] =
        IF inner.ok /\ Peek(ts, inner.pos) = Sign(")") THEN Parsed(inner.node, inner.pos + 1) ELSE Rejected
  BY <1>2, <1>5 DEF _parse_term
<1> HIDE DEF inner
<1>7. inner.ok /\ inner.node = n /\ inner.pos = e
  BY <1>4 DEF Parsed
<1> QED BY <1>1, <1>3, <1>6, <1>7

\* The forms of the operands of a node are read as terms.
OperandsRead(ts, terms, forms, n) ==
  \A k \in DOMAIN n.children : forms[k] \in Seq(Tokens) /\ Reads(ts, terms, forms[k], n.children[k])

JoinParts(n, N, c, m, w) ==
  /\ c = n.children /\ Children(c, N, m) /\ DOMAIN c = 1 .. m
  /\ Word(IF n.op = "AND" THEN "and" ELSE "or") = Word(w)
  /\ n = [node |-> "BoolNode", op |-> IF w = "and" THEN "AND" ELSE "OR", children |-> c]

\* The parts of an inner node with two children at least.
LEMMA JoinedNode ==
  ASSUME NEW N, NEW n \in Joins(N)
  PROVE  \E m \in Nat, w \in Operators : m >= 2 /\ JoinParts(n, N, n.children, m, w)
<1> DEFINE c == n.children
           w == IF n.op = "AND" THEN "and" ELSE "or"
<1>1. n \in BoolNode(N) /\ Len(c) >= 2
  BY DEF Joins
<1>2. c \in Seq(N) /\ n.op \in {"AND", "OR"} /\ n = [node |-> "BoolNode", op |-> n.op, children |-> c]
  BY <1>1 DEF BoolNode
<1>3. n = [node |-> "BoolNode", op |-> IF w = "and" THEN "AND" ELSE "OR", children |-> c] /\ w \in Operators
  <2>1. (IF w = "and" THEN "AND" ELSE "OR") = n.op
    BY <1>2
  <2>2. w \in Operators
    BY DEF Operators
  <2> HIDE DEF w, c
  <2> QED BY <1>2, <2>1, <2>2
<1>4. Len(c) \in Nat /\ DOMAIN c = 1 .. Len(c)
  <2> HIDE DEF c
  <2> QED BY <1>2
<1>5. Children(c, N, Len(c))
  BY <1>2 DEF Children
<1> HIDE DEF c
<1>6. JoinParts(n, N, c, Len(c), w)
  BY <1>3, <1>4, <1>5 DEF JoinParts, c
<1> HIDE DEF w
<1> QED BY <1>1, <1>3, <1>4, <1>6 DEF c

\* A chain is read as an expression, if its operands are read as terms.
LEMMA ChainReads ==
  ASSUME NEW ts, IsText(ts), NEW N, NEW terms,
         \A k \in Positions(ts) : terms[k] \in Results(ts, k, N),
         NEW n \in Joins(N), NEW forms, DOMAIN forms = DOMAIN n.children, OperandsRead(ts, terms, forms, n)
  PROVE  Chain(n, forms) \in Seq(Tokens) /\ ReadsExpr(ts, _parse_expr(ts, terms), Chain(n, forms), n)
<1> DEFINE c == n.children
           form == Chain(n, forms)
<1>0. Len(ts) \in Nat
  BY DEF IsText
<1>1. PICK m \in Nat, w \in Operators : m >= 2 /\ JoinParts(n, N, c, m, w)
  BY JoinedNode
<1>2. /\ Children(c, N, m) /\ DOMAIN c = 1 .. m
      /\ Word(IF n.op = "AND" THEN "and" ELSE "or") = Word(w)
      /\ n = [node |-> "BoolNode", op |-> IF w = "and" THEN "AND" ELSE "OR", children |-> c]
  <2> HIDE DEF c
  <2> QED BY <1>1 DEF JoinParts
<1> DEFINE seqs == [k \in 1 .. m |-> IF k = 1 THEN forms[k] ELSE <<Word(w)>> \o forms[k]]
<1>3. form = FlattenSeq(seqs)
  <2> DEFINE op == Word(IF n.op = "AND" THEN "and" ELSE "or")
  <2>1. Chain(n, forms) = FlattenSeq([k \in DOMAIN forms |-> IF k = 1 THEN forms[k] ELSE <<op>> \o forms[k]])
    BY DEF Chain
  <2>2. op = Word(w) /\ DOMAIN forms = 1 .. m
    BY <1>2
  <2> HIDE DEF op
  <2> QED BY <2>1, <2>2
<1>4. \A k \in 1 .. m : forms[k] \in Seq(Tokens) /\ Reads(ts, terms, forms[k], c[k])
  BY <1>2 DEF OperandsRead
<1> HIDE DEF form, c
<1>5. Links(seqs, forms, w, m)
  <2>1. 1 \in 1 .. m /\ \A k \in 1 .. m - 1 : k + 1 \in 1 .. m /\ k + 1 # 1
    BY <1>1
  <2> QED BY <2>1 DEF Links
<1>6. Len(seqs) = m
  OBVIOUS
<1>7. \A k \in 1 .. m : seqs[k] \in Seq(Tokens)
  <2>1. <<Word(w)>> \in Seq(Tokens)
    <3>1. Word(w) \in Tokens
      BY TokensAre DEF Operators, Identifiers, Keywords
    <3> QED BY <3>1, ShortTexts
  <2>2. \A a \in Seq(Tokens) : <<Word(w)>> \o a \in Seq(Tokens)
    BY <2>1
  <2> QED BY <1>4, <2>2
<1> HIDE DEF seqs
<1>8. PICK flat : Flattens(flat, Seq(Tokens), seqs, m) /\ FlattenSeq(seqs) = flat[m]
  <2>1. \A a \in Seq(Tokens), b \in Seq(Tokens) : a \o b \in Seq(Tokens)
    OBVIOUS
  <2>2. m \in Nat \ {0}
    BY <1>1
  <2> DEFINE X == Seq(Tokens)
  <2>3. (\A a \in X, b \in X : a \o b \in X) /\ \A k \in 1 .. m : seqs[k] \in X
    BY <1>7, <2>1
  <2> HIDE DEF X
  <2>4. \E flat : Flattens(flat, X, seqs, m) /\ FlattenSeq(seqs) = flat[m]
    BY <1>6, <2>2, <2>3, Flattening
  <2> QED BY <2>4 DEF X
<1>9. form = flat[m] /\ form \in Seq(Tokens)
  <2>1. m \in 1 .. m
    BY <1>1
  <2> QED BY <1>3, <1>8, <2>1 DEF Flattens
<1>10. ASSUME NEW q \in Nat \ {0}, At(ts, q, form), ~AtOperator(ts, q + Len(form))
       PROVE  _parse_expr(ts, terms)[q] = Parsed(n, q + Len(form))
  <2> DEFINE ends == EndsOf(flat, q, m)
  <2>1. At(ts, q, flat[m])
    BY <1>9, <1>10
  <2>2. Linked(ts, terms, q, c, m, w, ends)
    BY <1>1, <1>4, <1>5, <1>8, <2>1, ChainLinked
  <2>3. ends[m] = q + Len(form)
    <3>1. m \in 1 .. m
      BY <1>1
    <3> QED BY <1>9, <3>1 DEF EndsOf
  <2> HIDE DEF ends
  <2>4. ~AtOperator(ts, ends[m])
    BY <1>10, <2>3
  <2>5. q \in Positions(ts)
    BY <1>0, <1>9, <1>10, InPositions
  <2>6. _parse_expr(ts, terms)[q] =
          Parsed([node |-> "BoolNode", op |-> IF w = "and" THEN "AND" ELSE "OR", children |-> c], ends[m])
    BY <1>1, <1>2, <2>2, <2>4, <2>5, LinkedLoop
  <2> QED BY <1>2, <2>3, <2>6
<1>11. ReadsExpr(ts, _parse_expr(ts, terms), form, n)
  BY <1>10 DEF ReadsExpr
<1> QED BY <1>9, <1>11 DEF form

\* What is read as a term is read as an expression, if no operator follows.
LEMMA SingleReads ==
  ASSUME NEW ts, IsText(ts), NEW N, NEW terms,
         \A k \in Positions(ts) : terms[k] \in Results(ts, k, N),
         NEW n, NEW form \in Seq(Tokens), Reads(ts, terms, form, n)
  PROVE  ReadsExpr(ts, _parse_expr(ts, terms), form, n)
<1> SUFFICES ASSUME NEW q \in Nat \ {0}, At(ts, q, form), ~AtOperator(ts, q + Len(form))
             PROVE  _parse_expr(ts, terms)[q] = Parsed(n, q + Len(form))
  BY DEF ReadsExpr
<1>0. Len(ts) \in Nat
  BY DEF IsText
<1>1. q \in Positions(ts)
  BY <1>0, InPositions
<1> DEFINE e == q + Len(form)
<1>2. terms[q] = Parsed(n, e) /\ ~AtOperator(ts, e)
  BY DEF Reads
<1> HIDE DEF e
<1>3. terms[q].ok /\ terms[q].node = n /\ terms[q].pos = e
  BY <1>2 DEF Parsed
<1>4. _parse_expr(ts, terms)[q] = Parsed(terms[q].node, terms[q].pos)
  BY <1>1, <1>2, <1>3, SingleTerm
<1> QED BY <1>3, <1>4 DEF e

\* The form of an operand, before parentheses are put around it.
Readable(ts, depth, exprs, form, n) ==
  /\ form \in Seq(Tokens)
  /\ \/ n \in Predicates /\ form = _format_predicate(n)
     \/ depth < MAX_PAREN_DEPTH /\ n.node = "BoolNode" /\ ReadsExpr(ts, exprs, form, n)

\* An operand is read as a term, with or without its parentheses.
LEMMA OperandReads ==
  ASSUME NEW ts, IsText(ts), NEW depth \in Nat, NEW exprs, NEW n, NEW form, Readable(ts, depth, exprs, form, n)
  PROVE  /\ _format_operand(n, form) \in Seq(Tokens)
         /\ Reads(ts, _parse_term(ts, depth, exprs), _format_operand(n, form), n)
<1>0. form \in Seq(Tokens)
  BY DEF Readable
<1>1. CASE n \in Predicates /\ form = _format_predicate(n)
  <2>1. n.node # "BoolNode"
    BY <1>1 DEF Predicates
  <2>2. _format_operand(n, form) = form
    BY <2>1 DEF _format_operand
  <2>3. Reads(ts, _parse_term(ts, depth, exprs), form, n)
    BY <1>1, PredicateReads
  <2> QED BY <1>0, <2>2, <2>3
<1>2. CASE depth < MAX_PAREN_DEPTH /\ n.node = "BoolNode" /\ ReadsExpr(ts, exprs, form, n)
  <2> DEFINE group == <<Sign("(")>> \o form \o <<Sign(")")>>
  <2>1. _format_operand(n, form) = group
    BY <1>2 DEF _format_operand
  <2>2. Reads(ts, _parse_term(ts, depth, exprs), group, n)
    BY <1>0, <1>2, GroupReads
  <2>3. group \in Seq(Tokens)
    <3>1. Sign("(") \in Tokens /\ Sign(")") \in Tokens
      BY TokensAre DEF Signs
    <3>2. <<Sign("(")>> \in Seq(Tokens) /\ <<Sign(")")>> \in Seq(Tokens)
      BY <3>1, ShortTexts
    <3> QED BY <1>0, <3>2, JoinedTexts
  <2> HIDE DEF group
  <2> QED BY <2>1, <2>2, <2>3
<1> QED BY <1>1, <1>2 DEF Readable

\* The form of a node, those of its operands given.
FormOf(n, forms) ==
  IF n.node # "BoolNode" THEN _format_predicate(n)
  ELSE Chain(n, [k \in DOMAIN n.children |-> _format_operand(n.children[k], forms[n.children[k]])])

\* One level of the formatter is read back by one level of the parser.
LEMMA LevelReads ==
  ASSUME NEW ts, IsText(ts), NEW depth \in Nat, NEW M, NEW exprs, NEW E,
         depth < MAX_PAREN_DEPTH => ExprsFollow(ts, exprs, M, E),
         NEW forms, \A o \in Predicates \cup M : Readable(ts, depth, exprs, forms[o], o),
         NEW n \in Predicates \cup Joins(Predicates \cup M)
  PROVE  /\ FormOf(n, forms) \in Seq(Tokens)
         /\ ReadsExpr(ts, ParsedAt(ts, depth, exprs), FormOf(n, forms), n)
<1> DEFINE terms == _parse_term(ts, depth, exprs)
           N == Predicates \cup M
<1>1. \A k \in Positions(ts) : terms[k] \in Results(ts, k, N)
  <2>1. TermsFollow(ts, terms, N, TermSpans(ts, depth, E))
    BY TermsOfDepth
  <2> HIDE DEF terms, N
  <2> QED BY <2>1 DEF TermsFollow
<1>2. ParsedAt(ts, depth, exprs) = _parse_expr(ts, terms)
  BY DEF ParsedAt
<1>3. CASE n \in Predicates
  <2>1. n.node # "BoolNode"
    BY <1>3 DEF Predicates
  <2>2. FormOf(n, forms) = _format_predicate(n)
    BY <2>1 DEF FormOf
  <2>3. _format_predicate(n) \in Seq(Tokens) /\ Reads(ts, terms, _format_predicate(n), n)
    BY <1>3, PredicateTokens, PredicateReads
  <2> HIDE DEF terms, N
  <2>4. ReadsExpr(ts, _parse_expr(ts, terms), _format_predicate(n), n)
    BY <1>1, <2>3, SingleReads
  <2> QED BY <1>2, <2>2, <2>3, <2>4
<1>4. CASE n \in Joins(N)
  <2> DEFINE c == n.children
             operands == [k \in DOMAIN c |-> _format_operand(c[k], forms[c[k]])]
  <2>1. n.node = "BoolNode" /\ c \in Seq(N)
    BY <1>4 DEF Joins, BoolNode
  <2>2. FormOf(n, forms) = Chain(n, operands)
    BY <2>1 DEF FormOf
  <2>3. \A k \in DOMAIN c : c[k] \in N
    <3> HIDE DEF c, N
    <3> QED BY <2>1
  <2>4. ASSUME NEW k \in DOMAIN c PROVE operands[k] \in Seq(Tokens) /\ Reads(ts, terms, operands[k], c[k])
    <3> DEFINE o == c[k]
               form == forms[o]
    <3>1. Readable(ts, depth, exprs, form, o)
      BY <2>3
    <3>2. operands[k] = _format_operand(o, form)
      OBVIOUS
    <3> HIDE DEF o, form, operands
    <3> QED BY <3>1, <3>2, OperandReads DEF o
  <2>5. DOMAIN operands = DOMAIN n.children
    OBVIOUS
  <2> HIDE DEF operands
  <2>6. OperandsRead(ts, terms, operands, n)
    BY <2>4 DEF OperandsRead
  <2> HIDE DEF terms, N, c
  <2>7. Chain(n, operands) \in Seq(Tokens) /\ ReadsExpr(ts, _parse_expr(ts, terms), Chain(n, operands), n)
    BY <1>1, <1>4, <2>5, <2>6, ChainReads
  <2> QED BY <1>2, <2>2, <2>7
<1> QED BY <1>3, <1>4

\* An inner node and its children.
LEMMA JoinsKind ==
  ASSUME NEW N, NEW n \in Joins(N)
  PROVE  n.node = "BoolNode" /\ \A k \in DOMAIN n.children : n.children[k] \in N
<1> DEFINE c == n.children
<1>1. n.node = "BoolNode" /\ c \in Seq(N)
  BY DEF Joins, BoolNode
<1> HIDE DEF c
<1>2. \A k \in DOMAIN c : c[k] \in N
  BY <1>1
<1> QED BY <1>1, <1>2 DEF c

\* A filter of a level is a predicate, or joins filters of the level below.
LEMMA ParsedAre ==
  /\ Parsed1 = Predicates \cup Joins(Predicates \cup {})
  /\ Parsed2 = Predicates \cup Joins(Predicates \cup Parsed1)
  /\ Parsed3 = Predicates \cup Joins(Predicates \cup Parsed2)
<1>1. Predicates \cup {} = Predicates /\ Predicates \cup Parsed1 = Parsed1 /\ Predicates \cup Parsed2 = Parsed2
  BY DEF Parsed1, Parsed2
<1>2. ASSUME NEW A, NEW B, A \subseteq B PROVE Joins(A) \subseteq Joins(B)
  BY <1>2 DEF Joins, BoolNode
<1>3. Joins(Predicates) \subseteq Joins(Parsed1)
  BY <1>2 DEF Parsed1
<1>4. Joins(Parsed1) \subseteq Joins(Parsed2)
  BY <1>2 DEF Parsed2
<1>5. Parsed1 = Predicates \cup Joins(Predicates)
  BY DEF Parsed1
<1>6. Parsed2 = Parsed1 \cup Joins(Parsed1)
  BY DEF Parsed2
<1>7. Parsed3 = Parsed2 \cup Joins(Parsed2)
  BY DEF Parsed3
<1> QED BY <1>1, <1>3, <1>4, <1>5, <1>6, <1>7

\* _format_node and _parse_expr, level by level.
LEMMA FormsRead ==
  ASSUME NEW ts, IsText(ts), NEW n \in Parsed3
  PROVE  /\ _format_node(n) \in Seq(Tokens)
         /\ ReadsExpr(ts, ParsedAt(ts, 0, Depth1(ts)), _format_node(n), n)
<1> DEFINE f0 == [o \in Predicates |-> _format_predicate(o)]
           f1 == [o \in Parsed1 |-> Formatted1(o)]
           f2 == [o \in Parsed2 |-> Formatted2(o)]
<1>0. /\ ~(2 < MAX_PAREN_DEPTH) /\ 1 < MAX_PAREN_DEPTH /\ 0 < MAX_PAREN_DEPTH
  BY DEF MAX_PAREN_DEPTH
<1>k. /\ \A o \in Predicates : o.node # "BoolNode"
      /\ \A N : \A o \in Joins(N) : o.node = "BoolNode" /\ \A k \in DOMAIN o.children : o.children[k] \in N
  <2>1. \A o \in Predicates : o.node # "BoolNode"
    BY DEF Predicates
  <2> QED BY <2>1, JoinsKind
<1>1. \A o \in Parsed1 : Formatted1(o) \in Seq(Tokens) /\ ReadsExpr(ts, Depth2(ts), Formatted1(o), o)
  <2> TAKE o \in Parsed1
  <2>1. Formatted1(o) = FormOf(o, f0)
    <3>1. CASE o \in Predicates
      <4>1. o.node # "BoolNode"
        BY <1>k, <3>1
      <4> QED BY <4>1 DEF Formatted1, FormOf
    <3>2. CASE o \in Joins(Predicates)
      <4> DEFINE c == o.children
      <4>1. o.node = "BoolNode" /\ \A k \in DOMAIN c : c[k] \in Predicates
        BY <1>k, <3>2
      <4>2. \A k \in DOMAIN c : _format_operand(c[k], f0[c[k]]) = _format_predicate(c[k])
        BY <1>k, <4>1 DEF _format_operand
      <4> HIDE DEF f0
      <4> QED BY <4>1, <4>2 DEF Formatted1, FormOf
    <3> QED BY <3>1, <3>2 DEF Parsed1
  <2>2. \A x \in Predicates \cup {} : Readable(ts, 2, Depth3(ts), f0[x], x)
    BY PredicateTokens DEF Readable
  <2>3. o \in Predicates \cup Joins(Predicates \cup {})
    BY ParsedAre
  <2> HIDE DEF f0
  <2>4. FormOf(o, f0) \in Seq(Tokens) /\ ReadsExpr(ts, ParsedAt(ts, 2, Depth3(ts)), FormOf(o, f0), o)
    BY <1>0, <2>2, <2>3, LevelReads
  <2> QED BY <2>1, <2>4 DEF Depth2
<1>2. \A o \in Parsed2 : Formatted2(o) \in Seq(Tokens) /\ ReadsExpr(ts, Depth1(ts), Formatted2(o), o)
  <2> TAKE o \in Parsed2
  <2>1. Formatted2(o) = FormOf(o, f1)
    <3>1. CASE o \in Predicates
      <4>1. o.node # "BoolNode"
        BY <1>k, <3>1
      <4> QED BY <4>1 DEF Formatted2, FormOf
    <3>2. CASE o \in Joins(Predicates \cup Parsed1)
      <4> DEFINE c == o.children
      <4>1. o.node = "BoolNode" /\ \A k \in DOMAIN c : c[k] \in Parsed1
        BY <1>k, <3>2 DEF Parsed1
      <4>2. \A k \in DOMAIN c : f1[c[k]] = Formatted1(c[k])
        BY <4>1
      <4> HIDE DEF f1
      <4> QED BY <4>1, <4>2 DEF Formatted2, FormOf
    <3> QED BY <3>1, <3>2, ParsedAre
  <2>2. \A x \in Predicates \cup Parsed1 : Readable(ts, 1, Depth2(ts), f1[x], x)
    <3> TAKE x \in Predicates \cup Parsed1
    <3>1. x \in Parsed1 /\ f1[x] = Formatted1(x)
      BY DEF Parsed1
    <3>2. CASE x \in Predicates
      <4>1. Formatted1(x) = _format_predicate(x)
        BY <1>k, <3>2 DEF Formatted1
      <4> HIDE DEF f1
      <4> QED BY <1>1, <3>1, <3>2, <4>1 DEF Readable
    <3>3. CASE x \in Joins(Predicates)
      <4> HIDE DEF f1
      <4> QED BY <1>0, <1>1, <1>k, <3>1, <3>3 DEF Readable
    <3> QED BY <3>1, <3>2, <3>3 DEF Parsed1
  <2>3. o \in Predicates \cup Joins(Predicates \cup Parsed1)
    BY ParsedAre
  <2>4. ExprsFollow(ts, Depth2(ts), Parsed1, Derived2(ts))
    BY LevelsFollow
  <2> HIDE DEF f1
  <2>5. FormOf(o, f1) \in Seq(Tokens) /\ ReadsExpr(ts, ParsedAt(ts, 1, Depth2(ts)), FormOf(o, f1), o)
    BY <2>2, <2>3, <2>4, LevelReads
  <2> QED BY <2>1, <2>5 DEF Depth1
<1>3. _format_node(n) = FormOf(n, f2)
  <2>1. CASE n \in Predicates
    <3>1. n.node # "BoolNode"
      BY <1>k, <2>1
    <3> QED BY <3>1 DEF _format_node, FormOf
  <2>2. CASE n \in Joins(Predicates \cup Parsed2)
    <3> DEFINE c == n.children
    <3>1. n.node = "BoolNode" /\ \A k \in DOMAIN c : c[k] \in Predicates \cup Parsed2
      BY <1>k, <2>2
    <3>2. Predicates \cup Parsed2 = Parsed2
      BY DEF Parsed2, Parsed1
    <3>3. \A k \in DOMAIN c : f2[c[k]] = Formatted2(c[k])
      BY <3>1, <3>2
    <3> HIDE DEF f2
    <3> QED BY <3>1, <3>3 DEF _format_node, FormOf
  <2> QED BY <2>1, <2>2, ParsedAre
<1>4. \A x \in Predicates \cup Parsed2 : Readable(ts, 0, Depth1(ts), f2[x], x)
  <2> TAKE x \in Predicates \cup Parsed2
  <2>1. x \in Parsed2 /\ f2[x] = Formatted2(x)
    BY DEF Parsed2, Parsed1
  <2>2. CASE x \in Predicates
    <3>1. Formatted2(x) = _format_predicate(x)
      BY <1>k, <2>2 DEF Formatted2
    <3> HIDE DEF f2
    <3> QED BY <1>2, <2>1, <2>2, <3>1 DEF Readable
  <2>3. CASE x \in Joins(Predicates \cup Parsed1)
    <3> HIDE DEF f2
    <3> QED BY <1>0, <1>2, <1>k, <2>1, <2>3 DEF Readable
  <2> HIDE DEF f2
  <2> QED BY <2>1, <2>2, <2>3, ParsedAre
<1>5. n \in Predicates \cup Joins(Predicates \cup Parsed2)
  BY ParsedAre
<1>6. ExprsFollow(ts, Depth1(ts), Parsed2, Derived1(ts))
  BY LevelsFollow
<1> HIDE DEF f2
<1>7. FormOf(n, f2) \in Seq(Tokens) /\ ReadsExpr(ts, ParsedAt(ts, 0, Depth1(ts)), FormOf(n, f2), n)
  BY <1>4, <1>5, <1>6, LevelReads
<1> QED BY <1>3, <1>7

\* A text is the form at its own beginning, and nothing follows.
LEMMA AtItself ==
  ASSUME NEW t \in Seq(Tokens)
  PROVE  At(t, 1, t) /\ ~AtOperator(t, 1 + Len(t)) /\ 1 \in Positions(t) /\ 1 + Len(t) = Len(t) + 1
<1>1. Len(t) \in Nat
  OBVIOUS
<1>2. \A k \in 1 .. Len(t) : 1 + k - 1 = k
  BY <1>1
<1>3. At(t, 1, t)
  BY <1>1, <1>2 DEF At
<1>4. Peek(t, 1 + Len(t)) = Eof
  BY <1>1 DEF Peek
<1>5. Eof.kind = "eof"
  BY DEF Eof, Token
<1>6. ~AtOperator(t, 1 + Len(t))
  BY <1>4, <1>5 DEF AtOperator
<1> QED BY <1>1, <1>3, <1>6 DEF Positions

\* format_filter, for every filter that is parsed from some text: its canonical form is accepted,
\* to the last token, and is parsed to the same filter.
THEOREM EveryFormIsRead ==
  \A f \in Parsed3 \cup {Empty} : parse_filter(format_filter(f)) = Parsed(f, Len(format_filter(f)) + 1)
<1> TAKE f \in Parsed3 \cup {Empty}
<1>1. CASE f = Empty
  <2>1. format_filter(f) = <<>>
    BY <1>1 DEF format_filter
  <2>2. parse_filter(<<>>) = Parsed(Empty, 1)
    BY DEF parse_filter
  <2>3. Len(<<>>) + 1 = 1
    OBVIOUS
  <2> QED BY <1>1, <2>1, <2>2, <2>3
<1>2. CASE f \in Parsed3
  <2> DEFINE t == _format_node(f)
             whole == ParsedAt(t, 0, Depth1(t))[1]
  <2>1. t \in Seq(Tokens)
    <3>1. <<>> \in Seq(Tokens)
      OBVIOUS
    <3>2. IsText(<<>>)
      BY <3>1, TextOf
    <3> QED BY <1>2, <3>2, FormsRead
  <2>2. format_filter(f) = t
    <3>1. f # Empty
      <4>1. f \in Predicates \/ f.node = "BoolNode"
        BY <1>2, ParsedAre, JoinsKind
      <4>2. Empty \notin Predicates /\ Empty.node # "BoolNode"
        BY DEF Empty, Predicates
      <4> QED BY <4>1, <4>2
    <3> QED BY <3>1 DEF format_filter
  <2>3. IsText(t) /\ ReadsExpr(t, ParsedAt(t, 0, Depth1(t)), t, f)
    BY <1>2, <2>1, TextOf, FormsRead
  <2> HIDE DEF t
  <2>4. At(t, 1, t) /\ ~AtOperator(t, 1 + Len(t)) /\ 1 \in Positions(t) /\ 1 + Len(t) = Len(t) + 1
    BY <2>1, AtItself
  <2>5. whole = Parsed(f, Len(t) + 1)
    BY <2>3, <2>4 DEF ReadsExpr
  <2>6. t # <<>>
    <3>1. ExprsFollow(t, ParsedAt(t, 0, Depth1(t)), Parsed3, DerivedAt(t, 0, Derived1(t)))
      BY <2>3, LevelsFollow
    <3>2. whole \in Results(t, 1, Parsed3)
      BY <2>4, <3>1 DEF ExprsFollow
    <3> HIDE DEF whole
    <3>3. whole.ok /\ whole.pos = Len(t) + 1
      BY <2>5 DEF Parsed
    <3>4. 1 < Len(t) + 1
      BY <3>2, <3>3, ResultParts
    <3> QED BY <3>4
  <2>7. parse_filter(t) = IF whole.ok /\ whole.pos = Len(t) + 1 THEN whole ELSE Rejected
    BY <2>6 DEF parse_filter
  <2> HIDE DEF whole
  <2>8. whole.ok /\ whole.pos = Len(t) + 1
    BY <2>5 DEF Parsed
  <2> QED BY <2>2, <2>5, <2>7, <2>8
<1> QED BY <1>1, <1>2

\* format_filter: whatever is dropped, replaced or inserted, the canonical form of a text that is
\* accepted is parsed to the same filter.
THEOREM MeaningIsKept == TextSpec => []FormatKeepsMeaning
<1>1. TypedText => FormatKeepsMeaning
  <2> SUFFICES ASSUME TypedText, parse_filter(text).ok
               PROVE  LET f == parse_filter(text).node IN
                      parse_filter(format_filter(f)) = Parsed(f, Len(format_filter(f)) + 1)
    BY DEF FormatKeepsMeaning
  <2>1. parse_filter(text).node \in Parsed3 \cup {Empty}
    BY WholeText DEF TypedText
  <2> QED BY <2>1, EveryFormIsRead
<1> QED BY <1>1, TextsTyped, PTL

=============================================================================

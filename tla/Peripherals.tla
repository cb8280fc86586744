---------------------------- MODULE Peripherals -----------------------------
(* The connection to DataHub's event stream: the PATCH requests that write   *)
(* its settings row and the password in the Kubernetes Secret, on any         *)
(* replica of the API, and the event consumer, which follows the row, builds  *)
(* a Kafka client from it and the Secret, polls, commits and reports health.  *)
(* A mechanism stands for the security protocol, SASL mechanism and user name *)
(* that go with it; the GMS token is another key of the same Secret and no     *)
(* part of this connection.  A request reads its settings past the cache of    *)
(* its replica, and so does the consumer, so that no cache appears here.       *)
EXTENDS Integers

CONSTANTS
  Requests,    \* PATCH requests
  Bodies,      \* their bodies: gms_url, brokers, mechanism, password; "none" for a key left out
  Starts,      \* settings and password at the start, <<NoRow, "">> on a fresh install
  MskBrokers,  \* brokers whose host names are those of MSK brokers of one region
  MaxEvents,   \* bound: events on the topic
  MaxFaults    \* bound: failures of the Secret, database, broker or consumer process

Mechanisms == {"PLAINTEXT", "SCRAM", "AWS_MSK_IAM"}

\* Strings; "" is an unset one and "none" a key that a body leaves out.
Texts == {"", "none"} \cup STRING

\* peripheral_config.settings of "datahub".
Settings == [gms : Texts, brokers : Texts, mech : Mechanisms, version : Nat \cup {-1}]
NoRow == [gms |-> "", brokers |-> "", mech |-> "PLAINTEXT", version |-> -1]

\* The body of a PATCH.
Body == [gms : Texts, brokers : Texts, mech : Mechanisms \cup {"none"}, pw : Texts]

ASSUME PeripheralsAssumption ==
  /\ Bodies \subseteq Body /\ Starts \subseteq Settings \X Texts
  /\ MaxEvents \in Nat /\ MaxFaults \in Nat

VARIABLES
  row,         \* peripheral_config.settings of "datahub", or NoRow
  password,    \* the Kafka password in the Secret, "" when unset
  req,         \* the requests in progress
  halved,      \* auxiliary: a password was written and its counter was not
  overwritten, \* auxiliary: a request wrote back settings from before a rotation
  client,      \* the consumer process
  health,      \* status of the "datahub" health row
  proof,       \* auxiliary: the client has been seen working since its last fault
  produced,    \* events on the topic
  committed,   \* offset of the consumer group, NoOffset before its first commit
  first,       \* auxiliary: where the group started to read
  dispatched,  \* events handed to the router
  skipped,     \* events that could not be deserialized
  failures

config == <<row, password, req, halved, overwritten>>
events == <<produced, committed, first, dispatched, skipped>>
vars == <<config, client, health, proof, events, failures>>

NoConnection == [brokers |-> "", mech |-> "PLAINTEXT", version |-> -1]
NoOffset == -1
NoBody == [gms |-> "none", brokers |-> "none", mech |-> "none", pw |-> "none"]
NoClient == [pc |-> "idle", conn |-> NoConnection, pw |-> "", error |-> FALSE, connected |-> FALSE, pos |-> NoOffset]

Failing == failures < MaxFaults /\ failures' = failures + 1

Init ==
  /\ \E s \in Starts : row = s[1] /\ password = s[2]
  /\ req = [r \in Requests |-> [pc |-> "idle", body |-> NoBody, mech |-> "none", seen |-> NoRow]]
  /\ halved = FALSE /\ overwritten = FALSE
  /\ client = NoClient
  /\ health = "unknown" /\ proof = FALSE
  /\ produced = 0 /\ committed = NoOffset /\ first = NoOffset
  /\ dispatched = {} /\ skipped = {}
  /\ failures = 0

------------------------------------------------------------------------------
\* PATCH /peripherals/datahub

\* AWS_MSK_IAM takes no password and no broker but those of MSK.
check_kafka_security(s, pw) ==
  s.mech = "AWS_MSK_IAM" => s.brokers \in MskBrokers /\ pw \in {"none", ""}

_effective_kafka_field(new, old) == IF new = "none" THEN old ELSE new

\* The row with the keys of the body written over it: the whole settings column is
\* written back, and a first write starts from the defaults.
_merge(base, body, bump) ==
  [gms |-> _effective_kafka_field(body.gms, base.gms),
   brokers |-> _effective_kafka_field(body.brokers, base.brokers),
   mech |-> _effective_kafka_field(body.mech, base.mech),
   version |-> (IF base = NoRow THEN 0 ELSE base.version) + (IF bump THEN 1 ELSE 0)]

Goto(r, pc) == req' = [req EXCEPT ![r].pc = pc]

\* The settings the patch would produce are judged before anything is written.
patch_begins(r) ==
  /\ req[r].pc = "idle"
  /\ \E b \in Bodies :
       req' = [req EXCEPT ![r] =
                 [pc |-> IF check_kafka_security(_merge(row, b, FALSE), b.pw) THEN "checked" ELSE "done",
                  body |-> b, mech |-> _effective_kafka_field(b.mech, row.mech), seen |-> NoRow]]
  /\ UNCHANGED <<row, password, halved, overwritten, client, health, proof, events, failures>>

\* The password to write: the one submitted, or the empty one when the mechanism that
\* results, as it was judged, has no use for a stored one.
PasswordToWrite(r) ==
  IF req[r].body.pw # "none" THEN req[r].body.pw
  ELSE IF req[r].mech = "AWS_MSK_IAM" /\ password # "" THEN "" ELSE "none"

set_datahub_kafka_sasl_password(r) ==
  /\ req[r].pc = "checked" /\ PasswordToWrite(r) # "none"
  /\ password' = PasswordToWrite(r)
  /\ Goto(r, "written")
  /\ UNCHANGED <<row, halved, overwritten, client, health, proof, events, failures>>

\* The Secret cannot be written: 503, and the row is left alone.
secret_unavailable(r) ==
  /\ req[r].pc = "checked" /\ PasswordToWrite(r) # "none"
  /\ Failing
  /\ Goto(r, "done")
  /\ UNCHANGED <<row, password, halved, overwritten, client, health, proof, events>>

\* Read and written over a row locked FOR UPDATE, or inserted; another insert that came
\* first makes it start over, with the lock.
bump_version(r) ==
  /\ req[r].pc = "written"
  /\ row' = _merge(row, req[r].body, TRUE)
  /\ Goto(r, "done")
  /\ UNCHANGED <<password, halved, overwritten, client, health, proof, events, failures>>

\* The transaction fails after the Secret was written.
bump_fails(r) ==
  /\ req[r].pc = "written"
  /\ Failing
  /\ halved' = TRUE
  /\ Goto(r, "done")
  /\ UNCHANGED <<row, password, overwritten, client, health, proof, events>>

\* A patch without a password reads the row with no lock on it.
read_unlocked(r) ==
  /\ req[r].pc = "checked" /\ PasswordToWrite(r) = "none"
  /\ req' = [req EXCEPT ![r].pc = "seen", ![r].seen = row]
  /\ UNCHANGED <<row, password, halved, overwritten, client, health, proof, events, failures>>

\* It writes back all of what it read, with its keys, when that differs from what it
\* read; only an insert that meets a row reads again.
write_unlocked(r) ==
  /\ req[r].pc = "seen"
  /\ LET base == IF req[r].seen = NoRow THEN row ELSE req[r].seen
         merged == _merge(base, req[r].body, FALSE)
     IN /\ row' = IF merged = base THEN row ELSE merged
        /\ overwritten' = (overwritten \/ row'.version < row.version)
  /\ Goto(r, "done")
  /\ UNCHANGED <<password, halved, client, health, proof, events, failures>>

------------------------------------------------------------------------------
\* The event consumer.  Its process may be killed and restarted at any time.

\* A bug: the counter is no part of the connection.
KafkaConnection_settings(s) == [brokers |-> s.brokers, mech |-> s.mech, version |-> 0]

\* What is compared to find out that the connection changed.
KafkaConnection(s) == [brokers |-> s.brokers, mech |-> s.mech, version |-> s.version]

read_kafka_connection ==
  /\ client.pc = "idle" /\ row.brokers # ""
  /\ client' = [NoClient EXCEPT !.pc = "configured", !.conn = KafkaConnection(row)]
  /\ UNCHANGED <<config, health, proof, events, failures>>

\* The settings are judged again, and the password is read past the cache.
CanBuild ==
  /\ check_kafka_security(client.conn, "none")
  /\ client.conn.mech = "SCRAM" => password # ""

build_consumer_config ==
  /\ client.pc = "configured" /\ CanBuild
  /\ client' = [client EXCEPT !.pc = "polling",
                              !.pw = IF client.conn.mech = "SCRAM" THEN password ELSE ""]
  /\ proof' = FALSE
  /\ UNCHANGED <<config, health, events, failures>>

config_invalid ==
  /\ client.pc = "configured" /\ ~CanBuild
  /\ client' = NoClient
  /\ health' = "error"
  /\ UNCHANGED <<config, proof, events, failures>>

\* The settings cannot be read, the client cannot be started, or the loop raises.
loop_fails ==
  /\ Failing
  /\ client' = NoClient
  /\ health' = "error"
  /\ UNCHANGED <<config, proof, events>>

consumer_dies ==
  /\ client # NoClient /\ Failing
  /\ client' = NoClient
  /\ UNCHANGED <<config, health, proof, events>>

\* _on_assign: the group join succeeded.  Without a committed offset the client starts
\* at the end of the topic: what arrived while nothing was committed and no client was
\* assigned is lost, and first, from where nothing may be passed over, moves there.
on_assign ==
  /\ client.pc = "polling" /\ client.pos = NoOffset
  /\ LET start == IF committed = NoOffset THEN produced ELSE committed
     IN /\ client' = [client EXCEPT !.pos = start, !.error = FALSE, !.connected = TRUE]
        /\ first' = IF committed = NoOffset THEN start ELSE first
  /\ proof' = TRUE
  /\ UNCHANGED <<config, health, produced, committed, dispatched, skipped, failures>>

\* error_cb: authentication failed, or all brokers are down.
error_cb ==
  /\ client.pc = "polling"
  /\ Failing
  /\ client' = [client EXCEPT !.error = TRUE]
  /\ proof' = FALSE
  /\ UNCHANGED <<config, health, events>>

event_arrives ==
  /\ produced < MaxEvents
  /\ produced' = produced + 1
  /\ UNCHANGED <<config, client, health, proof, committed, first, dispatched, skipped, failures>>

Polled == client.pc = "polling" /\ client.pos # NoOffset /\ client.pos < produced

\* A bug: the offset is committed as the message is polled.
poll_event_commits ==
  /\ Polled
  /\ client' = [client EXCEPT !.pc = "handling"]
  /\ committed' = client.pos + 1
  /\ UNCHANGED <<config, health, proof, produced, first, dispatched, skipped, failures>>

poll_event ==
  /\ Polled
  /\ client' = [client EXCEPT !.pc = "handling"]
  /\ UNCHANGED <<config, health, proof, events, failures>>

\* A message that cannot be deserialized is committed and left behind.
skip_event ==
  /\ Polled
  /\ client' = [client EXCEPT !.pos = @ + 1]
  /\ committed' = client.pos + 1
  /\ skipped' = skipped \cup {client.pos + 1}
  /\ UNCHANGED <<config, health, proof, produced, first, dispatched, failures>>

\* The handlers of the aspect run in turn.  One that raised a retryable error would leave
\* the message as commit_fails does; those that are registered swallow theirs.
dispatch ==
  /\ client.pc = "handling"
  /\ dispatched' = dispatched \cup {client.pos + 1}
  /\ client' = [client EXCEPT !.pc = "handled"]
  /\ UNCHANGED <<config, health, proof, produced, committed, first, skipped, failures>>

\* commit is asynchronous: the code does not wait for the broker's answer before it takes
\* the connection for a working one, and clears the latch.
commit_event ==
  /\ client.pc = "handled"
  /\ committed' = client.pos + 1
  /\ client' = [client EXCEPT !.pc = "polling", !.pos = @ + 1, !.error = FALSE, !.connected = TRUE]
  /\ proof' = TRUE
  /\ UNCHANGED <<config, health, produced, first, dispatched, skipped, failures>>

\* The commit raises: the client goes on behind the message.
commit_fails ==
  /\ client.pc = "handled"
  /\ Failing
  /\ client' = [client EXCEPT !.pc = "polling", !.pos = @ + 1]
  /\ UNCHANGED <<config, health, proof, events>>

\* A latched fault outranks everything, and "ok" needs a connection that was seen to work.
Reported ==
  IF client.error THEN "error" ELSE IF client.connected THEN "ok" ELSE health

\* A bug: the latch is cleared when it is read.
AfterReport_clears == [client EXCEPT !.error = FALSE]
AfterReport == client

\* Every few polls: health is reported, and the row is compared with the connection.
reconfig_check ==
  /\ client.pc = "polling"
  /\ health' = Reported
  /\ client' = IF row.brokers # "" /\ KafkaConnection(row) = client.conn THEN AfterReport ELSE NoClient
  /\ UNCHANGED <<config, proof, events, failures>>

\* The health row cannot be written; the loop goes on.
report_lost ==
  /\ client.pc = "polling" /\ Reported # health
  /\ Failing
  /\ client' = IF row.brokers # "" /\ KafkaConnection(row) = client.conn THEN client ELSE NoClient
  /\ UNCHANGED <<config, health, proof, events>>

PatchStep(r) ==
  \/ set_datahub_kafka_sasl_password(r) \/ secret_unavailable(r)
  \/ bump_version(r) \/ bump_fails(r)
  \/ read_unlocked(r) \/ write_unlocked(r)

ConsumerStep ==
  \/ read_kafka_connection \/ build_consumer_config \/ config_invalid
  \/ dispatch \/ commit_event \/ commit_fails

BrokerStep == on_assign \/ error_cb \/ event_arrives \/ poll_event \/ skip_event

Next ==
  \/ \E r \in Requests : patch_begins(r) \/ PatchStep(r)
  \/ ConsumerStep \/ BrokerStep
  \/ reconfig_check \/ report_lost \/ loop_fails \/ consumer_dies

Spec == Init /\ [][Next]_vars

\* A request that began is carried on, the consumer's loop is, and it is restarted when it
\* dies; every fifth poll, idle ones included, comes to the check.
Fairness ==
  /\ \A r \in Requests : WF_vars(PatchStep(r))
  /\ WF_vars(ConsumerStep)
  /\ WF_vars(reconfig_check)

FairSpec == Spec /\ Fairness

------------------------------------------------------------------------------
\* Properties

Running == client.pc \in {"polling", "handling", "handled"}

\* The consumer holds a client for the stored settings and the stored password, or none
\* when no client can be built from them.
UpToDate ==
  Running => /\ client.conn = KafkaConnection(row)
             /\ client.conn.mech = "SCRAM" => client.pw = password

\* Any write of the password "bumps kafka_sasl_password_version, which is what makes a
\* Secret-only rotation visible to the consumer" (_apply_datahub_patch_and_respond): once
\* the requests are over, the consumer ends up with the stored password.  Excluded are the
\* rotation the code reports as half applied, and one a concurrent patch wrote over.
ConsumerConverges == <>[](halved \/ overwritten \/ UpToDate)

\* KafkaFaultState, the sticky latch: the health row turns to "ok" only when the present
\* client was seen to work after its last fault, across rebuilds and restarts.
OkNeedsEvidence == [][health # "ok" /\ health' = "ok" => proof]_vars

\* Manual commits: whatever precedes the committed offset was handed to the handlers or
\* could not be deserialized, whenever the consumer dies.  It counts from where the group
\* last started without a committed offset: events before that may be lost (on_assign).
CommittedWasDispatched ==
  \A e \in first + 1 .. committed : e \in dispatched \cup skipped

\* BACKEND_SCHEMA.md, settings: the counter "changes whenever the password Secret is
\* written, so a running consumer detects a rotation from the DB row alone".  Only the
\* rotation that the code reports as half applied is excluded.
RotationDetected == <>[](halved \/ UpToDate)

==============================================================================

------------------------------- MODULE Debate -------------------------------
(* One adversarial debate of ontogen or metagen, and what its run stores:    *)
(* the Producer's bounded tool loop, its offer, the Reviewer's verdict, and   *)
(* the revision, until an outcome; then the rows of the last payload with     *)
(* their status.  Nothing else runs inside a debate: what is hard here is     *)
(* that two loops nest, that every answer of a model may be missing, of the   *)
(* wrong tool, malformed or invalid, and that any call may fail.  Prompts and *)
(* RAG anchors only shape what a model answers, which is arbitrary here; a    *)
(* payload stands for its canonical hash (SHA-256 of its sorted JSON).        *)
EXTENDS Validators

CONSTANTS
  OntogenPayloads,  \* what the Producer of ontogen may propose
  MetagenPayloads,
  MaxIterations,    \* {ontogen,metagen}_llm_max_iterations
  MaxTurns          \* bound: the largest debate_max_turns

Services == {"ontogen", "metagen"}
Proposals(s) == IF s = "ontogen" THEN OntogenPayloads ELSE MetagenPayloads
Payloads(s) == Proposals(s) \cup {Nothing}

ASSUME DebateAssumption ==
  /\ MaxIterations \in Nat \ {0} /\ MaxTurns \in Nat \ {0, 1}
  /\ OntogenPayloads \subseteq OntogenSchema \cup {Malformed}
  /\ MetagenPayloads \subseteq MetagenSchema \cup {Malformed}

VARIABLES
  service,    \* which of the two services debates
  max_turns,  \* the turn limit that its run read from the runtime conf
  phase,
  iteration,  \* of complete_with_tools, in the Producer's turn
  proposed,   \* last_payload of that loop
  payload,    \* last_producer_payload
  turns,      \* turns_completed
  history,    \* the entries of the transcript
  outcome,
  stored      \* the rows the run persists, with their status

vars == <<service, max_turns, phase, iteration, proposed, payload, turns, history, outcome, stored>>

Phases == {"producer", "offered", "reviewer", "over", "done", "failed"}
Verdicts == {"accept", "revise", "reject"}
Outcomes == {"accept", "turns_exhausted", "cycle_detected"}
Settled == {"done", "failed"}

validate(p) ==
  IF service = "ontogen" THEN validate_ontogen_output(p) ELSE validate_metagen_output(p)

Init ==
  /\ service \in Services
  /\ max_turns \in 2 .. MaxTurns
  /\ phase = "producer" /\ iteration = 0
  /\ proposed = Nothing /\ payload = Nothing
  /\ turns = 0 /\ history = <<>>
  /\ outcome = "open" /\ stored = {}

------------------------------------------------------------------------------
\* The Producer's turn: complete_with_tools.

\* A bug: a new proposal gets the whole budget again.
Iterated_restarts(p, accepted) ==
  /\ iteration' = IF p = proposed THEN iteration + 1 ELSE 1
  /\ proposed' = p
  /\ phase' = IF accepted \/ iteration' = MaxIterations THEN "offered" ELSE "producer"
  /\ UNCHANGED <<service, max_turns, payload, turns, history, outcome, stored>>

\* An iteration ends the loop when it was the last one; the last proposal is
\* returned then, whatever its errors.
Iterated(p, accepted) ==
  /\ iteration' = iteration + 1
  /\ proposed' = p
  /\ phase' = IF accepted \/ iteration' = MaxIterations THEN "offered" ELSE "producer"
  /\ UNCHANGED <<service, max_turns, payload, turns, history, outcome, stored>>

\* A recoverable error of the call, no tool call, or calls of another tool only.
no_proposal == phase = "producer" /\ Iterated(proposed, FALSE)

\* The validator finds errors in the proposal, or the validating tool itself fails.
invalid_proposal == phase = "producer" /\ \E p \in Proposals(service) : Iterated(p, FALSE)

valid_proposal ==
  /\ phase = "producer"
  /\ \E p \in Proposals(service) : validate(p) = {} /\ Iterated(p, TRUE)

\* Any other exception of a call to a model ends the run.
call_fails ==
  /\ phase \in {"producer", "reviewer"}
  /\ phase' = "failed"
  /\ UNCHANGED <<service, max_turns, iteration, proposed, payload, turns, history, outcome, stored>>

------------------------------------------------------------------------------
\* The turns of run_debate.

Offered(p) == [actor |-> "producer", offer |-> p, verdict |-> ""]
Reviewed(v) == [actor |-> "reviewer", offer |-> Nothing, verdict |-> v]

producer_hashes == {history[i].offer : i \in {j \in DOMAIN history : history[j].actor = "producer"}}

\* A bug: an offer is only compared with the one before it.
Repeats_last(p) == turns > 0 /\ p = payload
Repeats(p) == p \in producer_hashes

\* A bug: one turn too many.
Exhausted_late == turns' > max_turns
Exhausted == turns' >= max_turns

producer_turn ==
  /\ phase = "offered"
  /\ payload' = proposed
  /\ history' = Append(history, Offered(proposed))
  /\ turns' = turns + 1
  /\ outcome' = IF Repeats(proposed) THEN "cycle_detected"
                ELSE IF Exhausted THEN "turns_exhausted" ELSE outcome
  /\ phase' = IF outcome' = "open" THEN "reviewer" ELSE "over"
  /\ UNCHANGED <<service, max_turns, iteration, proposed, stored>>

\* The Reviewer has one iteration; an answer that is none counts as "revise".  The
\* next Producer turn starts its own loop, from no proposal.
reviewer_turn ==
  /\ phase = "reviewer"
  /\ \E v \in Verdicts :
       /\ history' = Append(history, Reviewed(v))
       /\ turns' = turns + 1
       /\ outcome' = IF v = "accept" THEN "accept"
                     ELSE IF Exhausted THEN "turns_exhausted" ELSE outcome
  /\ phase' = IF outcome' = "open" THEN "producer" ELSE "over"
  /\ iteration' = 0 /\ proposed' = Nothing
  /\ UNCHANGED <<service, max_turns, payload, stored>>

------------------------------------------------------------------------------
\* What the run keeps of the debate.

\* A bug: the score alone decides.
_status_for_outcome_score(score) == IF score = "high" THEN "llm_approved" ELSE "llm_pending"

_status_for_outcome(score) ==
  IF outcome = "accept" /\ score = "high" THEN "llm_approved" ELSE "llm_pending"

Stored(collection, rows) ==
  {[of |-> collection, at |-> i, row |-> rows[i], status |-> _status_for_outcome(rows[i].score)] :
     i \in DOMAIN rows}

\* The errors handed to the partition are always the empty list.
final_validation_errors == {}

OntogenRows ==
  LET out == OntogenOutput(payload)
      clean == partition_clean_rows(out, final_validation_errors)
  IN IF out = Malformed THEN {}
     ELSE Stored("nodes", clean.nodes) \cup Stored("edges", clean.edges)
            \cup Stored("triples", clean.triples)

store_ontogen ==
  /\ phase = "over" /\ service = "ontogen"
  /\ stored' = OntogenRows
  /\ phase' = "done"
  /\ UNCHANGED <<service, max_turns, iteration, proposed, payload, turns, history, outcome>>

\* Only an accepted debate persists anything, and of it what reaches the threshold.
MetagenRows ==
  LET out == MetagenOutput(payload)
  IN IF outcome # "accept" \/ out = Malformed THEN {}
     ELSE {r \in Stored("candidates", out.candidates) : r.row.score = "high"}

store_metagen ==
  /\ phase = "over" /\ service = "metagen"
  /\ stored' = MetagenRows
  /\ phase' = "done"
  /\ UNCHANGED <<service, max_turns, iteration, proposed, payload, turns, history, outcome>>

ProducerStep == no_proposal \/ invalid_proposal \/ valid_proposal \/ producer_turn
StoreStep == store_ontogen \/ store_metagen
Next == ProducerStep \/ reviewer_turn \/ call_fails \/ StoreStep

Spec == Init /\ [][Next]_vars

\* The worker that runs the debate is scheduled again after every await, and every
\* call to a model returns or raises.
FairSpec == Spec /\ WF_vars(Next)

------------------------------------------------------------------------------
\* Properties

Entry == [actor : {"producer", "reviewer"}, offer : Payloads(service), verdict : Verdicts \cup {""}]

\* run_debate: the loops stay within max_iterations and max_turns, and turns_completed
\* counts the entries of the history, Producer and Reviewer in alternation.
DebateTypeOK ==
  /\ service \in Services /\ max_turns \in 2 .. MaxTurns
  /\ phase \in Phases
  /\ iteration \in 0 .. MaxIterations
  /\ proposed \in Payloads(service) /\ payload \in Payloads(service)
  /\ turns \in 0 .. max_turns
  /\ outcome \in Outcomes \cup {"open"}
  /\ history \in Seq(Entry)
  /\ Len(history) = turns
  /\ \A i \in DOMAIN history : history[i].actor = IF i % 2 = 1 THEN "producer" ELSE "reviewer"

N == INSTANCE Negotiation WITH
       Offers <- OntogenPayloads \cup MetagenPayloads \cup {Nothing},
       NoOffer <- Nothing,
       limit <- max_turns,
       tabled <- producer_hashes,
       current <- payload,
       moves <- turns,
       result <- IF phase = "failed" THEN "failed" ELSE outcome

\* "Terminates on: Reviewer accept, max_turns exhausted, or cycle detected" (run_debate):
\* the nested loops implement the negotiation, in which an agreement is the Reviewer's
\* answer to the offer that is returned and no offer is discussed twice.
Negotiates == N!Spec

\* partition_clean_rows: what is left of a proposal once the rows with errors are dropped
\* is valid, since no triple is left that refers to a dropped row.  Proved, and not checked:
\* its only caller, OntogenRows, gives it no errors.
PartitionIsClean ==
  LET out == OntogenOutput(proposed)
  IN service = "ontogen" /\ out # Malformed
       => validate_ontogen_output(partition_clean_rows(out, validate_ontogen_output(out))) = {}

\* A row is auto-approved only if the Reviewer, in the last turn, accepted the offer that
\* holds it; metagen stores no other row.
StoredWasAgreed ==
  \A r \in stored :
    r.status = "llm_approved" \/ service = "metagen"
      => /\ r.status = "llm_approved" /\ r.row.score = "high"
         /\ history[turns] = Reviewed("accept")
         /\ r.row \in Range(history[turns - 1].offer[r.of])

\* Every debate ends, with an outcome or a failure: no answer of a model keeps a run
\* in one of its loops.
DebateEnds == <>(phase \in Settled)

\* BACKEND_LLM.md, exhaustion: "The last candidate is accepted; rows that fail individual
\* rules are dropped before persistence."  It does not hold: the errors that are given to
\* partition_clean_rows are always none (final_validation_errors).
RowsValid ==
  \A e \in validate(payload) : \A r \in stored : ~(r.of = e.of /\ r.at = e.at)

==============================================================================

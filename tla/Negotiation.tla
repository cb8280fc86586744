---------------------------- MODULE Negotiation -----------------------------
(* What a Producer/Reviewer debate promises, whatever happens inside its    *)
(* turns: the parties alternate, no offer is tabled twice, an agreement is   *)
(* the last answer to the last offer, and after at most limit moves there    *)
(* is a result.                                                             *)
EXTENDS Integers

CONSTANTS Offers, NoOffer

VARIABLES
  limit,    \* the number of moves after which the talks are over
  tabled,   \* the offers made so far
  current,  \* the last offer
  moves,    \* offers and answers made
  result    \* "open" while the talks go on

vars == <<limit, tabled, current, moves, result>>

Init ==
  /\ limit \in Nat \ {0, 1}
  /\ tabled = {} /\ current = NoOffer /\ moves = 0 /\ result = "open"

\* The result after a move that settles nothing.
Undecided == IF moves + 1 >= limit THEN "turns_exhausted" ELSE "open"

Offer(o) ==
  /\ result = "open" /\ moves % 2 = 0 /\ moves < limit
  /\ current' = o
  /\ moves' = moves + 1
  /\ tabled' = tabled \cup {o}
  /\ result' = IF o \in tabled THEN "cycle_detected" ELSE Undecided
  /\ UNCHANGED limit

Answer(agreed) ==
  /\ result = "open" /\ moves % 2 = 1 /\ moves < limit
  /\ moves' = moves + 1
  /\ result' = IF agreed THEN "accept" ELSE Undecided
  /\ UNCHANGED <<limit, tabled, current>>

BreakOff ==
  /\ result = "open" /\ result' = "failed"
  /\ UNCHANGED <<limit, tabled, current, moves>>

Next ==
  \/ \E o \in Offers : Offer(o)
  \/ \E agreed \in BOOLEAN : Answer(agreed)
  \/ BreakOff

Spec == Init /\ [][Next]_vars

==============================================================================

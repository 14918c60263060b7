------------------------------- MODULE SagaStep ------------------------------
(***************************************************************************)
(* What a choreography step promises, whatever its service does inside: for *)
(* each order it reaches one outcome, once and for all, and announces that *)
(* outcome, and no other, at most once.                                    *)
(***************************************************************************)
EXTENDS Naturals

CONSTANTS Orders, Outcomes, Undecided

VARIABLES
  outcome,     \* the outcome of each order, or Undecided
  announced    \* how many times each outcome of each order was announced

Init ==
  /\ outcome = [o \in Orders |-> Undecided]
  /\ announced = [o \in Orders |-> [s \in Outcomes |-> 0]]

Decide(o, s) ==
  /\ outcome[o] = Undecided
  /\ outcome' = [outcome EXCEPT ![o] = s]
  /\ UNCHANGED announced

Announce(o) ==
  /\ outcome[o] # Undecided
  /\ announced[o][outcome[o]] = 0
  /\ announced' = [announced EXCEPT ![o][outcome[o]] = 1]
  /\ UNCHANGED outcome

Next == \E o \in Orders : Announce(o) \/ \E s \in Outcomes : Decide(o, s)

Spec == Init /\ [][Next]_<<outcome, announced>>
=============================================================================

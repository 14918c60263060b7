------------------------------ MODULE MCPayment ------------------------------
(***************************************************************************)
(* Constants for model checking PaymentService.                            *)
(***************************************************************************)
EXTENDS PaymentService, TLC

CONSTANTS o1, p1, p2, w1, w2

Accepted(id, total, form) ==
  [id |-> id, type |-> "kitchen.accepted", order |-> o1, total |-> total, form |-> form]
Cancel(id) ==
  [id |-> id, type |-> "order.cancelled", order |-> o1, total |-> 0, form |-> "valid"]

\* One charge, one cancellation.
JustOne == {Accepted(1, 10, "valid"), Cancel(2)}

\* Two copies of kitchen.accepted and a cancellation race for one order, with an event
\* the schema rejects and one that is not JSON; a closed connection adds copies.
Everything ==
  JustOne \cup
  {Accepted(3, 10, "valid"), Accepted(4, 0, "invalid"), Accepted(5, 0, "garbled")}

Replicas == (w1 :> p1) @@ (w2 :> p2)
=============================================================================

----------------------------- MODULE MCDelivery ------------------------------
(***************************************************************************)
(* Constants for model checking Compensation: one order, two delivery      *)
(* callbacks in replicas of their own, one kitchen callback.               *)
(***************************************************************************)
EXTENDS Compensation, TLC

CONSTANTS o1, p1, p2, p3, w1, w2, w3

Event(id, type, form) == [id |-> id, type |-> type, order |-> o1, form |-> form]

\* A payment, whose copies come from redelivery; one that is not JSON; a cancellation for
\* each of the three handlers.
CancelledOrder ==
  {Event(1, "payment.succeeded", "valid"), Event(2, "payment.succeeded", "garbled"),
   Event(3, "order.cancelled", "valid"), Event(4, "kitchen.order.cancelled", "valid"),
   Event(5, OrderCancelled, "valid")}

Replicas == (w1 :> p1) @@ (w2 :> p2) @@ (w3 :> p3)
=============================================================================

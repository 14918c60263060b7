--------------------------- MODULE MCNotification ---------------------------
(***************************************************************************)
(* Constants for model checking NotificationService.                       *)
(***************************************************************************)
EXTENDS NotificationService, TLC

CONSTANTS o1, p1, p2, w1, w2, w3

Event(id, type, form) == [id |-> id, type |-> type, order |-> o1, form |-> form]

\* A copy of order.created, another event of the same order, and one that is not JSON.
Copies ==
  {Event(1, "order.created", "valid"), Event(2, "order.created", "valid"),
   Event(3, "payment.refund", "valid"), Event(4, "order.created", "garbled")}

\* p1 runs two callbacks at once, p2 one.
ThreeCallbacks == (w1 :> p1) @@ (w2 :> p1) @@ (w3 :> p2)
=============================================================================

------------------------------- MODULE MCOrder -------------------------------
(***************************************************************************)
(* Constants for model checking OrderService.                              *)
(***************************************************************************)
EXTENDS OrderService, TLC

CONSTANTS o1, p1, p2, w1, w2, k1, k2

Created(id, form) == [id |-> id, type |-> "order.created", order |-> o1, form |-> form]
Assigned(id) == [id |-> id, type |-> "delivery.assigned", order |-> o1, form |-> "valid"]
Request(id, key, process, reasonOk) ==
  [id |-> id, order |-> o1, key |-> key, process |-> process, reasonOk |-> reasonOk]

\* An order and its assignment; copies come from redelivery.  (Events that are not JSON
\* meet the same consumers in the instances of the other services.)
Everything == {Created(1, "valid"), Assigned(2)}

\* Two requests at one replica with one key, one without a key at the other.
Retries ==
  {Request(1, k1, p1, TRUE), Request(2, k1, p1, TRUE), Request(3, NoKey, p2, FALSE)}

ASSUME ClientsKeepTheirKeys == KeysNameOrders

Replicas == (w1 :> p1) @@ (w2 :> p2)
=============================================================================

------------------------- MODULE KitchenCancellation ------------------------
(***************************************************************************)
(* services/kitchen: the order.cancelled handler of                        *)
(* events/subscribeOrderCancellation, one action per await.  It works on   *)
(* the MongoDB collection kitchenOrders, which nothing in src/ writes: its *)
(* documents are there, or not, from the start.                            *)
(***************************************************************************)
EXTENDS EventBus

CONSTANTS
  KitchenOrders,   \* the orders the collection can hold
  Cooks            \* the callbacks that run this service's handler

\* The queue kitchen_service.order_cancelled has its own copy of each order.cancelled.
OrderCancelled == "order.cancelled to the kitchen"

ASSUME KitchenCancellationAssumption ==
  /\ Cooks \subseteq Workers
  /\ \A m \in Messages : m.type = OrderCancelled => m.order \in KitchenOrders

VARIABLES
  kitchenOrders,      \* the documents' statuses, "none" where there is no document
  cancelledOrders,    \* the processed-event keys, by order
  passedOn            \* history: the orders kitchen.order.cancelled was published for

kitchenVars == <<kitchenOrders, cancelledOrders, passedOn>>

KitchenAwaits ==
  {"findKitchen", "readOrder", "cancelOrder", "publishKitchen", "markKitchen"}

KitchenTypeOK ==
  /\ kitchenOrders \in [KitchenOrders -> {"none", "PLACED", "CANCELLED"}]
  /\ cancelledOrders \in SUBSET KitchenOrders
  /\ passedOn \in SUBSET KitchenOrders

KitchenInit ==
  /\ kitchenOrders \in [KitchenOrders -> {"none", "PLACED"}]
  /\ cancelledOrders = {}
  /\ passedOn = {}

FindProcessedCancellation(w) ==
  /\ pc[w] = "findKitchen"
  /\ Goto(w, IF msg[w].order \in cancelledOrders THEN "ack" ELSE "readOrder")
  /\ UNCHANGED kitchenVars

\* No document: straight to the marker, and nothing is passed on.
ReadKitchenOrder(w) ==
  /\ pc[w] = "readOrder"
  /\ Goto(w, IF kitchenOrders[msg[w].order] = "none" THEN "markKitchen" ELSE "cancelOrder")
  /\ UNCHANGED kitchenVars

\* A handler that marks where it should publish.
CancelWithoutPublishing(w) ==
  /\ pc[w] = "cancelOrder"
  /\ kitchenOrders' = [kitchenOrders EXCEPT ![msg[w].order] = "CANCELLED"]
  /\ Goto(w, "markKitchen")
  /\ UNCHANGED <<cancelledOrders, passedOn>>

CancelKitchenOrder(w) ==
  /\ pc[w] = "cancelOrder"
  /\ kitchenOrders' = [kitchenOrders EXCEPT ![msg[w].order] = "CANCELLED"]
  /\ Goto(w, "publishKitchen")
  /\ UNCHANGED <<cancelledOrders, passedOn>>

\* The routing key is kitchen_service.kitchen_order_cancelled: no queue is bound to it, so
\* the exchange takes the event and nobody gets it.
PublishKitchenCancelled(w) ==
  /\ pc[w] = "publishKitchen"
  /\ \/ /\ Connected(w)
        /\ passedOn' = passedOn \cup {msg[w].order}
        /\ Goto(w, "markKitchen")
     \/ /\ PublishFails(w)
        /\ UNCHANGED passedOn
  /\ UNCHANGED <<kitchenOrders, cancelledOrders>>

MarkKitchenCancellation(w) ==
  /\ pc[w] = "markKitchen"
  /\ cancelledOrders' = cancelledOrders \cup {msg[w].order}
  /\ Goto(w, "ack")
  /\ UNCHANGED <<kitchenOrders, passedOn>>

CancelInKitchen(w) ==
  \/ FindProcessedCancellation(w) \/ ReadKitchenOrder(w) \/ CancelKitchenOrder(w)
  \/ PublishKitchenCancelled(w) \/ MarkKitchenCancellation(w)
  \/ Ack(w) /\ UNCHANGED kitchenVars

ReceiveInKitchen ==
  \E w \in Cooks, m \in Messages :
    m.type = OrderCancelled /\ Deliver(w, m, "findKitchen") /\ UNCHANGED kitchenVars

KitchenDatabaseFault ==
  \E w \in Cooks :
    DatabaseFails(w, KitchenAwaits \ {"publishKitchen"}) /\ UNCHANGED kitchenVars
=============================================================================

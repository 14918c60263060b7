-------------------------------- MODULE Saga --------------------------------
(***************************************************************************)
(* The order saga as the five event-driven services wire it up: which      *)
(* queues each lib/rabbitmq.ts declares and binds, which of them each      *)
(* app.ts consumes and in which order, which routing key each handler      *)
(* publishes to.  A handler is one step here (the service modules take it  *)
(* apart); processes start, subscribe one consumer at a time, and crash.   *)
(***************************************************************************)
EXTENDS Naturals, Sequences

CONSTANTS
  Orders, Unwritten,
  EmptyOrders,    \* the orders without items
  ExternalKeys,   \* the keys that publishers outside this repository use
  Cancellable,    \* the orders whose cancel request gets past the missing body parser
  MaxCrashes      \* bound: how many processes crash

Services == {"order", "kitchen", "payment", "delivery", "notification"}

Outcomes == {"kitchen.accepted", "kitchen.rejected", "payment.succeeded", "payment.failed",
             "delivery.assigned"}
Keys == {"order.created", "order.cancelled"} \cup Outcomes

ASSUME SagaAssumption ==
  /\ Unwritten \notin {"CREATED", "CANCELLED", "DELIVERY_ASSIGNED", "ACCEPTED", "REJECTED",
                     "SUCCEEDED", "ASSIGNED"}
  /\ EmptyOrders \subseteq Orders
  /\ ExternalKeys \subseteq Keys
  /\ Cancellable \subseteq Orders
  /\ MaxCrashes \in Nat

\* The keys for which initRabbitMQ declares a queue of the service and binds it.
QUEUES ==
  [order |-> {"order.created"} \cup Outcomes,
   kitchen |-> {"order.created"},
   payment |-> {"kitchen.accepted"},
   delivery |-> {"payment.succeeded"},
   notification |-> {"order.created"} \cup Outcomes]

\* The queues createServer consumes, by their keys and in the order of its awaits.
Consumers ==
  [order |-> <<"order.created", "delivery.assigned">>,
   kitchen |-> <<"order.created">>,
   payment |-> <<"kitchen.accepted", "order.cancelled">>,
   delivery |-> <<"payment.succeeded">>,
   notification |-> <<"order.created", "kitchen.accepted", "kitchen.rejected",
                      "payment.succeeded", "payment.failed", "delivery.assigned">>]

\* An event: its order and whether its data carries the total.
Events == [order : Orders, total : BOOLEAN]
Queues == {q \in Services \X Keys : q[2] \in QUEUES[q[1]]}

VARIABLES
  running,         \* the services whose process is up
  attached,        \* how many of its consumers each process has attached
  declared,        \* the queues that exist: they are durable
  queues,          \* what each queue holds
  placed,          \* the events published from outside: <<key, order>>
  orders, kitchenOrders, payments, deliveries,   \* the services' rows, by order
  notified,        \* the events customers were notified of: <<key, order>>
  crashes

lifecycle == <<running, attached, declared>>
rows == <<orders, kitchenOrders, payments, deliveries, notified>>
sagaVars == <<running, attached, declared, queues, placed, orders, kitchenOrders, payments,
              deliveries, notified, crashes>>

SagaTypeOK ==
  /\ running \in SUBSET Services
  /\ attached \in [Services -> 0 .. 6]
  /\ \A s \in Services : attached[s] <= Len(Consumers[s]) /\ (s \notin running => attached[s] = 0)
  /\ declared \in SUBSET Queues
  /\ queues \in [Queues -> SUBSET Events]
  /\ \A q \in Queues : q \notin declared => queues[q] = {}
  /\ placed \in SUBSET (ExternalKeys \X Orders)
  /\ orders \in [Orders -> {"CREATED", "CANCELLED", "DELIVERY_ASSIGNED", Unwritten}]
  /\ kitchenOrders \in [Orders -> {"ACCEPTED", "REJECTED", Unwritten}]
  /\ payments \in [Orders -> {"SUCCEEDED", Unwritten}]
  /\ deliveries \in [Orders -> {"ASSIGNED", Unwritten}]
  /\ notified \in SUBSET (Keys \X Orders)
  /\ crashes \in 0 .. MaxCrashes

SagaInit ==
  /\ running = {}
  /\ attached = [s \in Services |-> 0]
  /\ declared = {}
  /\ queues = [q \in Queues |-> {}]
  /\ placed = {}
  /\ orders = [o \in Orders |-> Unwritten]
  /\ kitchenOrders = [o \in Orders |-> Unwritten]
  /\ payments = [o \in Orders |-> Unwritten]
  /\ deliveries = [o \in Orders |-> Unwritten]
  /\ notified = {}
  /\ crashes = 0

\* ------------------------------------------------------------- processes

\* The process starts: it declares its queues before it consumes any.
Start(s) ==
  /\ s \notin running
  /\ running' = running \cup {s}
  /\ declared' = declared \cup ({s} \X QUEUES[s])
  /\ UNCHANGED <<attached, queues, placed, rows, crashes>>

Stop(s) ==
  /\ running' = running \ {s}
  /\ attached' = [attached EXCEPT ![s] = 0]

\* The next consumeEvent of createServer.  Consuming a queue that does not exist
\* closes the channel and rejects: the process dies, to be started again.
Subscribe(s) ==
  /\ s \in running
  /\ attached[s] < Len(Consumers[s])
  /\ \/ /\ <<s, Consumers[s][attached[s] + 1]>> \in declared
        /\ attached' = [attached EXCEPT ![s] = @ + 1]
        /\ UNCHANGED running
     \/ /\ <<s, Consumers[s][attached[s] + 1]>> \notin declared
        /\ Stop(s)
  /\ UNCHANGED <<declared, queues, placed, rows, crashes>>

\* Queues that die with the consumer that declared them.
CrashWithQueues(s) ==
  /\ s \in running
  /\ crashes < MaxCrashes
  /\ Stop(s)
  /\ declared' = declared \ ({s} \X QUEUES[s])
  /\ queues' = [q \in Queues |-> IF q[1] = s THEN {} ELSE queues[q]]
  /\ crashes' = crashes + 1
  /\ UNCHANGED <<placed, rows>>

CrashService(s) ==
  /\ s \in running
  /\ crashes < MaxCrashes
  /\ Stop(s)
  /\ crashes' = crashes + 1
  /\ UNCHANGED <<declared, queues, placed, rows>>

\* --------------------------------------------------------------- messages

\* publishEvent: a copy to every queue bound to the key, none if there is none.
Routed(qs, key, m) ==
  [q \in Queues |-> IF q \in declared /\ q[2] = key THEN qs[q] \cup {m} ELSE qs[q]]

Without(q, m) == [queues EXCEPT ![q] = @ \ {m}]

\* An event from outside enters the exchange: nothing in the repository publishes
\* order.created.  Bound: one such event for an order.
PublishFromOutside(key, o) ==
  /\ \A k \in ExternalKeys : <<k, o>> \notin placed
  /\ placed' = placed \cup {<<key, o>>}
  /\ queues' = Routed(queues, key, [order |-> o, total |-> TRUE])
  /\ UNCHANGED <<lifecycle, rows, crashes>>

\* The consumer is attached and the message is there; a handler touches no process.
Take(s, key, m) ==
  /\ m \in queues[<<s, key>>]
  /\ \E i \in 1 .. attached[s] : Consumers[s][i] = key
  /\ UNCHANGED <<lifecycle, placed, crashes>>

OrderCreated(m) ==
  /\ Take("order", "order.created", m)
  /\ orders' = [orders EXCEPT ![m.order] = IF @ = Unwritten THEN "CREATED" ELSE @]
  /\ queues' = Without(<<"order", "order.created">>, m)
  /\ UNCHANGED <<kitchenOrders, payments, deliveries, notified>>

\* An order that is not there yet: the update throws, the event is dropped.
OrderAssigned(m) ==
  /\ Take("order", "delivery.assigned", m)
  /\ orders' = [orders EXCEPT ![m.order] = IF @ = Unwritten THEN @ ELSE "DELIVERY_ASSIGNED"]
  /\ queues' = Without(<<"order", "delivery.assigned">>, m)
  /\ UNCHANGED <<kitchenOrders, payments, deliveries, notified>>

decideKitchen(m) == IF m.order \in EmptyOrders THEN "REJECTED" ELSE "ACCEPTED"

\* The two keys swapped.
KitchenSwapped(m) ==
  /\ Take("kitchen", "order.created", m)
  /\ kitchenOrders' = [kitchenOrders EXCEPT ![m.order] = decideKitchen(m)]
  /\ queues' = Routed(Without(<<"kitchen", "order.created">>, m),
                 IF decideKitchen(m) = "ACCEPTED" THEN "kitchen.rejected" ELSE "kitchen.accepted",
                 [order |-> m.order, total |-> FALSE])
  /\ UNCHANGED <<orders, payments, deliveries, notified>>

\* The kitchen's events carry the order and no total.
Kitchen(m) ==
  /\ Take("kitchen", "order.created", m)
  /\ kitchenOrders' = [kitchenOrders EXCEPT ![m.order] = decideKitchen(m)]
  /\ queues' = Routed(Without(<<"kitchen", "order.created">>, m),
                 IF decideKitchen(m) = "ACCEPTED" THEN "kitchen.accepted" ELSE "kitchen.rejected",
                 [order |-> m.order, total |-> FALSE])
  /\ UNCHANGED <<orders, payments, deliveries, notified>>

\* The schema of kitchen.accepted demands the total: without it the event is dropped.
\* With it the success goes to a key no queue is bound to.
Payment(m) ==
  /\ Take("payment", "kitchen.accepted", m)
  /\ payments' = [payments EXCEPT ![m.order] = IF m.total THEN "SUCCEEDED" ELSE @]
  /\ queues' = IF m.total
                 THEN Routed(Without(<<"payment", "kitchen.accepted">>, m),
                             "payment_service.payment_succeeded", m)
                 ELSE Without(<<"payment", "kitchen.accepted">>, m)
  /\ UNCHANGED <<orders, kitchenOrders, deliveries, notified>>

Delivery(m) ==
  /\ Take("delivery", "payment.succeeded", m)
  /\ deliveries' = [deliveries EXCEPT ![m.order] = "ASSIGNED"]
  /\ queues' = Routed(Without(<<"delivery", "payment.succeeded">>, m),
                      "delivery.assigned", [order |-> m.order, total |-> FALSE])
  /\ UNCHANGED <<orders, kitchenOrders, payments, notified>>

\* Notification's consumer of kitchen.accepted demands the total too: without it the event
\* is dropped, and the customer is not told.
Notify(key, m) ==
  /\ Take("notification", key, m)
  /\ notified' = IF key = "kitchen.accepted" /\ ~m.total
                   THEN notified ELSE notified \cup {<<key, m.order>>}
  /\ queues' = Without(<<"notification", key>>, m)
  /\ UNCHANGED <<orders, kitchenOrders, payments, deliveries>>

HandleEvent(s) ==
  \E m \in Events :
    \/ s = "order" /\ (OrderCreated(m) \/ OrderAssigned(m))
    \/ s = "kitchen" /\ Kitchen(m)
    \/ s = "payment" /\ Payment(m)
    \/ s = "delivery" /\ Delivery(m)
    \/ s = "notification" /\ \E key \in QUEUES.notification : Notify(key, m)

\* POST /orders/:id/cancel: the event goes to a key no queue is bound to.
CancelOrder(o) ==
  /\ o \in Cancellable
  /\ "order" \in running
  /\ orders[o] \notin {Unwritten, "CANCELLED"}
  /\ orders' = [orders EXCEPT ![o] = "CANCELLED"]
  /\ queues' = Routed(queues, "order_service.order_cancelled", [order |-> o, total |-> TRUE])
  /\ UNCHANGED <<lifecycle, placed, kitchenOrders, payments, deliveries, notified, crashes>>

SagaNext ==
  \/ \E s \in Services : Start(s) \/ Subscribe(s) \/ CrashService(s) \/ HandleEvent(s)
  \/ \E o \in Orders : CancelOrder(o) \/ \E key \in ExternalKeys : PublishFromOutside(key, o)

SagaSpec == SagaInit /\ [][SagaNext]_sagaVars

\* Processes are restarted, go on with createServer, and handle what they are sent.
SagaFairness ==
  \A s \in Services :
    WF_sagaVars(Start(s)) /\ WF_sagaVars(Subscribe(s)) /\ WF_sagaVars(HandleEvent(s))

FairSagaSpec == SagaSpec /\ SagaFairness
-----------------------------------------------------------------------------
Queued(s, key, o) == \E m \in queues[<<s, key>>] : m.order = o

\* The services' records behind an event.
Recorded(key, o) ==
  \/ <<key, o>> \in placed
  \/ key = "kitchen.accepted" /\ kitchenOrders[o] = "ACCEPTED"
  \/ key = "kitchen.rejected" /\ kitchenOrders[o] = "REJECTED"
  \/ key = "payment.succeeded" /\ payments[o] = "SUCCEEDED"
  \/ key = "delivery.assigned" /\ deliveries[o] = "ASSIGNED"

\* What a customer was told, and what the events that wait for notification say, was
\* published from outside or is what the service the event is about has on record: through
\* crashes, restarts and any order of start-up, no event runs ahead of its cause.
NotificationsTellTheTruth ==
  \A o \in Orders, key \in QUEUES.notification :
    <<key, o>> \in notified \/ Queued("notification", key, o) => Recorded(key, o)

SagaIInv == SagaTypeOK /\ NotificationsTellTheTruth

\* An event that was routed to the queue of a service that does come up is handled
\* in the end, whatever crashes: queues outlive their consumers.
RoutedEventsAreHandled ==
  \A o \in Orders :
    /\ Queued("order", "order.created", o) ~> (orders[o] # Unwritten)
    /\ Queued("kitchen", "order.created", o) ~> (kitchenOrders[o] # Unwritten)
    /\ Queued("delivery", "payment.succeeded", o) ~> (deliveries[o] # Unwritten)

\* The saga goes through: an order the order service has on record and that is not
\* turned down or cancelled ends with a driver.
SagaCompletes ==
  \A o \in Orders \ EmptyOrders :
    (orders[o] = "CREATED") ~> (orders[o] \in {"DELIVERY_ASSIGNED", "CANCELLED"})
=============================================================================

---------------------------- MODULE OrderService ----------------------------
(***************************************************************************)
(* services/order: the order.created and delivery.assigned consumers of    *)
(* app.ts, the POST /orders/:id/cancel controller and the subscriber that  *)
(* POST /start-subscriber adds, one action per await, over one orders      *)
(* table.  A replica (process) has a channel and an in-memory idempotency  *)
(* store; both are gone when it restarts.                                  *)
(***************************************************************************)
EXTENDS EventBus

CONSTANTS
  Orders, Unwritten,
  Requests,     \* the cancel requests clients make, retries included
  NoKey,        \* a request without an idempotency-key header
  Subscribing,  \* the replicas whose development route may be called
  Parsing       \* the replicas with a JSON body parser before the routes: none as
                \* createServer builds them, all as the controller's tests call it

ASSUME OrderAssumption ==
  /\ \A m \in Messages : m.type \in {"order.created", "delivery.assigned"} /\ m.order \in Orders
  /\ \A r \in Requests : r.order \in Orders /\ r.process \in Processes /\ r.reasonOk \in BOOLEAN
  /\ Unwritten \notin {"CREATED", "CANCELLED", "DELIVERY_ASSIGNED"}
  /\ Parsing \subseteq Processes

\* Clients do not use one key for two orders (the store looks at the key
\* alone): an assumption about them that one theorem makes.
KeysNameOrders ==
  \A q, r \in Requests : q.key = r.key /\ q.key # NoKey => q.order = r.order

VARIABLES
  orders,            \* the status of each order's row, or Unwritten
  processedEvents,   \* the processed-event keys: <<"created", o>>, <<"assigned", o>>
  request,           \* where each cancel request is, or the status it was answered with
  idempotencyStore,  \* per replica, the keys its store holds
  cancelEvents,      \* how often order.cancelled went out for each order
  subscribed,        \* the replicas whose development subscriber is running
  logged             \* history: the messages a development subscriber took

dbVars == <<orders, processedEvents>>
devVars == <<subscribed, logged>>
httpVars == <<request, idempotencyStore, cancelEvents, subscribed, logged>>
vars == <<busVars, orders, processedEvents, request, idempotencyStore, cancelEvents,
          subscribed, logged>>

Awaits == {"find", "create", "mark", "findAssigned", "assign", "markAssigned"}
Answers == {"200", "400", "404", "500", "no answer"}

TypeOK ==
  /\ BusTypeOK(Awaits)
  /\ orders \in [Orders -> {"CREATED", "CANCELLED", "DELIVERY_ASSIGNED", Unwritten}]
  /\ processedEvents \in SUBSET ({"created", "assigned"} \X Orders)
  /\ request \in [Requests -> {"new", "find", "update", "publish"} \cup Answers]
  /\ idempotencyStore \in [Processes -> SUBSET {r.key : r \in Requests}]
  /\ cancelEvents \in [Orders -> Nat]
  /\ subscribed \in SUBSET Processes
  /\ logged \in SUBSET Messages

Init ==
  /\ BusInit
  /\ orders = [o \in Orders |-> Unwritten]
  /\ processedEvents = {}
  /\ request = [r \in Requests |-> "new"]
  /\ idempotencyStore = [p \in Processes |-> {}]
  /\ cancelEvents = [o \in Orders |-> 0]
  /\ subscribed = {}
  /\ logged = {}

\* ---------------------------------------------------- replicas that restart

InFlight(r) == request[r] \in {"find", "update", "publish"}

\* What the restart of these replicas does to the HTTP side: requests in flight
\* get no answer, the stores start empty, added subscribers are gone.
HttpRestart(ps) ==
  /\ request' = [r \in Requests |->
                   IF InFlight(r) /\ r.process \in ps THEN "no answer" ELSE request[r]]
  /\ idempotencyStore' = [p \in Processes |-> IF p \in ps THEN {} ELSE idempotencyStore[p]]
  /\ subscribed' = subscribed \ ps
  /\ UNCHANGED <<cancelEvents, logged>>

\* The replica a callback takes down when it settles on a closed channel.
TakenDownBy(w) == {p \in {ProcessOf[w]} : link[p] = "closed"}

Proceed(w, label) == Goto(w, label) /\ UNCHANGED httpVars
Throw(w) == Nack(w) /\ HttpRestart(TakenDownBy(w))

\* ----------------------------------------------------------- order.created

\* The check the wrong way round.
FindCreatedInverted(w) ==
  /\ pc[w] = "find"
  /\ Proceed(w, IF <<"created", msg[w].order>> \notin processedEvents THEN "ack" ELSE "create")
  /\ UNCHANGED dbVars

FindCreated(w) ==
  /\ pc[w] = "find"
  /\ Proceed(w, IF <<"created", msg[w].order>> \in processedEvents THEN "ack" ELSE "create")
  /\ UNCHANGED dbVars

UpsertOrder(w) ==
  /\ pc[w] = "create"
  /\ orders' = [orders EXCEPT ![msg[w].order] = "CREATED"]
  /\ Proceed(w, "mark")
  /\ UNCHANGED processedEvents

\* id is the primary key: the second create of an order throws.
CreateOrder(w) ==
  /\ pc[w] = "create"
  /\ \/ /\ orders[msg[w].order] = Unwritten
        /\ orders' = [orders EXCEPT ![msg[w].order] = "CREATED"]
        /\ Proceed(w, "mark")
     \/ /\ orders[msg[w].order] # Unwritten
        /\ Throw(w)
        /\ UNCHANGED orders
  /\ UNCHANGED processedEvents

\* The processed-event row both handlers end with, unique by its key.
Mark(w, label, key) ==
  /\ pc[w] = label
  /\ IF key \in processedEvents
       THEN Throw(w) /\ UNCHANGED processedEvents
       ELSE Proceed(w, "ack") /\ processedEvents' = processedEvents \cup {key}
  /\ UNCHANGED orders

MarkCreated(w) == Mark(w, "mark", <<"created", msg[w].order>>)

\* ------------------------------------------------------- delivery.assigned

FindAssigned(w) ==
  /\ pc[w] = "findAssigned"
  /\ Proceed(w, IF <<"assigned", msg[w].order>> \in processedEvents THEN "ack" ELSE "assign")
  /\ UNCHANGED dbVars

\* The update throws when the row is not there; it looks at no earlier status.
AssignOrder(w) ==
  /\ pc[w] = "assign"
  /\ \/ /\ orders[msg[w].order] # Unwritten
        /\ orders' = [orders EXCEPT ![msg[w].order] = "DELIVERY_ASSIGNED"]
        /\ Proceed(w, "markAssigned")
     \/ /\ orders[msg[w].order] = Unwritten
        /\ Throw(w)
        /\ UNCHANGED orders
  /\ UNCHANGED processedEvents

MarkAssigned(w) == Mark(w, "markAssigned", <<"assigned", msg[w].order>>)

Handle(w) ==
  \/ FindCreated(w) \/ CreateOrder(w) \/ MarkCreated(w)
  \/ FindAssigned(w) \/ AssignOrder(w) \/ MarkAssigned(w)
  \/ Ack(w) /\ HttpRestart(TakenDownBy(w)) /\ UNCHANGED dbVars

\* ------------------------------------------------------------- cancelOrder

Answer(r, status) == request' = [request EXCEPT ![r] = status]

Remember(r) ==
  idempotencyStore' = IF r.key = NoKey THEN idempotencyStore
                      ELSE [idempotencyStore EXCEPT ![r.process] = @ \cup {r.key}]

\* Without a parser req.body is undefined: reading the reason throws outside the
\* try block, and the unhandled rejection kills the replica.
ArriveUnparsed(r) ==
  /\ request[r] = "new"
  /\ r.process \notin Parsing
  /\ Restart(r.process)
  /\ request' = [q \in Requests |->
                   IF q = r \/ (InFlight(q) /\ q.process = r.process) THEN "no answer"
                   ELSE request[q]]
  /\ idempotencyStore' = [idempotencyStore EXCEPT ![r.process] = {}]
  /\ subscribed' = subscribed \ {r.process}
  /\ UNCHANGED <<sent, dead, faults, dbVars, cancelEvents, logged>>

\* Up to the first await: the store, then the reason.
Arrive(r) ==
  /\ request[r] = "new"
  /\ r.process \in Parsing
  /\ \/ r.key \in idempotencyStore[r.process] /\ Answer(r, "200")
     \/ /\ r.key \notin idempotencyStore[r.process]
        /\ Answer(r, IF r.reasonOk THEN "find" ELSE "400")
  /\ UNCHANGED <<busVars, dbVars, idempotencyStore, cancelEvents, devVars>>

\* The controller that publishes an order it has not cancelled.
FindAndPublish(r) ==
  /\ request[r] = "find"
  /\ Answer(r, IF orders[r.order] = Unwritten THEN "404" ELSE "publish")
  /\ UNCHANGED <<busVars, dbVars, idempotencyStore, cancelEvents, devVars>>

FindOrder(r) ==
  /\ request[r] = "find"
  /\ \/ /\ orders[r.order] = Unwritten
        /\ Answer(r, "404")
        /\ UNCHANGED idempotencyStore
     \/ /\ orders[r.order] = "CANCELLED"
        /\ Answer(r, "200")
        /\ Remember(r)
     \/ /\ orders[r.order] \notin {Unwritten, "CANCELLED"}
        /\ Answer(r, "update")
        /\ UNCHANGED idempotencyStore
  /\ UNCHANGED <<busVars, dbVars, cancelEvents, devVars>>

\* The update is written by whatever the row says by now.
UpdateOrder(r) ==
  /\ request[r] = "update"
  /\ orders' = [orders EXCEPT ![r.order] = "CANCELLED"]
  /\ Answer(r, "publish")
  /\ UNCHANGED <<busVars, processedEvents, idempotencyStore, cancelEvents, devVars>>

\* The controller that forgets to publish.
PublishNothing(r) ==
  /\ request[r] = "publish"
  /\ Answer(r, "200")
  /\ Remember(r)
  /\ UNCHANGED <<busVars, dbVars, cancelEvents, devVars>>

\* getChannel throws when the connection was closed: the answer is 500 and the row
\* stays CANCELLED.
PublishCancelled(r) ==
  /\ request[r] = "publish"
  /\ \/ /\ link[r.process] = "up"
        /\ cancelEvents' = [cancelEvents EXCEPT ![r.order] = @ + 1]
        /\ Answer(r, "200")
        /\ Remember(r)
     \/ /\ link[r.process] = "closed"
        /\ Answer(r, "500")
        /\ UNCHANGED <<idempotencyStore, cancelEvents>>
  /\ UNCHANGED <<busVars, dbVars, devVars>>

\* 24 hours after it was stored a key is forgotten, by the next get or the hourly sweep;
\* when that is, compared with everything else, is left open.
ExpireKey(p, k) ==
  /\ k \in idempotencyStore[p]
  /\ idempotencyStore' = [idempotencyStore EXCEPT ![p] = @ \ {k}]
  /\ UNCHANGED <<busVars, dbVars, request, cancelEvents, devVars>>

Cancel(r) == Arrive(r) \/ ArriveUnparsed(r) \/ FindOrder(r) \/ UpdateOrder(r) \/ PublishCancelled(r)

\* ------------------------------------------------- the development subscriber

\* POST /start-subscriber: a second consumer of order_service.order_created on the
\* replica's channel; without a channel the route answers 500.
StartSubscriber(p) ==
  /\ p \in Subscribing \ subscribed
  /\ link[p] = "up"
  /\ subscribed' = subscribed \cup {p}
  /\ UNCHANGED <<busVars, dbVars, request, idempotencyStore, cancelEvents, logged>>

\* Its callback does not wait for anything: JSON is logged and acked whatever the schema
\* would say, anything else is nacked to the dead-letter queue.
LogOrderCreated(p, m) ==
  /\ p \in subscribed
  /\ m \in ready
  /\ m.type = "order.created"
  /\ ready' = ready \ {m}
  /\ \/ m.form = "garbled" /\ dead' = dead \cup {m} /\ UNCHANGED logged
     \/ m.form # "garbled" /\ logged' = logged \cup {m} /\ UNCHANGED dead
  /\ UNCHANGED <<sent, pc, msg, link, faults, dbVars, request, idempotencyStore,
                 cancelEvents, subscribed>>

\* ------------------------------------------------------------ the service

Entry(m) == IF m.type = "order.created" THEN "find" ELSE "findAssigned"

\* delivery.assigned comes out of a saga that order.created started.
Caused(m) ==
  m.type = "delivery.assigned" => \E c \in sent : c.type = "order.created" /\ c.order = m.order

Publish(m) == Caused(m) /\ Send(m) /\ UNCHANGED <<dbVars, httpVars>>

Receive ==
  \E w \in Workers, m \in Messages :
    /\ Deliver(w, m, Entry(m))
    /\ HttpRestart({p \in {ProcessOf[w]} : m.form = "garbled"})
    /\ UNCHANGED dbVars

RequestFails(r) ==
  /\ "database" \in FaultKinds
  /\ faults < MaxFaults
  /\ request[r] \in {"find", "update"}
  /\ Answer(r, "500")
  /\ faults' = faults + 1
  /\ UNCHANGED <<sent, ready, dead, pc, msg, link, idempotencyStore, cancelEvents, devVars>>

Fault ==
  /\ \/ \E p \in Processes : \/ Crash(p) /\ HttpRestart({p})
                             \/ /\ CloseConnection(p)
                                /\ subscribed' = subscribed \ {p}
                                /\ UNCHANGED <<request, idempotencyStore, cancelEvents, logged>>
     \/ \E w \in Workers : DatabaseFails(w, Awaits) /\ HttpRestart(TakenDownBy(w))
     \/ \E r \in Requests : RequestFails(r)
  /\ UNCHANGED dbVars

Next ==
  \/ \E m \in Messages : Publish(m)
  \/ Receive
  \/ \E w \in Workers : Handle(w)
  \/ \E r \in Requests : Cancel(r)
  \/ \E p \in Processes, r \in Requests : ExpireKey(p, r.key)
  \/ \E p \in Processes : StartSubscriber(p)
  \/ \E p \in Processes, m \in Messages : LogOrderCreated(p, m)
  \/ Fault

Spec == Init /\ [][Next]_vars

\* The broker keeps pushing while a consumer is there, and Node runs every callback
\* whose await has settled.
Fairness == WF_vars(Receive) /\ \A w \in Workers : WF_vars(Handle(w))

FairSpec == Spec /\ Fairness
-----------------------------------------------------------------------------
\* Redelivered and copied order.created events, racing with cancellations and
\* assignments, never put an order back to CREATED nor lose its row.
OrderNeverGoesBack ==
  [][\A o \in Orders : orders[o] # Unwritten =>
       /\ orders'[o] # Unwritten
       /\ orders'[o] = "CREATED" => orders[o] = "CREATED"]_vars

\* order.cancelled is only announced for an order that was cancelled first (and may
\* have been overwritten by an assignment since).
CancelledBeforeAnnounced ==
  /\ \A o \in Orders : cancelEvents[o] > 0 => orders[o] \in {"CANCELLED", "DELIVERY_ASSIGNED"}
  /\ \A r \in Requests :
       request[r] = "publish" => orders[r.order] \in {"CANCELLED", "DELIVERY_ASSIGNED"}

\* What every request in flight read is still there: rows are never deleted.
ReadOrdersExist == \A r \in Requests : request[r] = "update" => orders[r.order] # Unwritten

IInv == TypeOK /\ CancelledBeforeAnnounced /\ ReadOrdersExist

\* A client whose cancellation was answered 200 can count on its order.cancelled:
\* once no request for the order is in flight, the event is out.
AcknowledgedCancelIsPublished ==
  \A r \in Requests :
    request[r] = "200" /\ ~(\E q \in Requests : q.order = r.order /\ InFlight(q))
      => cancelEvents[r.order] > 0

\* The same while no fault strikes, however requests and replicas interleave.
CancelsArePublished == faults = 0 => AcknowledgedCancelIsPublished

Pending(o) ==
  \/ \E w \in Workers : pc[w] # "idle" /\ msg[w].order = o
  \/ \E m \in ready : m.order = o /\ m.form = "valid"

\* At-least-once delivery reaches the table: a valid order.created that nobody holds
\* and nobody will get has left a row, whatever killed the replicas that held it:
\* crashes, closed channels, events that are not JSON, requests without a parser.
\* Only a failed database call drops an event, and a development subscriber takes those
\* it is given.
NoOrderIsLost ==
  \A m \in sent :
    m.type = "order.created" /\ m.form = "valid" /\ ~Pending(m.order) =>
      orders[m.order] # Unwritten \/ DroppedByAFault(m) \/ m \in logged

\* A valid order.created that is published becomes a row, whatever replicas requests
\* without a parser kill, unless a fault strikes or a development subscriber takes it.
EveryOrderIsPersisted ==
  \A o \in Orders :
    (\E m \in sent : m.order = o /\ m.type = "order.created" /\ m.form = "valid")
      ~> \/ orders[o] # Unwritten
         \/ faults > 0
         \/ \E m \in logged : m.order = o
=============================================================================

--------------------------- MODULE KitchenService ---------------------------
(***************************************************************************)
(* services/kitchen: the order.created handler of app.ts, one action per   *)
(* await.  A message is an order.created event: its order, how many items  *)
(* it lists and the form the event bus tells apart.                        *)
(***************************************************************************)
EXTENDS EventBus

CONSTANTS Orders, Unwritten

Decisions == {"ACCEPTED", "REJECTED"}

ASSUME KitchenAssumption ==
  /\ \A m \in Messages : m.order \in Orders /\ m.items \in Nat
  /\ Unwritten \notin Decisions

VARIABLES
  kitchenOrders,     \* the status of each order's row, or Unwritten
  processedEvents,   \* the orders with a processed-event row
  published          \* how often kitchen.accepted and kitchen.rejected went out

dbVars == <<kitchenOrders, processedEvents>>
vars == <<busVars, kitchenOrders, processedEvents, published>>

Awaits == {"find", "create", "mark", "publish"}

TypeOK ==
  /\ BusTypeOK(Awaits)
  /\ kitchenOrders \in [Orders -> Decisions \cup {Unwritten}]
  /\ processedEvents \in SUBSET Orders
  /\ published \in [Orders -> [Decisions -> Nat]]

Init ==
  /\ BusInit
  /\ kitchenOrders = [o \in Orders |-> Unwritten]
  /\ processedEvents = {}
  /\ published = [o \in Orders |-> [d \in Decisions |-> 0]]

\* An event without items is turned down, any other is accepted.
decideKitchen(m) == IF m.items = 0 THEN "REJECTED" ELSE "ACCEPTED"

FindProcessed(w) ==
  /\ pc[w] = "find"
  /\ Goto(w, IF msg[w].order \in processedEvents THEN "ack" ELSE "create")
  /\ UNCHANGED <<dbVars, published>>

\* An upsert where the code creates: the second writer goes on too.
UpsertKitchenOrder(w) ==
  /\ pc[w] = "create"
  /\ kitchenOrders' = [kitchenOrders EXCEPT ![msg[w].order] = decideKitchen(msg[w])]
  /\ Goto(w, "mark")
  /\ UNCHANGED <<processedEvents, published>>

\* orderId is the primary key: the second create of an order throws.
CreateKitchenOrder(w) ==
  /\ pc[w] = "create"
  /\ \/ /\ kitchenOrders[msg[w].order] = Unwritten
        /\ kitchenOrders' = [kitchenOrders EXCEPT ![msg[w].order] = decideKitchen(msg[w])]
        /\ Goto(w, "mark")
     \/ /\ kitchenOrders[msg[w].order] # Unwritten
        /\ Nack(w)
        /\ UNCHANGED kitchenOrders
  /\ UNCHANGED <<processedEvents, published>>

\* The handler ends after marking, as if the publish were behind the next delivery.
MarkAndFinish(w) ==
  /\ pc[w] = "mark"
  /\ processedEvents' = processedEvents \cup {msg[w].order}
  /\ Goto(w, "ack")
  /\ UNCHANGED <<kitchenOrders, published>>

CreateProcessed(w) ==
  /\ pc[w] = "mark"
  /\ IF msg[w].order \in processedEvents
       THEN Nack(w) /\ UNCHANGED processedEvents
       ELSE Goto(w, "publish") /\ processedEvents' = processedEvents \cup {msg[w].order}
  /\ UNCHANGED <<kitchenOrders, published>>

\* The decision is published as the callback computed it.
PublishDecision(w) ==
  /\ pc[w] = "publish"
  /\ \/ /\ Connected(w)
        /\ published' = [published EXCEPT ![msg[w].order][decideKitchen(msg[w])] = @ + 1]
        /\ Goto(w, "ack")
     \/ /\ PublishFails(w)
        /\ UNCHANGED published
  /\ UNCHANGED dbVars

Handle(w) ==
  \/ FindProcessed(w)
  \/ CreateKitchenOrder(w)
  \/ CreateProcessed(w)
  \/ PublishDecision(w)
  \/ Ack(w) /\ UNCHANGED <<dbVars, published>>

Receive == \E w \in Workers, m \in Messages : Deliver(w, m, "find") /\ UNCHANGED <<dbVars, published>>

Fault ==
  /\ \/ \E p \in Processes : Crash(p) \/ CloseConnection(p)
     \/ \E w \in Workers : DatabaseFails(w, {"find", "create", "mark"})
  /\ UNCHANGED <<dbVars, published>>

Next ==
  \/ \E m \in Messages : Send(m) /\ UNCHANGED <<dbVars, published>>
  \/ Receive
  \/ \E w \in Workers : Handle(w)
  \/ Fault

Spec == Init /\ [][Next]_vars

\* The broker keeps pushing while a consumer is there, and Node runs every
\* callback whose await has settled.
Fairness == WF_vars(Receive) /\ \A w \in Workers : WF_vars(Handle(w))

FairSpec == Spec /\ Fairness
-----------------------------------------------------------------------------
Announcements(o) == published[o]["ACCEPTED"] + published[o]["REJECTED"]

\* Replicas racing on copies of order.created, redeliveries after crashes and
\* handlers that outlive their connection never make the kitchen announce two
\* decisions for an order, and what it announces is what its row says.
DecidedOnce ==
  \A o \in Orders :
    /\ Announcements(o) <= 1
    /\ \A d \in Decisions : published[o][d] > 0 => kitchenOrders[o] = d

\* Why DecidedOnce holds.  The callback that created an order's row is the only one
\* between that create and its publish, the order has not been announced before it
\* gets there, and its decision is the row's.  A processed-event row never appears
\* without the order's row, so the second unique key is never the one that trips.
Writing(w) == pc[w] \in {"mark", "publish"}

WriterOwnsTheOrder ==
  \A w \in Workers : Writing(w) =>
    /\ kitchenOrders[msg[w].order] = decideKitchen(msg[w])
    /\ \A d \in Decisions : published[msg[w].order][d] = 0
    /\ pc[w] = "mark" <=> msg[w].order \notin processedEvents
    /\ \A v \in Workers : Writing(v) /\ msg[v].order = msg[w].order => v = w

RowsComeFirst ==
  \A o \in Orders :
    /\ o \in processedEvents => kitchenOrders[o] # Unwritten
    /\ \A d \in Decisions : published[o][d] > 0 => kitchenOrders[o] = d /\ published[o][d] = 1

IInv == TypeOK /\ WriterOwnsTheOrder /\ RowsComeFirst

\* A callback still has the order in hand, or the broker will deliver it again.
Pending(o) ==
  \/ \E w \in Workers : pc[w] # "idle" /\ msg[w].order = o
  \/ \E m \in ready : m.order = o /\ m.form = "valid"

\* At-least-once delivery reaches the table: a valid order.created that nobody holds
\* and nobody will get has left a row, through crashes and closed connections.  Only a
\* failed database call drops an event.
NoOrderIsLost ==
  \A m \in sent :
    m.form = "valid" /\ ~Pending(m.order) =>
      kitchenOrders[m.order] # Unwritten \/ DroppedByAFault(m)

\* Why it holds: an event leaves the broker's custody only by an ack or a nack, and
\* but for a fault each of them comes after the order's row.
EventsAreInCustody ==
  \A m \in sent :
    m.form = "valid" => InCustody(m) \/ kitchenOrders[m.order] # Unwritten \/ DroppedByAFault(m)

AcksFollowRows == \A w \in Workers : pc[w] = "ack" => kitchenOrders[msg[w].order] # Unwritten

Custody == EventsAreInCustody /\ AcksFollowRows

\* A valid order.created that is published is decided and announced, unless a fault
\* strikes: a crash between the row and the event leaves an order that no redelivery
\* announces, as its marker is found or its row's key trips.
EveryOrderIsDecided ==
  \A o \in Orders :
    (\E m \in sent : m.order = o /\ m.form = "valid") ~> (Announcements(o) = 1 \/ faults > 0)

\* The kitchen is a saga step: one outcome per order, announced at most once.
Step == INSTANCE SagaStep WITH
          Outcomes <- Decisions, Undecided <- Unwritten,
          outcome <- kitchenOrders, announced <- published
ImplementsSagaStep == Step!Spec
=============================================================================

--------------------------- MODULE DeliveryService --------------------------
(***************************************************************************)
(* services/delivery: the payment.succeeded handler of app.ts and the two  *)
(* cancellation handlers of subscribeDeliveryCancellation, one action per  *)
(* await.  app.ts never calls subscribeDeliveryCancellation, and nobody    *)
(* declares its two queues: an instance without cancellation messages is   *)
(* the service as it is started, one with them has queues an operator      *)
(* declared and bound.  The bus may carry other services' messages and     *)
(* callbacks (see Compensation).                                           *)
(*                                                                         *)
(* MongoDB has no unique index on these collections: an insert always      *)
(* succeeds, and findOne and updateOne work on the order's first document. *)
(***************************************************************************)
EXTENDS EventBus, Sequences

CONSTANTS
  Orders,
  Couriers    \* the callbacks that run this service's handlers

Types == {"payment.succeeded", "kitchen.order.cancelled", "order.cancelled"}

ASSUME DeliveryAssumption ==
  /\ \A m \in Messages : m.order \in Orders
  /\ Couriers \subseteq Workers

VARIABLES
  deliveries,        \* the statuses of each order's documents, in insertion order
  processedEvents,   \* the processed-event keys, one kind per handler
  assignedEvents,    \* how often delivery.assigned went out for each order
  cancelledEvents    \* how often delivery.cancelled went out for each order

dbVars == <<deliveries, processedEvents>>
outVars == <<assignedEvents, cancelledEvents>>
serviceVars == <<deliveries, processedEvents, assignedEvents, cancelledEvents>>
vars == <<busVars, deliveries, processedEvents, assignedEvents, cancelledEvents>>

Awaits == {"find", "insert", "mark", "publish",
           "findCancel", "readDelivery", "cancel", "publishCancelled", "markCancel"}

ServiceTypeOK ==
  /\ deliveries \in [Orders -> Seq({"ASSIGNED", "CANCELLED"})]
  /\ processedEvents \in SUBSET (Types \X Orders)
  /\ assignedEvents \in [Orders -> Nat]
  /\ cancelledEvents \in [Orders -> Nat]

TypeOK == BusTypeOK(Awaits) /\ ServiceTypeOK

ServiceInit ==
  /\ deliveries = [o \in Orders |-> <<>>]
  /\ processedEvents = {}
  /\ assignedEvents = [o \in Orders |-> 0]
  /\ cancelledEvents = [o \in Orders |-> 0]

Init == BusInit /\ ServiceInit

Key(w) == <<msg[w].type, msg[w].order>>

Unassigned(o) == deliveries[o] = <<>>
Released(o) == ~Unassigned(o) /\ Head(deliveries[o]) = "CANCELLED"

\* ------------------------------------------------------ payment.succeeded

FindProcessedUnguarded(w) ==
  /\ pc[w] = "find"
  /\ Goto(w, "insert")
  /\ UNCHANGED serviceVars

FindProcessed(w) ==
  /\ pc[w] = "find"
  /\ Goto(w, IF Key(w) \in processedEvents THEN "ack" ELSE "insert")
  /\ UNCHANGED serviceVars

\* An assignment that is announced and not recorded.
AssignWithoutRecord(w) ==
  /\ pc[w] = "insert"
  /\ Goto(w, "mark")
  /\ UNCHANGED serviceVars

\* assignDriver picks a driver, any driver: which one is left out.
InsertDelivery(w) ==
  /\ pc[w] = "insert"
  /\ deliveries' = [deliveries EXCEPT ![msg[w].order] = Append(@, "ASSIGNED")]
  /\ Goto(w, "mark")
  /\ UNCHANGED <<processedEvents, outVars>>

\* The handler ends after its marker.
MarkAndFinish(w) ==
  /\ pc[w] = "mark"
  /\ processedEvents' = processedEvents \cup {Key(w)}
  /\ Goto(w, "ack")
  /\ UNCHANGED <<deliveries, outVars>>

MarkAssigned(w) ==
  /\ pc[w] = "mark"
  /\ processedEvents' = processedEvents \cup {Key(w)}
  /\ Goto(w, "publish")
  /\ UNCHANGED <<deliveries, outVars>>

PublishAssigned(w) ==
  /\ pc[w] = "publish"
  /\ \/ /\ Connected(w)
        /\ assignedEvents' = [assignedEvents EXCEPT ![msg[w].order] = @ + 1]
        /\ Goto(w, "ack")
     \/ /\ PublishFails(w)
        /\ UNCHANGED assignedEvents
  /\ UNCHANGED <<dbVars, cancelledEvents>>

\* --------------------------------- kitchen.order.cancelled, order.cancelled

\* One marker for the two kinds of cancellation.
FindAnyCancellation(w) ==
  /\ pc[w] = "findCancel"
  /\ Goto(w, IF \E type \in {"kitchen.order.cancelled", "order.cancelled"} :
                  <<type, msg[w].order>> \in processedEvents
             THEN "ack" ELSE "readDelivery")
  /\ UNCHANGED serviceVars

\* Each kind of cancellation has a marker of its own.
FindCancellation(w) ==
  /\ pc[w] = "findCancel"
  /\ Goto(w, IF Key(w) \in processedEvents THEN "ack" ELSE "readDelivery")
  /\ UNCHANGED serviceVars

\* Nothing to release: straight to the marker.  Only the handler of order.cancelled
\* skips a delivery that is cancelled already.
ReadDelivery(w) ==
  /\ pc[w] = "readDelivery"
  /\ Goto(w, IF \/ Unassigned(msg[w].order)
                \/ msg[w].type = "order.cancelled" /\ Released(msg[w].order)
             THEN "markCancel" ELSE "cancel")
  /\ UNCHANGED serviceVars

CancelDelivery(w) ==
  /\ pc[w] = "cancel"
  /\ deliveries' = [deliveries EXCEPT ![msg[w].order] = <<"CANCELLED">> \o Tail(@)]
  /\ Goto(w, "publishCancelled")
  /\ UNCHANGED <<processedEvents, outVars>>

PublishCancelled(w) ==
  /\ pc[w] = "publishCancelled"
  /\ \/ /\ Connected(w)
        /\ cancelledEvents' = [cancelledEvents EXCEPT ![msg[w].order] = @ + 1]
        /\ Goto(w, "markCancel")
     \/ /\ PublishFails(w)
        /\ UNCHANGED cancelledEvents
  /\ UNCHANGED <<dbVars, assignedEvents>>

MarkCancellation(w) ==
  /\ pc[w] = "markCancel"
  /\ processedEvents' = processedEvents \cup {Key(w)}
  /\ Goto(w, "ack")
  /\ UNCHANGED <<deliveries, outVars>>

\* ------------------------------------------------------------ the service

Handle(w) ==
  \/ FindProcessed(w) \/ InsertDelivery(w) \/ MarkAssigned(w) \/ PublishAssigned(w)
  \/ FindCancellation(w) \/ ReadDelivery(w) \/ CancelDelivery(w) \/ PublishCancelled(w)
  \/ MarkCancellation(w)
  \/ Ack(w) /\ UNCHANGED serviceVars

Entry(m) == IF m.type = "payment.succeeded" THEN "find" ELSE "findCancel"

Receive ==
  \E w \in Couriers, m \in Messages :
    m.type \in Types /\ Deliver(w, m, Entry(m)) /\ UNCHANGED serviceVars

DatabaseFault ==
  \E w \in Couriers :
    DatabaseFails(w, Awaits \ {"publish", "publishCancelled"}) /\ UNCHANGED serviceVars

Fault ==
  \/ (\E p \in Processes : Crash(p) \/ CloseConnection(p)) /\ UNCHANGED serviceVars
  \/ DatabaseFault

Next ==
  \/ \E m \in Messages : Send(m) /\ UNCHANGED serviceVars
  \/ Receive
  \/ \E w \in Couriers : Handle(w)
  \/ Fault

Spec == Init /\ [][Next]_vars

\* The broker keeps pushing while a consumer is there, and Node runs every
\* callback whose await has settled.
Fairness == WF_vars(Receive) /\ \A w \in Couriers : WF_vars(Handle(w))

FairSpec == Spec /\ Fairness
-----------------------------------------------------------------------------
\* No fault or race makes the service announce what it did not record: every
\* delivery.assigned stands for a document of its own, and delivery.cancelled for an
\* order whose driver was released.
AnnouncementsAreRecorded ==
  \A o \in Orders :
    /\ assignedEvents[o] <= Len(deliveries[o])
    /\ cancelledEvents[o] > 0 => Released(o)

\* The documents that still assign a driver: all of an order's, not only its first.
Assigned(o) == {i \in 1 .. Len(deliveries[o]) : deliveries[o][i] = "ASSIGNED"}

\* Copies of payment.succeeded assign two drivers only by overlapping: once the
\* assignment is tracked and no callback is past its check, no later copy adds a document,
\* and none of the order's documents that was released is assigned again.
Quiet(o) ==
  /\ <<"payment.succeeded", o>> \in processedEvents
  /\ \A w \in Workers : pc[w] \in {"insert", "mark"} => msg[w].order # o
TrackedAssignmentsAreFinal ==
  [][\A o \in Orders :
       Quiet(o) => /\ Quiet(o)'
                   /\ Len(deliveries'[o]) = Len(deliveries[o])
                   /\ Assigned(o)' \subseteq Assigned(o)]_vars

\* A valid payment.succeeded that is published gets a driver that is announced, unless
\* a fault strikes.
EveryPaidOrderIsAssigned ==
  \A o \in Orders :
    (\E m \in sent : m.order = o /\ m.type = "payment.succeeded" /\ m.form = "valid")
      ~> (assignedEvents[o] > 0 \/ faults > 0)
=============================================================================

---------------------------- MODULE Compensation ----------------------------
(***************************************************************************)
(* The compensation of a cancelled order: KitchenCancellation publishes    *)
(* kitchen.order.cancelled, under a key that reaches no queue;             *)
(* DeliveryService releases the driver on such an event, should its queue  *)
(* hold one, or on its own copy of order.cancelled, the "fallback if       *)
(* kitchen event doesn't arrive".  The two services share the broker and   *)
(* nothing else; each has its replicas and callbacks on it.                *)
(***************************************************************************)
EXTENDS DeliveryService, KitchenCancellation

compensationVars ==
  <<busVars, deliveries, processedEvents, assignedEvents, cancelledEvents,
    kitchenOrders, cancelledOrders, passedOn>>

CompensationInit == BusInit /\ ServiceInit /\ KitchenInit

\* Every message comes from outside the two services: the kitchen's own event reaches
\* no queue.
CompensationNext ==
  \/ /\ \E m \in Messages : Send(m)
     /\ UNCHANGED <<serviceVars, kitchenVars>>
  \/ (Receive \/ (\E w \in Couriers : Handle(w)) \/ DatabaseFault) /\ UNCHANGED kitchenVars
  \/ /\ ReceiveInKitchen \/ (\E w \in Cooks : CancelInKitchen(w)) \/ KitchenDatabaseFault
     /\ UNCHANGED serviceVars
  \/ /\ \E p \in Processes : Crash(p) \/ CloseConnection(p)
     /\ UNCHANGED <<serviceVars, kitchenVars>>

CompensationSpec == CompensationInit /\ [][CompensationNext]_compensationVars

\* As in the services by themselves.
CompensationFairness ==
  /\ WF_compensationVars(Receive /\ UNCHANGED kitchenVars)
  /\ WF_compensationVars(ReceiveInKitchen /\ UNCHANGED serviceVars)
  /\ \A w \in Couriers : WF_compensationVars(Handle(w) /\ UNCHANGED kitchenVars)
  /\ \A w \in Cooks : WF_compensationVars(CancelInKitchen(w) /\ UNCHANGED serviceVars)

FairCompensationSpec == CompensationSpec /\ CompensationFairness
-----------------------------------------------------------------------------
\* The kitchen's marker is no promise of its own: a cancellation of an order it knows is
\* marked only when kitchen.order.cancelled was published, whatever crashed in between.
MarkedCancellationsArePassedOn ==
  \A o \in KitchenOrders :
    o \in cancelledOrders /\ kitchenOrders[o] # "none" => o \in passedOn

IInv ==
  /\ BusTypeOK(Awaits \cup KitchenAwaits)
  /\ ServiceTypeOK
  /\ KitchenTypeOK
  /\ MarkedCancellationsArePassedOn

\* A valid order.cancelled waits for delivery, its order has a driver, and no earlier
\* order.cancelled was marked, or is about to be, with nothing to release.
FallbackIsDue(o) ==
  /\ ~Unassigned(o)
  /\ <<"order.cancelled", o>> \notin processedEvents
  /\ \A w \in Workers : pc[w] = "markCancel" => Key(w) # <<"order.cancelled", o>>
  /\ \E m \in ready : m.type = "order.cancelled" /\ m.order = o /\ m.form = "valid"

\* "Release driver (fallback if kitchen event doesn't arrive)": an order.cancelled that
\* finds an assigned order leaves none of its documents assigned, whatever the handler of
\* kitchen.order.cancelled did or marked before, unless a fault strikes or overlapping
\* payments assigned two drivers.
FallbackReleasesTheDriver ==
  \A o \in Orders :
    FallbackIsDue(o) ~> Assigned(o) = {} \/ Len(deliveries[o]) > 1 \/ faults > 0
=============================================================================

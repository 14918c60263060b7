------------------------ MODULE OrderService_proofs -------------------------
(***************************************************************************)
(* Theorems about the order service, for any number of orders, events,     *)
(* requests, replicas and callbacks: rows only go forward, what is         *)
(* announced as cancelled was cancelled, and an acknowledged cancellation  *)
(* is published while no fault strikes.                                    *)
(***************************************************************************)
EXTENDS OrderService, EventBus_proofs

\* The service starts with empty tables, stores and queues.
LEMMA InitIInv == Init => IInv
BY BusAssumption, OrderAssumption
   DEF Init, BusInit, IInv, TypeOK, BusTypeOK, Awaits, Answers, CancelledBeforeAnnounced,
       ReadOrdersExist

\* A callback's step moves it to its next await or ends it; ending it on a closed
\* channel takes the HTTP side of its replica down.
LEMMA HandleShape ==
  ASSUME TypeOK, NEW w \in Workers, Handle(w)
  PROVE  /\ pc[w] # "idle"
         /\ \/ (\E l \in Awaits \cup {"ack"} : Goto(w, l)) /\ UNCHANGED httpVars
            \/ (Nack(w) \/ Ack(w)) /\ HttpRestart(TakenDownBy(w))
<1> USE DEF Proceed, Throw, Awaits
<1>1. CASE FindCreated(w) \/ FindAssigned(w)
  BY <1>1 DEF FindCreated, FindAssigned
<1>2. CASE CreateOrder(w) \/ AssignOrder(w)
  BY <1>2 DEF CreateOrder, AssignOrder
<1>3. CASE MarkCreated(w) \/ MarkAssigned(w)
  BY <1>3 DEF MarkCreated, MarkAssigned, Mark
<1>4. CASE Ack(w) /\ HttpRestart(TakenDownBy(w))
  BY <1>4 DEF Ack
<1>5. QED
  BY <1>1, <1>2, <1>3, <1>4 DEF Handle

\* What a callback's step writes: a row that was not there, or an assignment over one
\* that was; and markers.
LEMMA HandleWrites ==
  ASSUME TypeOK, NEW w \in Workers, Handle(w)
  PROVE  /\ \/ orders' = orders
            \/ /\ orders[msg[w].order] = Unwritten
               /\ orders' = [orders EXCEPT ![msg[w].order] = "CREATED"]
            \/ /\ orders[msg[w].order] # Unwritten
               /\ orders' = [orders EXCEPT ![msg[w].order] = "DELIVERY_ASSIGNED"]
         /\ \/ processedEvents' = processedEvents
            \/ /\ \E kind \in {"created", "assigned"} :
                    processedEvents' = processedEvents \cup {<<kind, msg[w].order>>}
               /\ orders' = orders
<1>1. CASE FindCreated(w) \/ FindAssigned(w)
  BY <1>1 DEF FindCreated, FindAssigned, dbVars
<1>2. CASE CreateOrder(w) \/ AssignOrder(w)
  BY <1>2 DEF CreateOrder, AssignOrder
<1>3. CASE MarkCreated(w) \/ MarkAssigned(w)
  BY <1>3 DEF MarkCreated, MarkAssigned, Mark
<1>4. CASE Ack(w) /\ UNCHANGED dbVars
  BY <1>4 DEF dbVars
<1>5. QED
  BY <1>1, <1>2, <1>3, <1>4 DEF Handle

\* The steps that write no row.
LEMMA OtherStepsWriteNothing ==
  ASSUME [Next]_vars, ~(\E w \in Workers : Handle(w)), ~(\E r \in Requests : UpdateOrder(r))
  PROVE  UNCHANGED dbVars
<1>1. ASSUME NEW r \in Requests, Cancel(r)
      PROVE  UNCHANGED dbVars
  BY <1>1 DEF Cancel, Arrive, ArriveUnparsed, FindOrder, PublishCancelled
<1>2. ASSUME NEW p \in Processes, NEW r \in Requests, ExpireKey(p, r.key)
      PROVE  UNCHANGED dbVars
  BY <1>2 DEF ExpireKey
<1>3. ASSUME NEW p \in Processes,
             StartSubscriber(p) \/ \E m \in Messages : LogOrderCreated(p, m)
      PROVE  UNCHANGED dbVars
  BY <1>3 DEF StartSubscriber, LogOrderCreated
<1>4. CASE Fault \/ Receive \/ UNCHANGED vars \/ \E m \in Messages : Publish(m)
  BY <1>4 DEF Fault, Receive, Publish, vars, dbVars
<1>5. QED
  BY <1>1, <1>2, <1>3, <1>4 DEF Next

\* No row goes back to CREATED or disappears: a second create throws, and updates only
\* overwrite rows with later statuses.
LEMMA RowsGoForward ==
  ASSUME IInv, [Next]_vars, NEW o \in Orders, orders[o] # Unwritten
  PROVE  /\ orders'[o] # Unwritten
         /\ orders'[o] = "CREATED" => orders[o] = "CREATED"
<1>1. orders \in [Orders -> {"CREATED", "CANCELLED", "DELIVERY_ASSIGNED", Unwritten}]
  BY DEF IInv, TypeOK
<1>2. ASSUME NEW w \in Workers, Handle(w)
      PROVE  /\ orders'[o] # Unwritten
             /\ orders'[o] = "CREATED" => orders[o] = "CREATED"
  BY <1>1, <1>2, HandleWrites, OrderAssumption DEF IInv
<1>3. ASSUME NEW r \in Requests, UpdateOrder(r)
      PROVE  /\ orders'[o] # Unwritten
             /\ orders'[o] = "CREATED" => orders[o] = "CREATED"
  BY <1>1, <1>3, OrderAssumption DEF UpdateOrder
<1>4. QED
  BY <1>2, <1>3, OtherStepsWriteNothing DEF dbVars
-----------------------------------------------------------------------------
(***************************************************************************)
(* The inductive invariant.                                                *)
(***************************************************************************)

\* The bus stays well typed.
LEMMA BusStaysTyped ==
  ASSUME TypeOK, [Next]_vars
  PROVE  BusTypeOK(Awaits)'
<1>1. BusTypeOK(Awaits) /\ Awaits \in SUBSET Awaits /\ "idle" \notin Awaits
  BY DEF TypeOK, Awaits
<1>2. ASSUME NEW m \in Messages, Publish(m)
      PROVE  BusTypeOK(Awaits)'
  BY <1>1, <1>2, OtherSteps DEF Publish
<1>3. CASE Receive
  <2>1. PICK w \in Workers, m \in Messages : Deliver(w, m, Entry(m))
    BY <1>3 DEF Receive
  <2>2. Entry(m) \in Awaits
    BY DEF Entry, Awaits
  <2>3. QED
    BY <1>1, <2>1, <2>2, DeliverFacts
<1>4. ASSUME NEW w \in Workers, Handle(w)
      PROVE  BusTypeOK(Awaits)'
  BY <1>1, <1>4, HandleShape, OtherSteps, EndingSteps
<1>5. ASSUME NEW r \in Requests, Cancel(r)
      PROVE  BusTypeOK(Awaits)'
  <2>1. CASE ArriveUnparsed(r)
    <3>1. Restart(r.process) /\ UNCHANGED <<sent, dead, faults>> /\ r.process \in Processes
      BY <2>1, OrderAssumption DEF ArriveUnparsed
    <3>2. QED
      BY <1>1, <3>1, RestartFacts DEF BusTypeOK, Shrinks
  <2>2. CASE UNCHANGED busVars
    BY <1>1, <2>2 DEF BusTypeOK, busVars
  <2>3. QED
    BY <1>5, <2>1, <2>2 DEF Cancel, Arrive, FindOrder, UpdateOrder, PublishCancelled
<1>6. ASSUME NEW p \in Processes, NEW r \in Requests, ExpireKey(p, r.key)
      PROVE  BusTypeOK(Awaits)'
  BY <1>1, <1>6 DEF ExpireKey, BusTypeOK, busVars
<1>7. ASSUME NEW p \in Processes, StartSubscriber(p)
      PROVE  BusTypeOK(Awaits)'
  BY <1>1, <1>7 DEF StartSubscriber, BusTypeOK, busVars
<1>8. ASSUME NEW p \in Processes, NEW m \in Messages, LogOrderCreated(p, m)
      PROVE  BusTypeOK(Awaits)'
  BY <1>1, <1>8 DEF LogOrderCreated, BusTypeOK
<1>9. CASE Fault
  <2>1. ASSUME NEW r \in Requests, RequestFails(r)
        PROVE  BusTypeOK(Awaits)'
    BY <1>1, <2>1, BusAssumption DEF RequestFails, BusTypeOK
  <2>2. QED
    BY <1>1, <1>9, <2>1, EndingSteps DEF Fault
<1>10. CASE UNCHANGED vars
  BY <1>1, <1>10 DEF vars, busVars, BusTypeOK
<1>11. QED
  BY <1>2, <1>3, <1>4, <1>5, <1>6, <1>7, <1>8, <1>9, <1>10 DEF Next

HttpTypeOK ==
  /\ request \in [Requests -> {"new", "find", "update", "publish"} \cup Answers]
  /\ idempotencyStore \in [Processes -> SUBSET {r.key : r \in Requests}]
  /\ cancelEvents \in [Orders -> Nat]
  /\ subscribed \in SUBSET Processes
  /\ logged \in SUBSET Messages

\* A restart of replicas leaves the requests of the others where they are.
LEMMA HttpRestartFacts ==
  ASSUME HttpTypeOK, NEW ps, HttpRestart(ps)
  PROVE  /\ HttpTypeOK'
         /\ \A r \in Requests : request'[r] \in {request[r], "no answer"}
         /\ cancelEvents' = cancelEvents
BY DEF HttpTypeOK, HttpRestart, Answers

\* The steps that take no request further: they may leave some without an answer.
LEMMA RequestsRest ==
  ASSUME HttpTypeOK, [Next]_vars, ~(\E r \in Requests : Cancel(r))
  PROVE  /\ HttpTypeOK'
         /\ \A r \in Requests : request'[r] \in {request[r], "no answer", "500"}
         /\ cancelEvents' = cancelEvents
<1> DEFINE Rests ==
      /\ HttpTypeOK'
      /\ \A r \in Requests : request'[r] \in {request[r], "no answer", "500"}
      /\ cancelEvents' = cancelEvents
<1>1. ASSUME UNCHANGED httpVars PROVE Rests
  BY <1>1 DEF httpVars, HttpTypeOK
<1>2. ASSUME NEW ps, HttpRestart(ps) PROVE Rests
  BY <1>2, HttpRestartFacts
<1>3. ASSUME NEW w \in Workers, Handle(w) PROVE Rests
  <2>1. UNCHANGED httpVars \/ \E ps \in {TakenDownBy(w)} : HttpRestart(ps)
    BY <1>3 DEF Handle, FindCreated, FindAssigned, CreateOrder, AssignOrder, MarkCreated,
                MarkAssigned, Mark, Proceed, Throw
  <2>2. QED
    BY <2>1, <1>1, <1>2
<1>4. CASE Receive
  BY <1>2, <1>4 DEF Receive
<1>5. ASSUME NEW m \in Messages, Publish(m) PROVE Rests
  BY <1>1, <1>5 DEF Publish
<1>6. ASSUME NEW p \in Processes, NEW r \in Requests, ExpireKey(p, r.key) PROVE Rests
  BY <1>6 DEF ExpireKey, HttpTypeOK, devVars
<1>7. ASSUME NEW p \in Processes, StartSubscriber(p) PROVE Rests
  BY <1>7 DEF StartSubscriber, HttpTypeOK
<1>8. ASSUME NEW p \in Processes, NEW m \in Messages, LogOrderCreated(p, m) PROVE Rests
  BY <1>8 DEF LogOrderCreated, HttpTypeOK
<1>9. CASE Fault
  <2>1. ASSUME NEW p \in Processes, CloseConnection(p), subscribed' = subscribed \ {p},
               UNCHANGED <<request, idempotencyStore, cancelEvents, logged>>
        PROVE  Rests
    BY <2>1 DEF HttpTypeOK
  <2>2. ASSUME NEW r \in Requests, RequestFails(r) PROVE Rests
    BY <2>2 DEF RequestFails, HttpTypeOK, Answer, devVars, Answers
  <2>3. QED
    BY <1>2, <1>9, <2>1, <2>2 DEF Fault
<1>10. CASE UNCHANGED vars
  BY <1>1, <1>10 DEF vars, httpVars
<1>11. QED
  BY <1>3, <1>4, <1>5, <1>6, <1>7, <1>8, <1>9, <1>10 DEF Next

\* A request's own step keeps the HTTP side well typed.
LEMMA CancelTyped ==
  ASSUME HttpTypeOK, NEW r \in Requests, Cancel(r)
  PROVE  HttpTypeOK'
<1>1. r.order \in Orders /\ r.process \in Processes
  BY OrderAssumption
<1>2. CASE Arrive(r)
  BY <1>2 DEF Arrive, Answer, HttpTypeOK, Answers, devVars
<1>3. CASE ArriveUnparsed(r)
  BY <1>3 DEF ArriveUnparsed, HttpTypeOK, Answers
<1>4. CASE FindOrder(r) \/ PublishCancelled(r)
  <2>1. idempotencyStore' \in [Processes -> SUBSET {q.key : q \in Requests}]
    <3>1. CASE UNCHANGED idempotencyStore
      BY <3>1 DEF HttpTypeOK
    <3>2. CASE Remember(r)
      <4>1. r.key \in {q.key : q \in Requests}
        OBVIOUS
      <4>2. QED
        BY <3>2, <4>1, <1>1 DEF Remember, HttpTypeOK
    <3>3. QED
      BY <1>4, <3>1, <3>2 DEF FindOrder, PublishCancelled
  <2>2. request' \in [Requests -> {"new", "find", "update", "publish"} \cup Answers]
    BY <1>4 DEF FindOrder, PublishCancelled, Answer, HttpTypeOK, Answers
  <2>3. cancelEvents' \in [Orders -> Nat]
    BY <1>1, <1>4 DEF FindOrder, PublishCancelled, HttpTypeOK
  <2>4. UNCHANGED <<subscribed, logged>>
    BY <1>4 DEF FindOrder, PublishCancelled, devVars
  <2>5. QED
    BY <2>1, <2>2, <2>3, <2>4 DEF HttpTypeOK
<1>5. CASE UpdateOrder(r)
  BY <1>5 DEF UpdateOrder, Answer, HttpTypeOK, Answers, devVars
<1>6. QED
  BY <1>2, <1>3, <1>4, <1>5 DEF Cancel

\* The tables stay well typed.
LEMMA TablesStayTyped ==
  ASSUME TypeOK, [Next]_vars
  PROVE  /\ orders' \in [Orders -> {"CREATED", "CANCELLED", "DELIVERY_ASSIGNED", Unwritten}]
         /\ processedEvents' \in SUBSET ({"created", "assigned"} \X Orders)
<1>1. ASSUME NEW w \in Workers, Handle(w)
      PROVE  /\ orders' \in [Orders -> {"CREATED", "CANCELLED", "DELIVERY_ASSIGNED", Unwritten}]
             /\ processedEvents' \in SUBSET ({"created", "assigned"} \X Orders)
  <2>1. msg[w].order \in Orders
    BY <1>1, HandleShape, OrderAssumption DEF TypeOK, BusTypeOK
  <2>2. QED
    BY <1>1, <2>1, HandleWrites DEF TypeOK
<1>2. ASSUME NEW r \in Requests, UpdateOrder(r)
      PROVE  /\ orders' \in [Orders -> {"CREATED", "CANCELLED", "DELIVERY_ASSIGNED", Unwritten}]
             /\ processedEvents' \in SUBSET ({"created", "assigned"} \X Orders)
  BY <1>2 DEF UpdateOrder, TypeOK
<1>3. QED
  BY <1>1, <1>2, OtherStepsWriteNothing DEF TypeOK, dbVars

\* No interleaving of callbacks, requests, subscribers and faults breaks the invariant.
LEMMA NextIInv == IInv /\ [Next]_vars => IInv'
<1> SUFFICES ASSUME IInv, [Next]_vars PROVE IInv'
  OBVIOUS
<1>1. TypeOK /\ HttpTypeOK
  BY DEF IInv, TypeOK, HttpTypeOK
<1>2. HttpTypeOK'
  BY <1>1, CancelTyped, RequestsRest
<1>3. TypeOK'
  BY <1>1, <1>2, BusStaysTyped, TablesStayTyped DEF TypeOK, HttpTypeOK
<1>4. \A o \in Orders :
        /\ orders[o] # Unwritten => orders'[o] # Unwritten
        /\ orders[o] \in {"CANCELLED", "DELIVERY_ASSIGNED"} =>
             orders'[o] \in {"CANCELLED", "DELIVERY_ASSIGNED"}
  <2> TAKE o \in Orders
  <2>1. orders'[o] \in {"CREATED", "CANCELLED", "DELIVERY_ASSIGNED", Unwritten}
    BY <1>3 DEF TypeOK
  <2>2. QED
    BY <2>1, RowsGoForward, OrderAssumption
<1>5. CASE ~(\E r \in Requests : Cancel(r))
  <2>1. /\ \A r \in Requests : request'[r] \in {request[r], "no answer", "500"}
        /\ cancelEvents' = cancelEvents
    BY <1>1, <1>5, RequestsRest
  <2>2. CancelledBeforeAnnounced' /\ ReadOrdersExist'
    BY <1>4, <2>1, OrderAssumption DEF IInv, CancelledBeforeAnnounced, ReadOrdersExist
  <2>3. QED
    BY <1>3, <2>2 DEF IInv
<1>6. ASSUME NEW r \in Requests, Cancel(r)
      PROVE  CancelledBeforeAnnounced' /\ ReadOrdersExist'
  <2>0. r.order \in Orders
    BY OrderAssumption
  <2>1. CASE Arrive(r)
    BY <1>1, <2>1 DEF Arrive, Answer, dbVars, HttpTypeOK, IInv, CancelledBeforeAnnounced,
                      ReadOrdersExist
  <2>2. CASE ArriveUnparsed(r)
    BY <1>1, <2>2 DEF ArriveUnparsed, dbVars, HttpTypeOK, IInv, CancelledBeforeAnnounced,
                      ReadOrdersExist
  <2>3. CASE FindOrder(r)
    BY <1>1, <2>3 DEF FindOrder, Answer, dbVars, HttpTypeOK, IInv, CancelledBeforeAnnounced,
                      ReadOrdersExist
  <2>4. CASE UpdateOrder(r)
    <3>1. /\ orders'[r.order] = "CANCELLED"
          /\ request' = [request EXCEPT ![r] = "publish"]
          /\ cancelEvents' = cancelEvents
      BY <1>1, <2>0, <2>4 DEF UpdateOrder, Answer, TypeOK
    <3>2. CancelledBeforeAnnounced'
      BY <1>1, <1>4, <2>0, <3>1, OrderAssumption DEF HttpTypeOK, IInv, CancelledBeforeAnnounced
    <3>3. ReadOrdersExist'
      BY <1>1, <1>4, <3>1, OrderAssumption DEF HttpTypeOK, IInv, ReadOrdersExist
    <3>4. QED
      BY <3>2, <3>3
  <2>5. CASE PublishCancelled(r)
    <3>1. orders' = orders /\ request[r] = "publish"
      BY <2>5 DEF PublishCancelled, dbVars
    <3>2. \A q \in Requests : request'[q] \in {request[q], "200", "500"}
      BY <1>1, <2>5 DEF PublishCancelled, Answer, HttpTypeOK
    <3>3. \A o \in Orders : cancelEvents'[o] > 0 => cancelEvents[o] > 0 \/ o = r.order
      BY <1>1, <2>5 DEF PublishCancelled, HttpTypeOK
    <3>4. QED
      BY <2>0, <3>1, <3>2, <3>3, OrderAssumption
         DEF IInv, CancelledBeforeAnnounced, ReadOrdersExist
  <2>6. QED
    BY <1>6, <2>1, <2>2, <2>3, <2>4, <2>5 DEF Cancel
<1>7. QED
  BY <1>3, <1>5, <1>6 DEF IInv

\* order.cancelled goes out only for orders that were cancelled, and no request updates
\* a row that is not there.
THEOREM OrderInvariant == Spec => []IInv
BY InitIInv, NextIInv, PTL DEF Spec

\* No copy, redelivery or late update puts an order back to CREATED or loses its row.
THEOREM OrdersGoForward == Spec => OrderNeverGoesBack
<1>1. IInv /\ [Next]_vars =>
        [\A o \in Orders : orders[o] # Unwritten =>
           /\ orders'[o] # Unwritten
           /\ orders'[o] = "CREATED" => orders[o] = "CREATED"]_vars
  BY RowsGoForward
<1>2. QED
  BY <1>1, OrderInvariant, PTL DEF Spec, OrderNeverGoesBack
-----------------------------------------------------------------------------
(***************************************************************************)
(* Acknowledged cancellations.  A 200 and a stored key are promises that   *)
(* the order's event is out or about to go out; without faults only        *)
(* replicas that have no request in flight are ever taken down.            *)
(***************************************************************************)

Promised(o) ==
  \/ cancelEvents[o] > 0
  \/ \E q \in Requests : q.order = o /\ request[q] = "publish"

LinksAreUp == \A p \in Processes : link[p] = "up"
FlightsAreParsed == \A r \in Requests : InFlight(r) => r.process \in Parsing
CancelledIsPromised == \A o \in Orders : orders[o] = "CANCELLED" => Promised(o)
AnswersArePromised == \A r \in Requests : request[r] = "200" => Promised(r.order)
KeysArePromised ==
  \A p \in Processes :
    /\ NoKey \notin idempotencyStore[p]
    /\ \A r \in Requests : r.key \in idempotencyStore[p] => Promised(r.order)

PromisesHold ==
  /\ LinksAreUp
  /\ FlightsAreParsed
  /\ CancelledIsPromised
  /\ AnswersArePromised
  /\ KeysArePromised

\* The bound on faults is never undone: a step without faults starts without them.
LEMMA FaultsGrow ==
  ASSUME IInv, [Next]_vars, faults' = 0
  PROVE  faults = 0
<1>1. faults \in Nat
  BY BusAssumption DEF IInv, TypeOK, BusTypeOK
<1>2. ASSUME NEW m \in Messages, Publish(m) PROVE faults = 0
  BY <1>2 DEF Publish, Send
<1>3. CASE Receive
  BY <1>1, <1>3, BusAssumption DEF Receive, Deliver, Forms
<1>4. ASSUME NEW w \in Workers, Handle(w) PROVE faults = 0
  BY <1>1, <1>4, HandleShape DEF IInv, Goto, Nack, Ack
<1>5. ASSUME NEW r \in Requests, Cancel(r) PROVE faults = 0
  BY <1>5 DEF Cancel, Arrive, ArriveUnparsed, FindOrder, UpdateOrder, PublishCancelled, busVars
<1>6. ASSUME NEW p \in Processes, NEW r \in Requests, ExpireKey(p, r.key) PROVE faults = 0
  BY <1>6 DEF ExpireKey, busVars
<1>7. ASSUME NEW p \in Processes, StartSubscriber(p) PROVE faults = 0
  BY <1>7 DEF StartSubscriber, busVars
<1>8. ASSUME NEW p \in Processes, NEW m \in Messages, LogOrderCreated(p, m) PROVE faults = 0
  BY <1>8 DEF LogOrderCreated
<1>9. CASE Fault
  <2>1. faults' = faults + 1
    BY <1>9 DEF Fault, Crash, CloseConnection, DatabaseFails, RequestFails
  <2>2. QED
    BY <1>1, <2>1
<1>10. CASE UNCHANGED vars
  BY <1>10 DEF vars, busVars
<1>11. QED
  BY <1>2, <1>3, <1>4, <1>5, <1>6, <1>7, <1>8, <1>9, <1>10 DEF Next

\* Without a fault, no step but a request's own touches requests or closes a link, and
\* stores only forget keys.
LEMMA CalmSteps ==
  ASSUME IInv, PromisesHold, [Next]_vars, faults' = 0, ~(\E r \in Requests : Cancel(r))
  PROVE  /\ LinksAreUp'
         /\ request' = request
         /\ cancelEvents' = cancelEvents
         /\ \A p \in Processes : idempotencyStore'[p] \subseteq idempotencyStore[p]
<1> DEFINE Calm ==
      /\ LinksAreUp'
      /\ request' = request
      /\ cancelEvents' = cancelEvents
      /\ \A p \in Processes : idempotencyStore'[p] \subseteq idempotencyStore[p]
<1>1. faults = 0 /\ faults \in Nat /\ TypeOK /\ LinksAreUp
  BY FaultsGrow DEF IInv, TypeOK, BusTypeOK, PromisesHold
<1>2. ASSUME LinksAreUp', UNCHANGED httpVars PROVE Calm
  BY <1>2 DEF httpVars
<1>3. ASSUME LinksAreUp', HttpRestart({}) PROVE Calm
  BY <1>3, <1>1 DEF HttpRestart, TypeOK
<1>4. ASSUME NEW w \in Workers, Handle(w) PROVE Calm
  <2>1. Connected(w) /\ TakenDownBy(w) = {}
    BY <1>1, BusAssumption DEF LinksAreUp, Connected, TakenDownBy
  <2>2. LinksAreUp'
    BY <1>1, <1>4, <2>1, HandleShape DEF Goto, Nack, Ack, Settle, LinksAreUp
  <2>3. QED
    BY <1>1, <1>2, <1>3, <1>4, <2>1, <2>2, HandleShape
<1>5. CASE Receive
  <2>1. PICK w \in Workers, m \in Messages :
          /\ Deliver(w, m, Entry(m))
          /\ HttpRestart({p \in {ProcessOf[w]} : m.form = "garbled"})
    BY <1>5 DEF Receive
  <2>2. m.form # "garbled" /\ link' = link
    BY <1>1, <2>1 DEF Deliver
  <2>3. {p \in {ProcessOf[w]} : m.form = "garbled"} = {}
    BY <2>2
  <2>4. QED
    BY <1>1, <1>3, <2>1, <2>2, <2>3 DEF LinksAreUp
<1>6. ASSUME NEW m \in Messages, Publish(m) PROVE Calm
  BY <1>1, <1>2, <1>6 DEF Publish, Send, LinksAreUp
<1>7. ASSUME NEW p \in Processes, NEW r \in Requests, ExpireKey(p, r.key) PROVE Calm
  BY <1>1, <1>7 DEF ExpireKey, busVars, LinksAreUp, TypeOK
<1>8. ASSUME NEW p \in Processes, StartSubscriber(p) PROVE Calm
  BY <1>1, <1>8 DEF StartSubscriber, busVars, LinksAreUp
<1>9. ASSUME NEW p \in Processes, NEW m \in Messages, LogOrderCreated(p, m) PROVE Calm
  BY <1>1, <1>9 DEF LogOrderCreated, LinksAreUp
<1>10. ASSUME Fault PROVE FALSE
  BY <1>1, <1>10 DEF Fault, Crash, CloseConnection, DatabaseFails, RequestFails
<1>11. CASE UNCHANGED vars
  BY <1>1, <1>11 DEF vars, busVars, LinksAreUp
<1>12. QED
  BY <1>4, <1>5, <1>6, <1>7, <1>8, <1>9, <1>10, <1>11 DEF Next

\* Rows are only made CANCELLED by a request that goes on to publish.
LEMMA OnlyRequestsCancel ==
  ASSUME IInv, [Next]_vars, NEW o \in Orders, orders'[o] = "CANCELLED",
         ~(\E r \in Requests : UpdateOrder(r))
  PROVE  orders[o] = "CANCELLED"
<1>1. ASSUME NEW w \in Workers, Handle(w) PROVE orders[o] = "CANCELLED"
  BY <1>1, HandleWrites DEF IInv, TypeOK
<1>2. QED
  BY <1>1, OtherStepsWriteNothing DEF dbVars

\* A request's own step keeps the promises: a 200 is given for one that was kept already,
\* for an order found cancelled, or with the publish.
LEMMA RequestSteps ==
  ASSUME KeysNameOrders, IInv, PromisesHold, [Next]_vars, faults' = 0,
         NEW r \in Requests, Cancel(r)
  PROVE  PromisesHold'
<1>1. /\ TypeOK /\ LinksAreUp /\ FlightsAreParsed /\ CancelledIsPromised
      /\ AnswersArePromised /\ KeysArePromised
  BY DEF IInv, PromisesHold
<1>2. r.order \in Orders /\ r.process \in Processes
  BY OrderAssumption
<1>3. \A o \in Orders : cancelEvents[o] \in Nat
  BY <1>1 DEF TypeOK
<1>4. CASE Arrive(r)
  <2>1. /\ UNCHANGED <<orders, idempotencyStore, cancelEvents, link>>
        /\ request[r] = "new"
        /\ r.process \in Parsing
        /\ \E a \in {"200", "find", "400"} :
             /\ request' = [request EXCEPT ![r] = a]
             /\ a = "200" => r.key \in idempotencyStore[r.process]
    BY <1>4 DEF Arrive, Answer, busVars, dbVars
  <2>2. \A o \in Orders : Promised(o) => Promised(o)'
    BY <1>1, <2>1 DEF Promised, TypeOK
  <2>3. FlightsAreParsed'
    BY <1>1, <2>1 DEF FlightsAreParsed, InFlight, TypeOK
  <2>4. AnswersArePromised'
    BY <1>1, <1>2, <2>1, <2>2, OrderAssumption DEF AnswersArePromised, KeysArePromised, TypeOK
  <2>5. QED
    BY <1>1, <2>1, <2>2, <2>3, <2>4, OrderAssumption
       DEF PromisesHold, LinksAreUp, CancelledIsPromised, KeysArePromised
<1>5. CASE ArriveUnparsed(r)
  <2>1. /\ UNCHANGED <<orders, cancelEvents>>
        /\ \A q \in Requests : request'[q] \in {request[q], "no answer"}
        /\ \A q \in Requests : InFlight(q) => request'[q] = request[q]
        /\ \A p \in Processes : idempotencyStore'[p] \subseteq idempotencyStore[p]
    BY <1>1, <1>5 DEF ArriveUnparsed, dbVars, FlightsAreParsed, TypeOK, InFlight
  <2>2. \A o \in Orders : Promised(o) => Promised(o)'
    BY <2>1 DEF Promised, InFlight
  <2>3. LinksAreUp'
    BY <1>1, <1>5 DEF ArriveUnparsed, Restart, LinksAreUp, TypeOK, BusTypeOK
  <2>4. FlightsAreParsed'
    BY <1>1, <2>1 DEF FlightsAreParsed, InFlight
  <2>5. QED
    BY <1>1, <2>1, <2>2, <2>3, <2>4, OrderAssumption
       DEF PromisesHold, CancelledIsPromised, KeysArePromised, AnswersArePromised
<1>6. CASE FindOrder(r)
  <2>1. /\ UNCHANGED <<orders, cancelEvents, link>>
        /\ request[r] = "find"
        /\ r.process \in Parsing
        /\ \E a \in {"200", "404", "update"} :
             /\ request' = [request EXCEPT ![r] = a]
             /\ a = "200" => orders[r.order] = "CANCELLED"
             /\ idempotencyStore' = idempotencyStore \/ (a = "200" /\ Remember(r))
    BY <1>1, <1>6 DEF FindOrder, Answer, busVars, dbVars, FlightsAreParsed, InFlight
  <2>2. \A o \in Orders : Promised(o) => Promised(o)'
    BY <1>1, <2>1 DEF Promised, TypeOK
  <2>3. FlightsAreParsed'
    BY <1>1, <2>1 DEF FlightsAreParsed, InFlight, TypeOK
  <2>4. AnswersArePromised'
    BY <1>1, <1>2, <2>1, <2>2, OrderAssumption
       DEF AnswersArePromised, CancelledIsPromised, TypeOK
  <2>5. KeysArePromised'
    <3>1. CASE idempotencyStore' = idempotencyStore
      BY <1>1, <2>2, <3>1, OrderAssumption DEF KeysArePromised
    <3>2. CASE Remember(r) /\ orders[r.order] = "CANCELLED"
      <4>1. Promised(r.order)'
        BY <1>1, <1>2, <2>2, <3>2 DEF CancelledIsPromised
      <4>2. QED
        BY <1>1, <2>2, <3>2, <4>1, OrderAssumption
           DEF KeysArePromised, Remember, TypeOK, KeysNameOrders
    <3>3. QED
      BY <2>1, <3>1, <3>2
  <2>6. QED
    BY <1>1, <2>1, <2>2, <2>3, <2>4, <2>5 DEF PromisesHold, LinksAreUp, CancelledIsPromised
<1>7. CASE UpdateOrder(r)
  <2>1. /\ UNCHANGED <<idempotencyStore, cancelEvents, link>>
        /\ orders' = [orders EXCEPT ![r.order] = "CANCELLED"]
        /\ request[r] = "update"
        /\ request' = [request EXCEPT ![r] = "publish"]
        /\ r.process \in Parsing
    BY <1>1, <1>7 DEF UpdateOrder, Answer, busVars, FlightsAreParsed, InFlight
  <2>2. \A o \in Orders : Promised(o) => Promised(o)'
    BY <1>1, <2>1 DEF Promised, TypeOK
  <2>3. Promised(r.order)'
    BY <1>1, <2>1 DEF Promised, TypeOK
  <2>4. CancelledIsPromised'
    BY <1>1, <2>1, <2>2, <2>3 DEF CancelledIsPromised, TypeOK
  <2>5. FlightsAreParsed' /\ AnswersArePromised'
    BY <1>1, <2>1, <2>2, OrderAssumption DEF FlightsAreParsed, InFlight, AnswersArePromised, TypeOK
  <2>6. QED
    BY <1>1, <2>1, <2>2, <2>4, <2>5, OrderAssumption DEF PromisesHold, LinksAreUp, KeysArePromised
<1>8. CASE PublishCancelled(r)
  <2>1. /\ UNCHANGED <<orders, link>>
        /\ request[r] = "publish"
        /\ cancelEvents' = [cancelEvents EXCEPT ![r.order] = @ + 1]
        /\ request' = [request EXCEPT ![r] = "200"]
        /\ Remember(r)
    BY <1>1, <1>2, <1>8 DEF PublishCancelled, Answer, LinksAreUp, busVars, dbVars
  <2>2. cancelEvents'[r.order] > 0
    BY <1>1, <1>2, <1>3, <2>1 DEF TypeOK
  <2>3. Promised(r.order)'
    BY <2>2 DEF Promised
  <2>4. \A o \in Orders : Promised(o) => Promised(o)'
    BY <1>1, <1>2, <1>3, <2>1, <2>3 DEF Promised, TypeOK
  <2>5. FlightsAreParsed' /\ AnswersArePromised' /\ CancelledIsPromised'
    BY <1>1, <1>2, <2>1, <2>3, <2>4, OrderAssumption
       DEF FlightsAreParsed, InFlight, AnswersArePromised, CancelledIsPromised, TypeOK
  <2>6. KeysArePromised'
    BY <1>1, <2>1, <2>3, <2>4, OrderAssumption
       DEF KeysArePromised, Remember, TypeOK, KeysNameOrders
  <2>7. QED
    BY <1>1, <2>1, <2>5, <2>6 DEF PromisesHold, LinksAreUp
<1>9. QED
  BY <1>4, <1>5, <1>6, <1>7, <1>8 DEF Cancel

\* While no fault strikes, every 200 stands for an event that is out once the order's
\* requests are over, however requests, replicas and redeliveries interleave.
THEOREM CancellationsArePublished == ASSUME KeysNameOrders PROVE Spec => []CancelsArePublished
<1> DEFINE Promises == faults = 0 => PromisesHold
<1>1. Init => Promises
  BY OrderAssumption DEF Init, BusInit, PromisesHold, LinksAreUp, FlightsAreParsed, InFlight, CancelledIsPromised,
         AnswersArePromised, KeysArePromised
<1>2. IInv /\ Promises /\ [Next]_vars => Promises'
  <2> SUFFICES ASSUME IInv, PromisesHold, [Next]_vars, faults' = 0 PROVE PromisesHold'
    BY FaultsGrow
  <2>1. CASE \E r \in Requests : Cancel(r)
    BY <2>1, RequestSteps
  <2>2. CASE ~(\E r \in Requests : Cancel(r))
    <3>1. /\ LinksAreUp'
          /\ request' = request
          /\ cancelEvents' = cancelEvents
          /\ \A p \in Processes : idempotencyStore'[p] \subseteq idempotencyStore[p]
      BY <2>2, CalmSteps
    <3>2. \A o \in Orders : Promised(o) <=> Promised(o)'
      BY <3>1 DEF Promised
    <3>3. ~(\E r \in Requests : UpdateOrder(r))
      BY <2>2 DEF Cancel
    <3>4. CancelledIsPromised'
      BY <3>2, <3>3, OnlyRequestsCancel DEF PromisesHold, CancelledIsPromised
    <3>5. QED
      BY <3>1, <3>2, <3>4, OrderAssumption
         DEF PromisesHold, FlightsAreParsed, InFlight, AnswersArePromised, KeysArePromised
  <2>3. QED
    BY <2>1, <2>2
<1>3. Promises => CancelsArePublished
  BY OrderAssumption DEF PromisesHold, AnswersArePromised, Promised, CancelsArePublished,
                         AcknowledgedCancelIsPublished, InFlight
<1>4. QED
  BY <1>1, <1>2, <1>3, OrderInvariant, PTL DEF Spec
-----------------------------------------------------------------------------
(***************************************************************************)
(* Nothing the broker hands over is lost.  A callback works on events of   *)
(* its own type, and from the create on an order.created has the row       *)
(* behind it; so has the marker that lets a redelivery be acked unread.    *)
(***************************************************************************)

CreatedAwaits == {"find", "create", "mark"}
AssignedAwaits == {"findAssigned", "assign", "markAssigned"}

EventsAreInCustody ==
  \A m \in sent :
    m.type = "order.created" /\ m.form = "valid" =>
      InCustody(m) \/ orders[m.order] # Unwritten \/ DroppedByAFault(m) \/ m \in logged

CallbacksFollowRows ==
  \A w \in Workers :
    /\ pc[w] \in CreatedAwaits => msg[w].type = "order.created"
    /\ pc[w] \in AssignedAwaits => msg[w].type = "delivery.assigned"
    /\ pc[w] \in {"mark", "ack"} /\ msg[w].type = "order.created" =>
         orders[msg[w].order] # Unwritten

MarkersFollowRows ==
  \A o \in Orders : <<"created", o>> \in processedEvents => orders[o] # Unwritten

Custody == EventsAreInCustody /\ CallbacksFollowRows /\ MarkersFollowRows

\* A callback's step on an order.created whose row is not there yet moves it on; one that
\* ends the callback has the row behind it, or was about an assignment.
LEMMA HandleSettles ==
  ASSUME IInv, Custody, NEW w \in Workers, Handle(w), Settle(w)
  PROVE  \/ msg[w].type # "order.created"
         \/ orders[msg[w].order] # Unwritten
         \/ \E l \in Awaits \cup {"ack"} : Goto(w, l)
<1>1. msg[w].order \in Orders
  BY HandleShape, OrderAssumption DEF IInv, TypeOK, BusTypeOK
<1>2. CASE FindCreated(w) \/ FindAssigned(w)
  BY <1>2 DEF FindCreated, FindAssigned, Proceed, Awaits
<1>3. CASE CreateOrder(w)
  BY <1>3 DEF CreateOrder, Proceed, Awaits
<1>4. CASE AssignOrder(w) \/ MarkAssigned(w)
  BY <1>4 DEF AssignOrder, MarkAssigned, Mark, Custody, CallbacksFollowRows, AssignedAwaits
<1>5. CASE MarkCreated(w) \/ Ack(w)
  BY <1>5 DEF MarkCreated, Mark, Ack, Custody, CallbacksFollowRows
<1>6. QED
  BY <1>2, <1>3, <1>4, <1>5 DEF Handle

\* An order.created whose order has no row stays in the broker's custody, unless a
\* development subscriber takes it.
LEMMA EventsStay ==
  ASSUME IInv, Custody, [Next]_vars,
         NEW m \in Messages, m \in sent', m.type = "order.created", m.form = "valid",
         orders'[m.order] = Unwritten, ~DroppedByAFault(m), m \notin logged'
  PROVE  InCustody(m)' \/ DroppedByAFault(m)'
<1>1. BusTypeOK(Awaits) /\ "idle" \notin Awaits
  BY DEF IInv, TypeOK, Awaits
<1>2. orders[m.order] = Unwritten
  BY RowsGoForward, OrderAssumption
<1>3. logged \subseteq logged'
  <2>1. ASSUME NEW r \in Requests, Cancel(r) PROVE logged \subseteq logged'
    BY <2>1 DEF Cancel, Arrive, ArriveUnparsed, FindOrder, UpdateOrder, PublishCancelled, devVars
  <2>2. ASSUME NEW w \in Workers, Handle(w) PROVE logged \subseteq logged'
    BY <2>2, HandleShape DEF IInv, httpVars, HttpRestart
  <2>3. ASSUME NEW p \in Processes, NEW r \in Requests, ExpireKey(p, r.key)
        PROVE  logged \subseteq logged'
    BY <2>3 DEF ExpireKey, devVars
  <2>4. ASSUME NEW p \in Processes, StartSubscriber(p) \/ \E n \in Messages : LogOrderCreated(p, n)
        PROVE  logged \subseteq logged'
    BY <2>4 DEF StartSubscriber, LogOrderCreated
  <2>5. CASE Fault \/ Receive \/ UNCHANGED vars \/ \E n \in Messages : Publish(n)
    BY <2>5 DEF Fault, Receive, Publish, vars, httpVars, HttpRestart, RequestFails, devVars
  <2>6. QED
    BY <2>1, <2>2, <2>3, <2>4, <2>5 DEF Next
<1>4. m \in sent => InCustody(m)
  BY <1>2, <1>3 DEF Custody, EventsAreInCustody
<1>5. ASSUME UNCHANGED busVars PROVE InCustody(m)'
  BY <1>4, <1>5 DEF busVars, InCustody, Connected
<1>6. ASSUME NEW n \in Messages, Publish(n) PROVE InCustody(m)'
  <2>1. CASE m \in sent
    BY <1>1, <1>4, <1>6, <2>1, FaultsKeepCustody DEF Publish
  <2>2. CASE m \notin sent
    BY <1>6, <2>2 DEF Publish, Send, InCustody
  <2>3. QED
    BY <2>1, <2>2
<1>7. CASE Receive
  <2>1. PICK w \in Workers, n \in Messages : Deliver(w, n, Entry(n))
    BY <1>7 DEF Receive
  <2>2. sent' = sent /\ Entry(n) \in Awaits
    BY <2>1 DEF Deliver, Awaits, Entry
  <2>3. QED
    BY <1>1, <1>4, <2>1, <2>2, DeliverKeepsCustody
<1>8. ASSUME NEW w \in Workers, NEW l \in Awaits \cup {"ack"}, Goto(w, l)
      PROVE  InCustody(m)'
  <2>1. l # "idle" /\ sent' = sent
    BY <1>8 DEF Awaits, Goto
  <2>2. QED
    BY <1>1, <1>4, <1>8, <2>1, GotoKeepsCustody
<1>9. ASSUME NEW w \in Workers, Handle(w) PROVE InCustody(m)'
  <2>1. CASE \E l \in Awaits \cup {"ack"} : Goto(w, l)
    BY <1>8, <2>1
  <2>2. CASE Nack(w) \/ Ack(w)
    <3>1. Settle(w) /\ sent' = sent
      BY <2>2 DEF Nack, Ack
    <3>2. msg[w] # m \/ \E l \in Awaits \cup {"ack"} : Goto(w, l)
      BY <1>2, <1>9, <3>1, HandleSettles
    <3>3. QED
      BY <1>1, <1>4, <2>1, <3>1, <3>2, SettleKeepsCustody
  <2>3. QED
    BY <1>9, <2>1, <2>2, HandleShape DEF IInv
<1>10. ASSUME NEW r \in Requests, Cancel(r) PROVE InCustody(m)'
  <2>1. CASE ArriveUnparsed(r)
    <3>1. Restart(r.process) /\ sent' = sent /\ r.process \in Processes
      BY <2>1, OrderAssumption DEF ArriveUnparsed
    <3>2. QED
      BY <1>1, <1>4, <3>1, RestartKeepsCustody
  <2>2. QED
    BY <1>5, <1>10, <2>1 DEF Cancel, Arrive, FindOrder, UpdateOrder, PublishCancelled
<1>11. ASSUME NEW p \in Processes, NEW r \in Requests, ExpireKey(p, r.key) PROVE InCustody(m)'
  BY <1>5, <1>11 DEF ExpireKey
<1>12. ASSUME NEW p \in Processes, StartSubscriber(p) PROVE InCustody(m)'
  BY <1>5, <1>12 DEF StartSubscriber
<1>13. ASSUME NEW p \in Processes, NEW n \in Messages, LogOrderCreated(p, n) PROVE InCustody(m)'
  <2>1. n # m /\ ready' = ready \ {n} /\ UNCHANGED <<sent, pc, msg, link>>
    BY <1>13, BusAssumption DEF LogOrderCreated
  <2>2. QED
    BY <1>4, <2>1 DEF InCustody, Connected
<1>14. CASE Fault
  <2>1. ASSUME NEW p \in Processes, Crash(p) \/ CloseConnection(p) PROVE InCustody(m)'
    <3>1. sent' = sent
      BY <2>1 DEF Crash, CloseConnection
    <3>2. QED
      BY <1>1, <1>4, <2>1, <3>1, FaultsKeepCustody
  <2>2. ASSUME NEW w \in Workers, DatabaseFails(w, Awaits)
        PROVE  InCustody(m)' \/ DroppedByAFault(m)'
    <3>1. sent' = sent
      BY <2>2 DEF DatabaseFails
    <3>2. QED
      BY <1>1, <1>4, <2>2, <3>1, DatabaseFailures
  <2>3. ASSUME NEW r \in Requests, RequestFails(r) PROVE InCustody(m)'
    BY <1>4, <2>3 DEF RequestFails, InCustody, Connected
  <2>4. QED
    BY <1>14, <2>1, <2>2, <2>3 DEF Fault
<1>15. CASE UNCHANGED vars
  BY <1>5, <1>15 DEF vars, busVars
<1>16. QED
  BY <1>6, <1>7, <1>9, <1>10, <1>11, <1>12, <1>13, <1>14, <1>15 DEF Next

\* An event dropped because of a fault stays dropped: faults are only added.
LEMMA DropsStay ==
  ASSUME IInv, [Next]_vars, NEW m \in Messages, DroppedByAFault(m)
  PROVE  DroppedByAFault(m)'
<1>1. BusTypeOK(Awaits)
  BY DEF IInv, TypeOK
<1>2. ASSUME dead \subseteq dead', faults' = faults PROVE DroppedByAFault(m)'
  BY <1>2 DEF DroppedByAFault
<1>3. ASSUME NEW w \in Workers, Handle(w) PROVE DroppedByAFault(m)'
  BY <1>1, <1>3, HandleShape, DropsAreFinal DEF IInv
<1>4. CASE Receive
  <2>1. PICK w \in Workers, n \in Messages : Deliver(w, n, Entry(n))
    BY <1>4 DEF Receive
  <2>2. Entry(n) \in Awaits
    BY DEF Awaits, Entry
  <2>3. QED
    BY <1>1, <2>1, <2>2, DropsAreFinal
<1>5. ASSUME NEW n \in Messages, Publish(n) PROVE DroppedByAFault(m)'
  BY <1>1, <1>5, DropsAreFinal DEF Publish
<1>6. ASSUME NEW r \in Requests, Cancel(r) PROVE DroppedByAFault(m)'
  BY <1>2, <1>6 DEF Cancel, Arrive, ArriveUnparsed, FindOrder, UpdateOrder, PublishCancelled,
                    busVars
<1>7. ASSUME NEW p \in Processes, NEW r \in Requests, ExpireKey(p, r.key)
      PROVE  DroppedByAFault(m)'
  BY <1>2, <1>7 DEF ExpireKey, busVars
<1>8. ASSUME NEW p \in Processes, StartSubscriber(p) \/ \E n \in Messages : LogOrderCreated(p, n)
      PROVE  DroppedByAFault(m)'
  BY <1>2, <1>8 DEF StartSubscriber, LogOrderCreated, busVars
<1>9. CASE Fault
  <2>1. ASSUME NEW r \in Requests, RequestFails(r) PROVE DroppedByAFault(m)'
    BY <1>1, <2>1 DEF RequestFails, DroppedByAFault, BusTypeOK
  <2>2. QED
    BY <1>1, <1>9, <2>1, DropsAreFinal DEF Fault
<1>10. CASE UNCHANGED vars
  BY <1>2, <1>10 DEF vars, busVars
<1>11. QED
  BY <1>3, <1>4, <1>5, <1>6, <1>7, <1>8, <1>9, <1>10 DEF Next

\* No step but a callback's own moves it on, and only a delivery starts it.
LEMMA OtherStepsStartNothing ==
  ASSUME IInv, [Next]_vars, ~Receive, ~(\E w \in Workers : Handle(w))
  PROVE  Shrinks
<1>1. BusTypeOK(Awaits) /\ Awaits \in SUBSET Awaits /\ "idle" \notin Awaits
  BY DEF IInv, TypeOK, Awaits
<1>2. ASSUME UNCHANGED <<pc, msg>> PROVE Shrinks
  BY <1>2 DEF Shrinks
<1>3. ASSUME NEW n \in Messages, Publish(n) PROVE Shrinks
  BY <1>1, <1>3, OtherSteps DEF Publish
<1>4. ASSUME NEW r \in Requests, Cancel(r) PROVE Shrinks
  <2>1. CASE ArriveUnparsed(r)
    <3>1. Restart(r.process) /\ r.process \in Processes
      BY <2>1, OrderAssumption DEF ArriveUnparsed
    <3>2. QED
      BY <1>1, <3>1, RestartFacts
  <2>2. QED
    BY <1>2, <1>4, <2>1 DEF Cancel, Arrive, FindOrder, UpdateOrder, PublishCancelled, busVars
<1>5. ASSUME NEW p \in Processes, NEW r \in Requests, ExpireKey(p, r.key) PROVE Shrinks
  BY <1>2, <1>5 DEF ExpireKey, busVars
<1>6. ASSUME NEW p \in Processes, StartSubscriber(p) \/ \E n \in Messages : LogOrderCreated(p, n)
      PROVE  Shrinks
  BY <1>2, <1>6 DEF StartSubscriber, LogOrderCreated, busVars
<1>7. CASE Fault
  <2>1. ASSUME NEW r \in Requests, RequestFails(r) PROVE Shrinks
    BY <1>2, <2>1 DEF RequestFails
  <2>2. QED
    BY <1>1, <1>7, <2>1, EndingSteps DEF Fault
<1>8. CASE UNCHANGED vars
  BY <1>2, <1>8 DEF vars, busVars
<1>9. QED
  BY <1>3, <1>4, <1>5, <1>6, <1>7, <1>8 DEF Next

\* A callback about to mark or ack an order.created has the row behind it.
LEMMA CallbacksStay ==
  ASSUME IInv, Custody, [Next]_vars
  PROVE  CallbacksFollowRows'
<1> DEFINE Follows(w) ==
      /\ pc[w] \in CreatedAwaits => msg[w].type = "order.created"
      /\ pc[w] \in AssignedAwaits => msg[w].type = "delivery.assigned"
      /\ pc[w] \in {"mark", "ack"} /\ msg[w].type = "order.created" =>
           orders[msg[w].order] # Unwritten
<1> SUFFICES ASSUME NEW w \in Workers PROVE Follows(w)'
  BY DEF CallbacksFollowRows
<1> USE DEF CreatedAwaits, AssignedAwaits
<1>1. BusTypeOK(Awaits) /\ Follows(w)
  BY DEF IInv, TypeOK, Custody, CallbacksFollowRows
<1>2. ASSUME pc'[w] = pc[w], msg'[w] = msg[w] PROVE Follows(w)'
  <2>1. CASE pc[w] = "idle"
    BY <1>2, <2>1
  <2>2. CASE pc[w] # "idle"
    <3>1. msg[w].order \in Orders
      BY <1>1, <2>2, OrderAssumption DEF BusTypeOK
    <3>2. orders[msg[w].order] # Unwritten => orders'[msg[w].order] # Unwritten
      BY <3>1, RowsGoForward
    <3>3. QED
      BY <1>1, <1>2, <3>2
  <2>3. QED
    BY <2>1, <2>2
<1>3. ASSUME Shrinks PROVE Follows(w)'
  <2>1. CASE pc'[w] = "idle"
    BY <2>1
  <2>2. CASE pc'[w] = pc[w] /\ msg'[w] = msg[w]
    BY <1>2, <2>2
  <2>3. QED
    BY <1>3, <2>1, <2>2 DEF Shrinks
<1>4. CASE Receive
  <2>1. PICK v \in Workers, m \in Messages : Deliver(v, m, Entry(m))
    BY <1>4 DEF Receive
  <2>2. Shrinks \/ (pc' = [pc EXCEPT ![v] = Entry(m)] /\ msg' = [msg EXCEPT ![v] = m])
    <3>1. Entry(m) \in Awaits
      BY DEF Awaits, Entry
    <3>2. QED
      BY <1>1, <2>1, <3>1, DeliverFacts
  <2>3. CASE pc' = [pc EXCEPT ![v] = Entry(m)] /\ msg' = [msg EXCEPT ![v] = m] /\ v = w
    <3>1. pc'[w] = Entry(m) /\ msg'[w] = m
      BY <1>1, <2>3 DEF BusTypeOK
    <3>2. m.type \in {"order.created", "delivery.assigned"}
      BY OrderAssumption
    <3>3. QED
      BY <3>1, <3>2 DEF Entry
  <2>4. CASE pc' = [pc EXCEPT ![v] = Entry(m)] /\ msg' = [msg EXCEPT ![v] = m] /\ v # w
    BY <1>1, <1>2, <2>4 DEF BusTypeOK
  <2>5. QED
    BY <1>3, <2>2, <2>3, <2>4
<1>5. ASSUME NEW v \in Workers, Handle(v) PROVE Follows(w)'
  <2>1. CASE Nack(v) \/ Ack(v)
    BY <1>1, <1>3, <1>5, <2>1, HandleShape, EndingSteps DEF IInv
  <2>2. CASE (\E l \in Awaits \cup {"ack"} : Goto(v, l)) /\ v # w
    BY <1>1, <1>2, <2>2 DEF Goto, BusTypeOK
  <2>3. CASE (\E l \in Awaits \cup {"ack"} : Goto(v, l)) /\ v = w
    <3>1. /\ msg'[w] = msg[w]
          /\ msg[w].order \in Orders
          /\ msg[w].type \in {"order.created", "delivery.assigned"}
          /\ pc[w] # "idle"
      BY <1>1, <1>5, <2>3, HandleShape, OrderAssumption DEF IInv, Goto, BusTypeOK
    <3>2. ASSUME NEW l, Goto(v, l) PROVE pc'[w] = l
      BY <1>1, <2>3, <3>2 DEF Goto, BusTypeOK
    <3>3. orders[msg[w].order] # Unwritten => orders'[msg[w].order] # Unwritten
      BY <3>1, RowsGoForward
    <3>4. CASE Nack(v) \/ Ack(v)
      BY <2>1, <3>4
    <3>5. CASE FindCreated(v)
      BY <1>1, <2>3, <3>1, <3>2, <3>3, <3>5
         DEF FindCreated, Proceed, Custody, MarkersFollowRows
    <3>6. CASE CreateOrder(v)
      <4>1. \/ Goto(v, "mark") /\ orders' = [orders EXCEPT ![msg[w].order] = "CREATED"]
            \/ Nack(v)
        BY <2>3, <3>6 DEF CreateOrder, Proceed, Throw
      <4>2. CASE Goto(v, "mark") /\ orders' = [orders EXCEPT ![msg[w].order] = "CREATED"]
        <5>1. orders'[msg[w].order] # Unwritten
          BY <3>1, <4>2, OrderAssumption DEF IInv, TypeOK
        <5>2. msg[w].type = "order.created"
          BY <1>1, <2>3, <3>6 DEF CreateOrder
        <5>3. QED
          BY <3>1, <3>2, <4>2, <5>1, <5>2
      <4>3. QED
        BY <3>4, <4>1, <4>2
    <3>7. CASE MarkCreated(v)
      BY <1>1, <2>3, <3>1, <3>2, <3>3, <3>4, <3>7 DEF MarkCreated, Mark, Proceed, Throw
    <3>8. CASE FindAssigned(v) \/ AssignOrder(v) \/ MarkAssigned(v)
      <4>1. /\ Nack(v) \/ \E l \in {"assign", "markAssigned", "ack"} : Goto(v, l)
            /\ pc[w] \in AssignedAwaits
        BY <2>3, <3>8 DEF FindAssigned, AssignOrder, MarkAssigned, Mark, Proceed, Throw
      <4>2. msg[w].type = "delivery.assigned"
        BY <1>1, <4>1
      <4>3. QED
        BY <3>1, <3>2, <3>4, <4>1, <4>2
    <3>9. QED
      BY <1>5, <3>4, <3>5, <3>6, <3>7, <3>8 DEF Handle
  <2>4. QED
    BY <1>5, <2>1, <2>2, <2>3, HandleShape DEF IInv
<1>6. QED
  BY <1>3, <1>4, <1>5, OtherStepsStartNothing

\* A marker is written after the row it stands for.
LEMMA MarkersStay ==
  ASSUME IInv, Custody, [Next]_vars
  PROVE  MarkersFollowRows'
<1> SUFFICES ASSUME NEW o \in Orders, <<"created", o>> \in processedEvents'
             PROVE  orders'[o] # Unwritten
  BY DEF MarkersFollowRows
<1>1. CASE <<"created", o>> \in processedEvents
  BY <1>1, RowsGoForward DEF Custody, MarkersFollowRows
<1>2. CASE <<"created", o>> \notin processedEvents
  <2>1. PICK w \in Workers : Handle(w)
    BY <1>2, OtherStepsWriteNothing DEF UpdateOrder, dbVars
  <2>2. MarkCreated(w) /\ o = msg[w].order
    BY <1>2, <2>1 DEF Handle, FindCreated, FindAssigned, CreateOrder, AssignOrder, MarkCreated,
                      MarkAssigned, Mark, dbVars
  <2>3. pc[w] = "mark" /\ msg[w].type = "order.created"
    BY <2>2 DEF MarkCreated, Mark, Custody, CallbacksFollowRows, CreatedAwaits
  <2>4. orders[o] # Unwritten
    BY <2>2, <2>3 DEF Custody, CallbacksFollowRows
  <2>5. QED
    BY <2>4, RowsGoForward
<1>3. QED
  BY <1>1, <1>2

\* A valid order.created becomes a row, stays with the broker, is dropped by a failed
\* database call or is taken by a development subscriber: nothing else loses it, whatever
\* kills the replicas that hold it.
THEOREM OrderLosesNoOrder == Spec => []NoOrderIsLost
<1>1. Init => Custody
  BY DEF Init, BusInit, Custody, EventsAreInCustody, CallbacksFollowRows, MarkersFollowRows,
         CreatedAwaits, AssignedAwaits
<1>2. IInv /\ Custody /\ [Next]_vars => Custody'
  <2> SUFFICES ASSUME IInv, Custody, [Next]_vars PROVE Custody'
    OBVIOUS
  <2>1. sent' \in SUBSET Messages
    BY NextIInv DEF IInv, TypeOK, BusTypeOK
  <2>2. EventsAreInCustody'
    BY <2>1, EventsStay, DropsStay DEF EventsAreInCustody
  <2>3. QED
    BY <2>2, CallbacksStay, MarkersStay DEF Custody
<1>3. IInv /\ Custody => NoOrderIsLost
  BY DEF IInv, TypeOK, BusTypeOK, Custody, EventsAreInCustody, InCustody, NoOrderIsLost, Pending
<1>4. QED
  BY <1>1, <1>2, <1>3, OrderInvariant, PTL DEF Spec
=============================================================================

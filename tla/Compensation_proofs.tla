------------------------- MODULE Compensation_proofs ------------------------
(***************************************************************************)
(* Theorems about the compensation path, for any orders, messages,         *)
(* replicas, callbacks and faults: nothing is announced that is not        *)
(* recorded, and once an assignment is tracked no released document of the *)
(* order is followed by another assignment.                                *)
(***************************************************************************)
EXTENDS Compensation, EventBus_proofs, FiniteSetTheorems

Labels == Awaits \cup KitchenAwaits

\* The callbacks that have inserted a document of o and have not announced it.
Assigning(o) == {w \in Workers : pc[w] \in {"mark", "publish"} /\ msg[w].order = o}

\* Every announced or pending assignment has a document of its own.
AssignmentsAreCounted ==
  \A o \in Orders :
    /\ IsFiniteSet(Assigning(o))
    /\ assignedEvents[o] + Cardinality(Assigning(o)) <= Len(deliveries[o])

\* What a cancellation handler has read, or done, still stands.
ReleasesAreRecorded ==
  /\ \A o \in Orders : cancelledEvents[o] > 0 => Released(o)
  /\ \A w \in Workers :
       /\ pc[w] = "cancel" => ~Unassigned(msg[w].order)
       /\ pc[w] = "publishCancelled" => Released(msg[w].order)

\* The kitchen's callbacks hold orders of its collection, and mark those they have
\* passed on or do not know.
KitchenCallbacks ==
  \A w \in Workers :
    /\ pc[w] \in KitchenAwaits => msg[w].order \in KitchenOrders
    /\ pc[w] \in {"cancelOrder", "publishKitchen"} => kitchenOrders[msg[w].order] # "none"
    /\ pc[w] = "markKitchen" => kitchenOrders[msg[w].order] = "none" \/ msg[w].order \in passedOn

\* Delivery's callbacks hold its events.
DeliveryCallbacks ==
  \A w \in Workers :
    /\ pc[w] \in Awaits => msg[w].type \in Types
    /\ pc[w] = "find" => msg[w].type = "payment.succeeded"

Inv ==
  /\ IInv
  /\ AssignmentsAreCounted
  /\ ReleasesAreRecorded
  /\ KitchenCallbacks
  /\ DeliveryCallbacks

\* No order has a document, no callback runs.
LEMMA InitInv == CompensationInit => Inv
<1> SUFFICES ASSUME CompensationInit PROVE Inv
  OBVIOUS
<1> USE DEF CompensationInit, BusInit, ServiceInit, KitchenInit
<1>1. IInv
  <2>1. BusTypeOK(Awaits \cup KitchenAwaits)
    BY BusAssumption DEF BusTypeOK
  <2>2. ServiceTypeOK
    BY DEF ServiceTypeOK
  <2>3. KitchenTypeOK /\ MarkedCancellationsArePassedOn
    BY DEF KitchenTypeOK, MarkedCancellationsArePassedOn
  <2>4. QED
    BY <2>1, <2>2, <2>3 DEF IInv
<1>2. \A o \in Orders : Assigning(o) = {}
  BY DEF Assigning
<1>3. AssignmentsAreCounted
  <2>1. \A o \in Orders : IsFiniteSet(Assigning(o)) /\ Cardinality(Assigning(o)) = 0
    BY <1>2, FS_EmptySet
  <2>2. \A o \in Orders : assignedEvents[o] = 0 /\ Len(deliveries[o]) = 0
    OBVIOUS
  <2>3. QED
    BY <2>1, <2>2 DEF AssignmentsAreCounted
<1>4. ReleasesAreRecorded /\ KitchenCallbacks /\ DeliveryCallbacks
  BY DEF ReleasesAreRecorded, KitchenCallbacks, KitchenAwaits, DeliveryCallbacks, Awaits
<1>5. QED
  BY <1>1, <1>3, <1>4 DEF Inv
-----------------------------------------------------------------------------
(***************************************************************************)
(* The documents of an order only change in three ways.                    *)
(***************************************************************************)

\* Documents are added behind the first, which only changes to CANCELLED.
DocumentsStay ==
  \A o \in Orders : /\ Len(deliveries'[o]) >= Len(deliveries[o])
                    /\ Released(o) => Released(o)'
                    /\ ~Unassigned(o) => ~Unassigned(o)'

\* An insert adds one document and keeps the first.
LEMMA AppendFacts ==
  ASSUME NEW s \in Seq({"ASSIGNED", "CANCELLED"})
  PROVE  /\ Append(s, "ASSIGNED") \in Seq({"ASSIGNED", "CANCELLED"})
         /\ Len(Append(s, "ASSIGNED")) = Len(s) + 1
         /\ Append(s, "ASSIGNED") # <<>>
         /\ s # <<>> => Head(Append(s, "ASSIGNED")) = Head(s)
OBVIOUS

\* An update of the first document keeps their number, and the other documents.
LEMMA ReplaceHeadFacts ==
  ASSUME NEW s \in Seq({"ASSIGNED", "CANCELLED"}), s # <<>>
  PROVE  /\ <<"CANCELLED">> \o Tail(s) \in Seq({"ASSIGNED", "CANCELLED"})
         /\ Len(<<"CANCELLED">> \o Tail(s)) = Len(s)
         /\ <<"CANCELLED">> \o Tail(s) # <<>>
         /\ Head(<<"CANCELLED">> \o Tail(s)) = "CANCELLED"
         /\ \A i \in 1 .. Len(s) :
              (<<"CANCELLED">> \o Tail(s))[i] = "ASSIGNED" => s[i] = "ASSIGNED"
OBVIOUS

LEMMA InsertedDocument ==
  ASSUME Inv, NEW w \in Workers, InsertDelivery(w)
  PROVE  /\ msg[w].order \in Orders
         /\ deliveries' \in [Orders -> Seq({"ASSIGNED", "CANCELLED"})]
         /\ Len(deliveries'[msg[w].order]) = Len(deliveries[msg[w].order]) + 1
         /\ DocumentsStay
<1> DEFINE o == msg[w].order
<1>1. /\ o \in Orders
      /\ deliveries \in [Orders -> Seq({"ASSIGNED", "CANCELLED"})]
      /\ deliveries' = [deliveries EXCEPT ![o] = Append(@, "ASSIGNED")]
  BY DeliveryAssumption DEF Inv, IInv, BusTypeOK, ServiceTypeOK, InsertDelivery
<1>2. deliveries'[o] = Append(deliveries[o], "ASSIGNED")
  BY <1>1
<1>3. \A q \in Orders \ {o} : deliveries'[q] = deliveries[q]
  BY <1>1
<1>4. DocumentsStay
  BY <1>1, <1>2, <1>3, AppendFacts DEF DocumentsStay, Released, Unassigned
<1>5. QED
  BY <1>1, <1>2, <1>4, AppendFacts

LEMMA CancelledDocument ==
  ASSUME Inv, NEW w \in Workers, CancelDelivery(w)
  PROVE  /\ msg[w].order \in Orders
         /\ deliveries' \in [Orders -> Seq({"ASSIGNED", "CANCELLED"})]
         /\ Released(msg[w].order)'
         /\ \A o \in Orders : /\ Len(deliveries'[o]) = Len(deliveries[o])
                              /\ Assigned(o)' \subseteq Assigned(o)
         /\ DocumentsStay
<1> DEFINE o == msg[w].order
<1>1. /\ o \in Orders
      /\ deliveries \in [Orders -> Seq({"ASSIGNED", "CANCELLED"})]
      /\ deliveries' = [deliveries EXCEPT ![o] = <<"CANCELLED">> \o Tail(@)]
      /\ deliveries[o] # <<>>
      /\ msg' = msg
  BY DeliveryAssumption
     DEF Inv, IInv, BusTypeOK, ServiceTypeOK, CancelDelivery, Goto, ReleasesAreRecorded, Unassigned
<1>2. deliveries'[o] = <<"CANCELLED">> \o Tail(deliveries[o])
  BY <1>1
<1>3. \A q \in Orders \ {o} : deliveries'[q] = deliveries[q]
  BY <1>1
<1>4. DocumentsStay /\ Released(o)'
  BY <1>1, <1>2, <1>3, ReplaceHeadFacts DEF DocumentsStay, Released, Unassigned
<1>5. \A q \in Orders : /\ Len(deliveries'[q]) = Len(deliveries[q])
                        /\ Assigned(q)' \subseteq Assigned(q)
  BY <1>1, <1>2, <1>3, ReplaceHeadFacts DEF Assigned
<1>6. QED
  BY <1>1, <1>2, <1>4, <1>5, ReplaceHeadFacts
-----------------------------------------------------------------------------
(***************************************************************************)
(* What keeps each part of the invariant.                                  *)
(***************************************************************************)

\* Callbacks go on, but none to where a document has been inserted or released.
Calms ==
  \A w \in Workers :
    \/ pc'[w] = pc[w] /\ msg'[w] = msg[w]
    \/ pc'[w] \in {"idle", "ack"}
    \/ /\ pc[w] \in Awaits /\ msg'[w] = msg[w]
       /\ \/ pc'[w] \in {"insert", "readDelivery", "markCancel"}
          \/ pc[w] = "mark" /\ pc'[w] = "publish"
    \/ pc'[w] = "find" /\ msg'[w].type = "payment.succeeded"
    \/ pc'[w] = "findCancel" /\ msg'[w].type \in Types
    \/ pc'[w] = "findKitchen" /\ msg'[w].order \in KitchenOrders

\* The callbacks between an insert and its announcement are the same ones or fewer.
LEMMA CountsAreKept ==
  ASSUME AssignmentsAreCounted, ServiceTypeOK, assignedEvents' = assignedEvents, DocumentsStay,
         ServiceTypeOK', \A o \in Orders : Assigning(o)' \subseteq Assigning(o)
  PROVE  AssignmentsAreCounted'
<1> SUFFICES ASSUME NEW o \in Orders
             PROVE  /\ IsFiniteSet(Assigning(o)')
                    /\ assignedEvents'[o] + Cardinality(Assigning(o)') <= Len(deliveries'[o])
  BY DEF AssignmentsAreCounted
<1>1. /\ IsFiniteSet(Assigning(o)') /\ IsFiniteSet(Assigning(o))
      /\ Cardinality(Assigning(o)') <= Cardinality(Assigning(o))
  BY FS_Subset DEF AssignmentsAreCounted
<1>2. Cardinality(Assigning(o)') \in Nat /\ Cardinality(Assigning(o)) \in Nat
  BY <1>1, FS_CardinalityType
<1>3. /\ assignedEvents[o] \in Nat /\ assignedEvents'[o] = assignedEvents[o]
      /\ Len(deliveries[o]) \in Nat /\ Len(deliveries'[o]) \in Nat
      /\ Len(deliveries'[o]) >= Len(deliveries[o])
  BY DEF ServiceTypeOK, DocumentsStay
<1>4. QED
  BY <1>1, <1>2, <1>3 DEF AssignmentsAreCounted

LEMMA CalmStepsAssignNothing ==
  ASSUME Calms
  PROVE  \A o \in Orders : Assigning(o)' \subseteq Assigning(o)
BY DEF Calms, Assigning

\* The delivery service's callbacks go on from what is recorded.
LEMMA ReleasesAreKept ==
  ASSUME Inv, DocumentsStay,
         \A o \in Orders : cancelledEvents'[o] > 0 => cancelledEvents[o] > 0 \/ Released(o)',
         \A w \in Workers :
           \/ pc'[w] = pc[w] /\ msg'[w] = msg[w]
           \/ pc'[w] \notin {"cancel", "publishCancelled"}
           \/ pc'[w] = "cancel" /\ ~Unassigned(msg[w].order)'
           \/ pc'[w] = "publishCancelled" /\ Released(msg[w].order)'
  PROVE  ReleasesAreRecorded'
<1>1. \A w \in Workers : pc[w] # "idle" => msg[w].order \in Orders
  BY DeliveryAssumption DEF Inv, IInv, BusTypeOK
<1>2. \A o \in Orders : cancelledEvents'[o] > 0 => Released(o)'
  BY DEF Inv, ReleasesAreRecorded, DocumentsStay
<1>3. ASSUME NEW w \in Workers, pc'[w] = "cancel"
      PROVE  ~Unassigned(msg[w].order)'
  BY <1>1, <1>3 DEF Inv, ReleasesAreRecorded, DocumentsStay
<1>4. ASSUME NEW w \in Workers, pc'[w] = "publishCancelled"
      PROVE  Released(msg[w].order)'
  BY <1>1, <1>4 DEF Inv, ReleasesAreRecorded, DocumentsStay
<1>5. QED
  BY <1>2, <1>3, <1>4 DEF ReleasesAreRecorded, Unassigned, Released

\* What the kitchen knows of an order, and what it has passed on, stays.
LEMMA KitchenIsKept ==
  ASSUME KitchenCallbacks, MarkedCancellationsArePassedOn, KitchenTypeOK,
         passedOn \subseteq passedOn',
         \A o \in KitchenOrders : kitchenOrders'[o] = "none" <=> kitchenOrders[o] = "none",
         \A o \in cancelledOrders' :
           o \in cancelledOrders \/ kitchenOrders[o] = "none" \/ o \in passedOn',
         \A w \in Workers :
           \/ pc'[w] = pc[w] /\ msg'[w] = msg[w]
           \/ pc'[w] \notin KitchenAwaits
           \/ /\ msg'[w].order \in KitchenOrders
              /\ \/ pc'[w] \in {"findKitchen", "readOrder"}
                 \/ /\ pc'[w] \in {"cancelOrder", "publishKitchen"}
                    /\ kitchenOrders[msg'[w].order] # "none"
                 \/ /\ pc'[w] = "markKitchen"
                    /\ kitchenOrders[msg'[w].order] = "none" \/ msg'[w].order \in passedOn'
  PROVE  KitchenCallbacks' /\ MarkedCancellationsArePassedOn'
<1>1. MarkedCancellationsArePassedOn'
  BY DEF MarkedCancellationsArePassedOn
<1>2. ASSUME NEW w \in Workers
      PROVE  /\ pc'[w] \in KitchenAwaits => msg'[w].order \in KitchenOrders
             /\ pc'[w] \in {"cancelOrder", "publishKitchen"} => kitchenOrders'[msg'[w].order] # "none"
             /\ pc'[w] = "markKitchen" =>
                  kitchenOrders'[msg'[w].order] = "none" \/ msg'[w].order \in passedOn'
  <2>1. CASE pc'[w] = pc[w] /\ msg'[w] = msg[w]
    BY <2>1 DEF KitchenCallbacks, KitchenAwaits
  <2>2. CASE pc'[w] \notin KitchenAwaits
    BY <2>2 DEF KitchenAwaits
  <2>3. QED
    BY <2>1, <2>2 DEF KitchenAwaits
<1>3. QED
  BY <1>1, <1>2 DEF KitchenCallbacks

\* Delivery's callbacks keep the event they were started with.
LEMMA EventsAreKept ==
  ASSUME DeliveryCallbacks,
         \A w \in Workers :
           \/ pc'[w] = pc[w] /\ msg'[w] = msg[w]
           \/ pc'[w] \notin Awaits
           \/ pc[w] \in Awaits /\ msg'[w] = msg[w] /\ pc'[w] # "find"
           \/ pc'[w] = "find" /\ msg'[w].type = "payment.succeeded"
           \/ pc'[w] = "findCancel" /\ msg'[w].type \in Types
  PROVE  DeliveryCallbacks'
BY DEF DeliveryCallbacks, Types, Awaits

\* Steps that leave the services' collections as they are, but for delivery's markers.
LEMMA CalmSteps ==
  ASSUME Inv, BusTypeOK(Labels)', Calms,
         processedEvents' \in SUBSET (Types \X Orders),
         UNCHANGED <<deliveries, outVars, kitchenVars>>
  PROVE  Inv'
<1> USE DEF outVars, kitchenVars
<1>1. ServiceTypeOK /\ KitchenTypeOK /\ ServiceTypeOK' /\ KitchenTypeOK' /\ DocumentsStay
  <2>1. ServiceTypeOK /\ KitchenTypeOK
    BY DEF Inv, IInv
  <2>2. ServiceTypeOK' /\ KitchenTypeOK'
    BY <2>1 DEF ServiceTypeOK, KitchenTypeOK
  <2>3. DocumentsStay
    BY <2>1 DEF ServiceTypeOK, DocumentsStay, Released, Unassigned
  <2>4. QED
    BY <2>1, <2>2, <2>3
<1>2. AssignmentsAreCounted'
  BY <1>1, CountsAreKept, CalmStepsAssignNothing DEF Inv
<1>3. ReleasesAreRecorded'
  BY <1>1, ReleasesAreKept DEF Calms
<1>4. KitchenCallbacks' /\ MarkedCancellationsArePassedOn'
  BY <1>1, KitchenIsKept DEF Inv, IInv, Calms, KitchenAwaits
<1>5. DeliveryCallbacks'
  BY EventsAreKept DEF Inv, Calms, Awaits
<1>6. QED
  BY <1>1, <1>2, <1>3, <1>4, <1>5 DEF Inv, IInv, Labels
-----------------------------------------------------------------------------
\* What a callback holds, and how far its Goto reaches.
LEMMA CallbackFacts ==
  ASSUME Inv, NEW w \in Workers, pc[w] # "idle"
  PROVE  /\ msg[w].order \in Orders
         /\ ServiceTypeOK /\ KitchenTypeOK
         /\ \A l \in Labels \cup {"ack"} : Goto(w, l) => BusTypeOK(Labels)'
         /\ \A l : Goto(w, l) => /\ msg' = msg /\ pc'[w] = l
                                 /\ \A v \in Workers \ {w} : pc'[v] = pc[v]
BY DeliveryAssumption, OtherSteps DEF Inv, IInv, BusTypeOK, Goto, Labels

\* A Goto of the delivery service without an insert, a release or an announcement.
LEMMA CalmGoto ==
  ASSUME Inv, NEW w \in Workers, pc[w] \in Awaits,
         NEW l \in {"ack", "insert", "publish", "readDelivery", "markCancel"}, Goto(w, l),
         l = "publish" => pc[w] = "mark",
         processedEvents' \in SUBSET (Types \X Orders),
         UNCHANGED <<deliveries, outVars, kitchenVars>>
  PROVE  Inv'
<1>1. BusTypeOK(Labels)'
  BY CallbackFacts DEF Labels, Awaits
<1>2. Calms
  BY CallbackFacts DEF Calms, Awaits
<1>3. QED
  BY <1>1, <1>2, CalmSteps

\* A step of the delivery service is nothing to the kitchen.
LEMMA DeliveryGoto ==
  ASSUME Inv, NEW w \in Workers, pc[w] \in Awaits,
         NEW l \in (Awaits \cup {"ack"}) \ {"find"}, Goto(w, l), UNCHANGED kitchenVars
  PROVE  /\ BusTypeOK(Labels)' /\ KitchenTypeOK' /\ MarkedCancellationsArePassedOn'
         /\ KitchenCallbacks' /\ DeliveryCallbacks'
<1>1. BusTypeOK(Labels)' /\ pc[w] # "idle"
  BY CallbackFacts DEF Labels, Awaits
<1>2. KitchenTypeOK'
  BY DEF Inv, IInv, KitchenTypeOK, kitchenVars
<1>3. l \notin KitchenAwaits
  BY DEF Awaits, KitchenAwaits
<1>4. KitchenCallbacks' /\ MarkedCancellationsArePassedOn'
  BY <1>1, <1>3, CallbackFacts, KitchenIsKept DEF Inv, IInv, kitchenVars
<1>5. DeliveryCallbacks'
  BY <1>1, CallbackFacts, EventsAreKept DEF Inv
<1>6. QED
  BY <1>1, <1>2, <1>4, <1>5

\* The insert adds a document and a callback that is to announce it.
LEMMA InsertKeepsInv ==
  ASSUME Inv, NEW w \in Workers, InsertDelivery(w), UNCHANGED kitchenVars
  PROVE  Inv'
<1> DEFINE o == msg[w].order
<1>1. /\ pc[w] = "insert" /\ Goto(w, "mark")
      /\ UNCHANGED <<processedEvents, assignedEvents, cancelledEvents>>
  BY DEF InsertDelivery, outVars
<1>2. /\ BusTypeOK(Labels)' /\ KitchenTypeOK' /\ MarkedCancellationsArePassedOn'
      /\ KitchenCallbacks' /\ DeliveryCallbacks'
  BY <1>1, DeliveryGoto DEF Awaits
<1>3. /\ o \in Orders
      /\ deliveries' \in [Orders -> Seq({"ASSIGNED", "CANCELLED"})]
      /\ Len(deliveries'[o]) = Len(deliveries[o]) + 1
      /\ DocumentsStay
  BY InsertedDocument
<1>4. ServiceTypeOK /\ ServiceTypeOK'
  BY <1>1, <1>3 DEF Inv, IInv, ServiceTypeOK
<1>5. ReleasesAreRecorded'
  BY <1>1, <1>3, CallbackFacts, ReleasesAreKept
<1>6. ASSUME NEW q \in Orders
      PROVE  /\ IsFiniteSet(Assigning(q)')
             /\ assignedEvents'[q] + Cardinality(Assigning(q)') <= Len(deliveries'[q])
  <2>1. /\ IsFiniteSet(Assigning(q))
        /\ Cardinality(Assigning(q)) \in Nat
        /\ assignedEvents[q] + Cardinality(Assigning(q)) <= Len(deliveries[q])
    BY FS_CardinalityType DEF Inv, AssignmentsAreCounted
  <2>2. /\ Len(deliveries[q]) \in Nat /\ Len(deliveries'[q]) \in Nat
        /\ Len(deliveries'[q]) >= Len(deliveries[q])
        /\ assignedEvents'[q] = assignedEvents[q] /\ assignedEvents[q] \in Nat
    BY <1>1, <1>3, <1>4 DEF ServiceTypeOK, DocumentsStay
  <2>3. CASE q = o
    <3>1. Assigning(q)' = Assigning(q) \cup {w} /\ w \notin Assigning(q)
      BY <1>1, <2>3, CallbackFacts DEF Assigning
    <3>2. /\ IsFiniteSet(Assigning(q)')
          /\ Cardinality(Assigning(q)') = Cardinality(Assigning(q)) + 1
      BY <2>1, <3>1, FS_AddElement
    <3>3. QED
      BY <1>3, <2>1, <2>2, <2>3, <3>2
  <2>4. CASE q # o
    <3>1. Assigning(q)' = Assigning(q)
      BY <1>1, <2>4, CallbackFacts DEF Assigning
    <3>2. QED
      BY <2>1, <2>2, <3>1
  <2>5. QED
    BY <2>3, <2>4
<1>7. QED
  BY <1>2, <1>4, <1>5, <1>6 DEF Inv, IInv, AssignmentsAreCounted, Labels

\* The announcement takes the place of its callback in the count.
LEMMA AnnouncementKeepsInv ==
  ASSUME Inv, NEW w \in Workers, pc[w] = "publish", Goto(w, "ack"),
         assignedEvents' = [assignedEvents EXCEPT ![msg[w].order] = @ + 1],
         UNCHANGED <<dbVars, cancelledEvents, kitchenVars>>
  PROVE  Inv'
<1> DEFINE o == msg[w].order
<1>1. UNCHANGED <<deliveries, processedEvents>> /\ o \in Orders /\ ServiceTypeOK
  BY CallbackFacts DEF dbVars
<1>2. /\ BusTypeOK(Labels)' /\ KitchenTypeOK' /\ MarkedCancellationsArePassedOn'
      /\ KitchenCallbacks' /\ DeliveryCallbacks'
  BY DeliveryGoto DEF Awaits
<1>3. ServiceTypeOK' /\ DocumentsStay
  BY <1>1 DEF ServiceTypeOK, DocumentsStay, Released, Unassigned
<1>4. ReleasesAreRecorded'
  BY <1>1, <1>3, CallbackFacts, ReleasesAreKept
<1>5. ASSUME NEW q \in Orders
      PROVE  /\ IsFiniteSet(Assigning(q)')
             /\ assignedEvents'[q] + Cardinality(Assigning(q)') <= Len(deliveries'[q])
  <2>1. /\ IsFiniteSet(Assigning(q))
        /\ Cardinality(Assigning(q)) \in Nat
        /\ assignedEvents[q] + Cardinality(Assigning(q)) <= Len(deliveries[q])
    BY FS_CardinalityType DEF Inv, AssignmentsAreCounted
  <2>2. /\ Len(deliveries[q]) \in Nat /\ Len(deliveries'[q]) = Len(deliveries[q])
        /\ assignedEvents[q] \in Nat
    BY <1>1 DEF ServiceTypeOK
  <2>3. CASE q = o
    <3>1. Assigning(q)' = Assigning(q) \ {w} /\ w \in Assigning(q)
      BY <2>3, CallbackFacts DEF Assigning
    <3>2. /\ IsFiniteSet(Assigning(q)')
          /\ Cardinality(Assigning(q)') = Cardinality(Assigning(q)) - 1
      BY <2>1, <3>1, FS_RemoveElement
    <3>3. assignedEvents'[q] = assignedEvents[q] + 1
      BY <1>1, <2>3 DEF ServiceTypeOK
    <3>4. QED
      BY <2>1, <2>2, <3>2, <3>3
  <2>4. CASE q # o
    <3>1. Assigning(q)' = Assigning(q) /\ assignedEvents'[q] = assignedEvents[q]
      BY <1>1, <2>4, CallbackFacts DEF Assigning, ServiceTypeOK
    <3>2. QED
      BY <2>1, <2>2, <3>1
  <2>5. QED
    BY <2>3, <2>4
<1>6. QED
  BY <1>2, <1>3, <1>4, <1>5 DEF Inv, IInv, AssignmentsAreCounted, Labels

\* A cancellation handler goes on from a delivery it found, or has released.
LEMMA CancellationGoto ==
  ASSUME Inv, NEW w \in Workers, pc[w] \in Awaits,
         NEW l \in {"cancel", "publishCancelled", "markCancel"}, Goto(w, l),
         UNCHANGED <<assignedEvents, kitchenVars>>, ServiceTypeOK', DocumentsStay,
         l = "cancel" => ~Unassigned(msg[w].order)',
         l = "publishCancelled" => Released(msg[w].order)',
         \A o \in Orders : cancelledEvents'[o] > 0 => cancelledEvents[o] > 0 \/ Released(o)'
  PROVE  Inv'
<1>1. pc[w] # "idle"
  BY DEF Awaits
<1>2. /\ BusTypeOK(Labels)' /\ KitchenTypeOK' /\ MarkedCancellationsArePassedOn'
      /\ KitchenCallbacks' /\ DeliveryCallbacks'
  BY DeliveryGoto DEF Awaits
<1>3. ReleasesAreRecorded'
  BY <1>1, CallbackFacts, ReleasesAreKept
<1>4. AssignmentsAreCounted'
  <2>1. \A o \in Orders : Assigning(o)' \subseteq Assigning(o)
    BY <1>1, CallbackFacts DEF Assigning
  <2>2. QED
    BY <2>1, CountsAreKept DEF Inv, IInv
<1>5. QED
  BY <1>2, <1>3, <1>4 DEF Inv, IInv, Labels

\* A step of the kitchen is nothing to the delivery service, but for the events it sends.
LEMMA KitchenSteps ==
  ASSUME Inv, NEW w \in Workers, pc[w] \in KitchenAwaits,
         NEW l \in {"ack", "readOrder", "cancelOrder", "publishKitchen", "markKitchen"},
         msg' = msg, pc' = [pc EXCEPT ![w] = l], BusTypeOK(Labels)', KitchenTypeOK',
         passedOn \subseteq passedOn', UNCHANGED serviceVars,
         \A o \in KitchenOrders : kitchenOrders'[o] = "none" <=> kitchenOrders[o] = "none",
         \A o \in cancelledOrders' :
           o \in cancelledOrders \/ kitchenOrders[o] = "none" \/ o \in passedOn',
         l \in {"cancelOrder", "publishKitchen"} => kitchenOrders[msg[w].order] # "none",
         l = "markKitchen" => kitchenOrders[msg[w].order] = "none" \/ msg[w].order \in passedOn'
  PROVE  Inv'
<1>1. /\ pc'[w] = l /\ l \notin Awaits
      /\ \A v \in Workers \ {w} : pc'[v] = pc[v]
      /\ msg[w].order \in KitchenOrders
  BY DEF Inv, IInv, BusTypeOK, Awaits, KitchenCallbacks
<1>2. ServiceTypeOK /\ ServiceTypeOK' /\ DocumentsStay
  BY DEF Inv, IInv, ServiceTypeOK, serviceVars, DocumentsStay, Released, Unassigned
<1>3. AssignmentsAreCounted'
  <2>1. \A o \in Orders : Assigning(o)' \subseteq Assigning(o)
    BY <1>1 DEF Assigning, Awaits
  <2>2. QED
    BY <1>2, <2>1, CountsAreKept DEF Inv, serviceVars
<1>4. ReleasesAreRecorded'
  BY <1>1, <1>2, ReleasesAreKept DEF Awaits, serviceVars
<1>5. DeliveryCallbacks'
  BY <1>1, EventsAreKept DEF Inv
<1>6. KitchenCallbacks' /\ MarkedCancellationsArePassedOn'
  BY <1>1, KitchenIsKept DEF Inv, IInv, KitchenAwaits
<1>7. QED
  BY <1>2, <1>3, <1>4, <1>5, <1>6 DEF Inv, IInv, Labels

\* Callbacks that end, and messages another service sends.
LEMMA EndingsKeepInv ==
  ASSUME Inv, BusTypeOK(Labels)', Shrinks, UNCHANGED <<serviceVars, kitchenVars>>
  PROVE  Inv'
<1>1. Calms
  BY DEF Shrinks, Calms
<1>2. processedEvents' \in SUBSET (Types \X Orders)
  BY DEF Inv, IInv, ServiceTypeOK, serviceVars
<1>3. QED
  BY <1>1, <1>2, CalmSteps DEF serviceVars, outVars

\* No await of the delivery service's callbacks breaks the invariant.
LEMMA DeliveryKeepsInv ==
  ASSUME Inv, NEW w \in Workers, Handle(w), UNCHANGED kitchenVars
  PROVE  Inv'
<1> DEFINE o == msg[w].order
<1>1. ServiceTypeOK /\ BusTypeOK(Labels) /\ processedEvents \in SUBSET (Types \X Orders)
  BY DEF Inv, IInv, ServiceTypeOK, Labels
<1>2. ASSUME pc[w] \in Awaits
      PROVE  pc[w] # "idle" /\ o \in Orders /\ Key(w) \in Types \X Orders
  <2>1. pc[w] # "idle" /\ msg[w].type \in Types
    BY <1>2 DEF Inv, DeliveryCallbacks, Awaits
  <2>2. QED
    BY <2>1, CallbackFacts DEF Key
<1>3. CASE FindProcessed(w) \/ FindCancellation(w)
  <2>1. PICK l \in {"ack", "insert", "readDelivery"} : Goto(w, l) /\ UNCHANGED serviceVars
    BY <1>3 DEF FindProcessed, FindCancellation
  <2>2. pc[w] \in Awaits
    BY <1>3 DEF FindProcessed, FindCancellation, Awaits
  <2>3. QED
    BY <1>1, <2>1, <2>2, CalmGoto DEF serviceVars, outVars
<1>4. CASE InsertDelivery(w)
  BY <1>4, InsertKeepsInv
<1>5. CASE MarkAssigned(w) \/ MarkCancellation(w)
  <2>1. PICK l \in {"ack", "publish"} : Goto(w, l) /\ (l = "publish" => pc[w] = "mark")
    BY <1>5 DEF MarkAssigned, MarkCancellation
  <2>2. /\ pc[w] \in Awaits /\ processedEvents' = processedEvents \cup {Key(w)}
        /\ UNCHANGED <<deliveries, outVars>>
    BY <1>5 DEF MarkAssigned, MarkCancellation, Awaits
  <2>3. processedEvents' \in SUBSET (Types \X Orders)
    BY <1>1, <1>2, <2>2
  <2>4. QED
    BY <2>1, <2>2, <2>3, CalmGoto
<1>6. CASE PublishAssigned(w)
  <2>1. CASE PublishFails(w) /\ UNCHANGED assignedEvents
    <3>1. BusTypeOK(Labels)' /\ Shrinks
      BY <1>1, <1>6, <2>1, EndingSteps DEF PublishAssigned, PublishFails
    <3>2. QED
      BY <1>6, <2>1, <3>1, EndingsKeepInv DEF PublishAssigned, serviceVars, dbVars
  <2>2. CASE ~(PublishFails(w) /\ UNCHANGED assignedEvents)
    BY <1>6, <2>2, AnnouncementKeepsInv DEF PublishAssigned
  <2>3. QED
    BY <2>1, <2>2
<1>7. CASE ReadDelivery(w)
  <2>1. pc[w] \in Awaits /\ UNCHANGED serviceVars
    BY <1>7 DEF ReadDelivery, Awaits
  <2>2. CASE Goto(w, "markCancel")
    BY <1>1, <2>1, <2>2, CalmGoto DEF serviceVars, outVars
  <2>3. CASE ~Goto(w, "markCancel")
    <3>1. Goto(w, "cancel") /\ ~Unassigned(o) /\ msg' = msg
      BY <1>7, <2>3 DEF ReadDelivery, Goto
    <3>2. ServiceTypeOK' /\ DocumentsStay /\ ~Unassigned(msg[w].order)'
      BY <1>1, <2>1, <3>1 DEF ServiceTypeOK, serviceVars, DocumentsStay, Released, Unassigned
    <3>3. QED
      BY <2>1, <3>1, <3>2, CancellationGoto DEF serviceVars
  <2>4. QED
    BY <2>2, <2>3
<1>8. CASE CancelDelivery(w)
  <2>1. /\ pc[w] \in Awaits /\ Goto(w, "publishCancelled")
        /\ UNCHANGED <<processedEvents, assignedEvents, cancelledEvents>>
    BY <1>8 DEF CancelDelivery, Awaits, outVars
  <2>2. ServiceTypeOK' /\ DocumentsStay /\ Released(msg[w].order)'
    BY <1>1, <1>8, <2>1, CancelledDocument DEF ServiceTypeOK
  <2>3. QED
    BY <2>1, <2>2, CancellationGoto
<1>9. CASE PublishCancelled(w)
  <2>1. CASE PublishFails(w) /\ UNCHANGED cancelledEvents
    <3>1. BusTypeOK(Labels)' /\ Shrinks
      BY <1>1, <1>9, <2>1, EndingSteps DEF PublishCancelled, PublishFails
    <3>2. QED
      BY <1>9, <2>1, <3>1, EndingsKeepInv DEF PublishCancelled, serviceVars, dbVars
  <2>2. CASE ~(PublishFails(w) /\ UNCHANGED cancelledEvents)
    <3>1. /\ pc[w] = "publishCancelled" /\ pc[w] \in Awaits /\ Goto(w, "markCancel")
          /\ cancelledEvents' = [cancelledEvents EXCEPT ![o] = @ + 1]
          /\ UNCHANGED <<deliveries, processedEvents, assignedEvents>>
      BY <1>9, <2>2 DEF PublishCancelled, dbVars, Awaits
    <3>2. ServiceTypeOK' /\ DocumentsStay
      BY <1>1, <1>2, <3>1 DEF ServiceTypeOK, DocumentsStay, Released, Unassigned
    <3>3. Released(o) /\ \A q \in Orders : q = o \/ cancelledEvents'[q] = cancelledEvents[q]
      BY <1>1, <3>1 DEF Inv, ReleasesAreRecorded, ServiceTypeOK
    <3>4. \A q \in Orders : cancelledEvents'[q] > 0 => cancelledEvents[q] > 0 \/ Released(q)'
      BY <3>1, <3>3 DEF Released, Unassigned
    <3>5. QED
      BY <3>1, <3>2, <3>4, CancellationGoto
  <2>3. QED
    BY <2>1, <2>2
<1>10. CASE Ack(w) /\ UNCHANGED serviceVars
  BY <1>1, <1>10, EndingSteps, EndingsKeepInv DEF Ack
<1>11. QED
  BY <1>3, <1>4, <1>5, <1>6, <1>7, <1>8, <1>9, <1>10 DEF Handle

\* No await of the kitchen's callbacks does.
LEMMA KitchenKeepsInv ==
  ASSUME Inv, NEW w \in Workers, CancelInKitchen(w), UNCHANGED serviceVars
  PROVE  Inv'
<1> DEFINE o == msg[w].order
<1>1. /\ KitchenTypeOK /\ BusTypeOK(Labels) /\ MarkedCancellationsArePassedOn
      /\ \A l \in Labels \cup {"ack"} : pc[w] # "idle" /\ Goto(w, l) => BusTypeOK(Labels)'
  BY OtherSteps DEF Inv, IInv, Labels
<1>2. ASSUME pc[w] \in KitchenAwaits
      PROVE  pc[w] # "idle" /\ o \in KitchenOrders
  BY <1>2 DEF Inv, KitchenCallbacks, KitchenAwaits
<1>3. ASSUME UNCHANGED kitchenVars
      PROVE  /\ KitchenTypeOK'
             /\ \A q \in KitchenOrders : kitchenOrders'[q] = "none" <=> kitchenOrders[q] = "none"
             /\ \A q \in cancelledOrders' : q \in cancelledOrders
             /\ passedOn' = passedOn
  BY <1>1, <1>3 DEF KitchenTypeOK, kitchenVars
<1>4. CASE FindProcessedCancellation(w)
  <2>1. /\ pc[w] \in KitchenAwaits /\ UNCHANGED kitchenVars
        /\ \E l \in {"ack", "readOrder"} : Goto(w, l)
    BY <1>4 DEF FindProcessedCancellation, KitchenAwaits
  <2>2. PICK l \in {"ack", "readOrder"} : Goto(w, l)
    BY <2>1
  <2>3. BusTypeOK(Labels)' /\ msg' = msg /\ pc' = [pc EXCEPT ![w] = l]
    BY <1>1, <1>2, <2>1, <2>2 DEF Goto, Labels, KitchenAwaits
  <2>4. QED
    BY <1>3, <2>1, <2>3, KitchenSteps
<1>5. CASE ReadKitchenOrder(w)
  <2>1. PICK l \in {"markKitchen", "cancelOrder"} :
          /\ Goto(w, l)
          /\ l = "markKitchen" => kitchenOrders[o] = "none"
          /\ l = "cancelOrder" => kitchenOrders[o] # "none"
    BY <1>5 DEF ReadKitchenOrder
  <2>2. pc[w] \in KitchenAwaits /\ UNCHANGED kitchenVars
    BY <1>5 DEF ReadKitchenOrder, KitchenAwaits
  <2>3. BusTypeOK(Labels)' /\ msg' = msg /\ pc' = [pc EXCEPT ![w] = l]
    BY <1>1, <1>2, <2>1, <2>2 DEF Goto, Labels, KitchenAwaits
  <2>4. QED
    BY <1>3, <2>1, <2>2, <2>3, KitchenSteps
<1>6. CASE CancelKitchenOrder(w)
  <2>1. /\ pc[w] = "cancelOrder" /\ pc[w] \in KitchenAwaits /\ Goto(w, "publishKitchen")
        /\ kitchenOrders' = [kitchenOrders EXCEPT ![o] = "CANCELLED"]
        /\ UNCHANGED <<cancelledOrders, passedOn>>
    BY <1>6 DEF CancelKitchenOrder, KitchenAwaits
  <2>2. o \in KitchenOrders /\ kitchenOrders[o] # "none"
    BY <1>2, <2>1 DEF Inv, KitchenCallbacks
  <2>3. /\ KitchenTypeOK'
        /\ \A q \in KitchenOrders : kitchenOrders'[q] = "none" <=> kitchenOrders[q] = "none"
    BY <1>1, <2>1, <2>2 DEF KitchenTypeOK
  <2>4. /\ BusTypeOK(Labels)' /\ msg' = msg /\ pc' = [pc EXCEPT ![w] = "publishKitchen"]
    BY <1>1, <1>2, <2>1 DEF Goto, Labels, KitchenAwaits
  <2>5. QED
    BY <2>1, <2>2, <2>3, <2>4, KitchenSteps
<1>7. CASE PublishKitchenCancelled(w)
  <2>1. pc[w] = "publishKitchen" /\ pc[w] \in KitchenAwaits
    BY <1>7 DEF PublishKitchenCancelled, KitchenAwaits
  <2>2. CASE PublishFails(w)
    <3>1. BusTypeOK(Labels)' /\ Shrinks
      BY <1>1, <1>2, <2>1, <2>2, EndingSteps DEF PublishFails
    <3>2. UNCHANGED kitchenVars
      BY <1>7, <2>2, <2>1 DEF PublishKitchenCancelled, PublishFails, Connected, kitchenVars
    <3>3. QED
      BY <3>1, <3>2, EndingsKeepInv
  <2>3. CASE ~PublishFails(w)
    <3>1. /\ Goto(w, "markKitchen") /\ passedOn' = passedOn \cup {o}
          /\ UNCHANGED <<kitchenOrders, cancelledOrders>>
      BY <1>7, <2>3 DEF PublishKitchenCancelled
    <3>2. BusTypeOK(Labels)' /\ msg' = msg /\ pc' = [pc EXCEPT ![w] = "markKitchen"]
      BY <1>1, <1>2, <2>1, <3>1 DEF Goto, Labels, KitchenAwaits
    <3>3. KitchenTypeOK' /\ o \in passedOn'
      BY <1>1, <1>2, <2>1, <3>1 DEF KitchenTypeOK
    <3>4. QED
      BY <2>1, <3>1, <3>2, <3>3, KitchenSteps
  <2>4. QED
    BY <2>2, <2>3
<1>8. CASE MarkKitchenCancellation(w)
  <2>1. /\ pc[w] = "markKitchen" /\ pc[w] \in KitchenAwaits /\ Goto(w, "ack")
        /\ cancelledOrders' = cancelledOrders \cup {o}
        /\ UNCHANGED <<kitchenOrders, passedOn>>
    BY <1>8 DEF MarkKitchenCancellation, KitchenAwaits
  <2>2. o \in KitchenOrders /\ (kitchenOrders[o] = "none" \/ o \in passedOn)
    BY <1>2, <2>1 DEF Inv, KitchenCallbacks
  <2>3. KitchenTypeOK'
    BY <1>1, <2>1, <2>2 DEF KitchenTypeOK
  <2>4. BusTypeOK(Labels)' /\ msg' = msg /\ pc' = [pc EXCEPT ![w] = "ack"]
    BY <1>1, <1>2, <2>1 DEF Goto
  <2>5. \A q \in cancelledOrders' :
          q \in cancelledOrders \/ kitchenOrders[q] = "none" \/ q \in passedOn'
    BY <2>1, <2>2
  <2>6. QED
    BY <2>1, <2>3, <2>4, <2>5, KitchenSteps
<1>9. CASE Ack(w) /\ UNCHANGED kitchenVars
  BY <1>1, <1>9, EndingSteps, EndingsKeepInv DEF Ack
<1>10. QED
  BY <1>4, <1>5, <1>6, <1>7, <1>8, <1>9 DEF CancelInKitchen

\* A delivery to either service starts a callback with an event of its own.
LEMMA DeliveriesKeepInv ==
  ASSUME Inv, NEW w \in Workers, NEW m \in Messages,
         \/ m.type \in Types /\ Deliver(w, m, Entry(m))
         \/ m.type = OrderCancelled /\ Deliver(w, m, "findKitchen"),
         UNCHANGED <<serviceVars, kitchenVars>>
  PROVE  Inv'
<1>1. PICK entry \in {"find", "findCancel", "findKitchen"} :
        /\ Deliver(w, m, entry)
        /\ entry = "find" => m.type = "payment.succeeded"
        /\ entry = "findCancel" => m.type \in Types
        /\ entry = "findKitchen" => m.order \in KitchenOrders
  BY KitchenCancellationAssumption DEF Entry
<1>2. /\ BusTypeOK(Labels)'
      /\ Shrinks \/ (pc' = [pc EXCEPT ![w] = entry] /\ msg' = [msg EXCEPT ![w] = m])
  <2>1. BusTypeOK(Labels) /\ entry \in Labels
    BY DEF Inv, IInv, Labels, Awaits, KitchenAwaits
  <2>2. QED
    BY <1>1, <2>1, DeliverFacts
<1>3. CASE Shrinks
  BY <1>2, <1>3, EndingsKeepInv
<1>4. CASE pc' = [pc EXCEPT ![w] = entry] /\ msg' = [msg EXCEPT ![w] = m]
  <2>1. Calms
    BY <1>1, <1>4 DEF Inv, IInv, BusTypeOK, Calms
  <2>2. processedEvents' \in SUBSET (Types \X Orders)
    BY DEF Inv, IInv, ServiceTypeOK, serviceVars
  <2>3. QED
    BY <1>2, <2>1, <2>2, CalmSteps DEF serviceVars, outVars
<1>5. QED
  BY <1>2, <1>3, <1>4

\* No step of the services, the broker or the databases breaks the invariant.
LEMMA NextInv == Inv /\ [CompensationNext]_compensationVars => Inv'
<1> SUFFICES ASSUME Inv, [CompensationNext]_compensationVars PROVE Inv'
  OBVIOUS
<1>1. BusTypeOK(Labels)
  BY DEF Inv, IInv, Labels
<1>2. ASSUME NEW m \in Messages, Send(m), UNCHANGED <<serviceVars, kitchenVars>>
      PROVE  Inv'
  BY <1>1, <1>2, OtherSteps, EndingsKeepInv
<1>3. CASE (Receive /\ UNCHANGED kitchenVars) \/ (ReceiveInKitchen /\ UNCHANGED serviceVars)
  BY <1>3, DeliveriesKeepInv, DeliveryAssumption, KitchenCancellationAssumption
     DEF Receive, ReceiveInKitchen
<1>4. ASSUME NEW w \in Couriers, Handle(w), UNCHANGED kitchenVars
      PROVE  Inv'
  BY <1>4, DeliveryKeepsInv, DeliveryAssumption
<1>5. ASSUME NEW w \in Cooks, CancelInKitchen(w), UNCHANGED serviceVars
      PROVE  Inv'
  BY <1>5, KitchenKeepsInv, KitchenCancellationAssumption
<1>6. CASE \/ DatabaseFault /\ UNCHANGED kitchenVars
           \/ KitchenDatabaseFault /\ UNCHANGED serviceVars
  <2>1. PICK w \in Workers, awaits \in SUBSET Labels :
          "idle" \notin awaits /\ DatabaseFails(w, awaits)
    BY <1>6, DeliveryAssumption, KitchenCancellationAssumption
       DEF DatabaseFault, KitchenDatabaseFault, Labels, Awaits, KitchenAwaits
  <2>2. BusTypeOK(Labels)' /\ Shrinks
    BY <1>1, <2>1, EndingSteps
  <2>3. UNCHANGED <<serviceVars, kitchenVars>>
    BY <1>6 DEF DatabaseFault, KitchenDatabaseFault
  <2>4. QED
    BY <2>2, <2>3, EndingsKeepInv
<1>7. ASSUME NEW p \in Processes, Crash(p) \/ CloseConnection(p),
             UNCHANGED <<serviceVars, kitchenVars>>
      PROVE  Inv'
  BY <1>1, <1>7, EndingSteps, EndingsKeepInv
<1>8. CASE UNCHANGED compensationVars
  <2>1. UNCHANGED <<serviceVars, kitchenVars>> /\ Shrinks /\ BusTypeOK(Labels)'
    BY <1>1, <1>8 DEF compensationVars, serviceVars, kitchenVars, busVars, Shrinks, BusTypeOK
  <2>2. QED
    BY <2>1, EndingsKeepInv
<1>9. QED
  BY <1>2, <1>3, <1>4, <1>5, <1>6, <1>7, <1>8 DEF CompensationNext
-----------------------------------------------------------------------------
\* The kitchen's marker stands for a kitchen.order.cancelled that was published, in every state.
THEOREM CompensationInvariant == CompensationSpec => []IInv
<1>1. CompensationSpec => []Inv
  BY InitInv, NextInv, PTL DEF CompensationSpec
<1>2. Inv => IInv
  BY DEF Inv
<1>3. QED
  BY <1>1, <1>2, PTL

\* Whatever overlaps, dies or fails, every delivery.assigned stands for a document of its
\* own, and delivery.cancelled for a driver who was released.
THEOREM DeliveryAnnouncesWhatItRecorded == CompensationSpec => []AnnouncementsAreRecorded
<1>1. Inv => AnnouncementsAreRecorded
  <2> SUFFICES ASSUME Inv, NEW o \in Orders
               PROVE  /\ assignedEvents[o] <= Len(deliveries[o])
                      /\ cancelledEvents[o] > 0 => Released(o)
    BY DEF AnnouncementsAreRecorded
  <2>1. /\ Cardinality(Assigning(o)) \in Nat
        /\ assignedEvents[o] + Cardinality(Assigning(o)) <= Len(deliveries[o])
    BY FS_CardinalityType DEF Inv, AssignmentsAreCounted
  <2>2. assignedEvents[o] \in Nat /\ Len(deliveries[o]) \in Nat
    BY DEF Inv, IInv, ServiceTypeOK
  <2>3. QED
    BY <2>1, <2>2 DEF Inv, ReleasesAreRecorded
<1>2. QED
  BY <1>1, InitInv, NextInv, PTL DEF CompensationSpec

\* The documents change by an insert or a release, and by nothing else.
LEMMA DocumentSteps ==
  ASSUME Inv, [CompensationNext]_compensationVars
  PROVE  \/ UNCHANGED deliveries
         \/ \E w \in Workers : InsertDelivery(w)
         \/ \E w \in Workers : CancelDelivery(w)
<1>1. CASE \E w \in Couriers : Handle(w)
  <2>1. PICK w \in Workers : Handle(w)
    BY <1>1, DeliveryAssumption
  <2>2. QED
    BY <2>1 DEF Handle, FindProcessed, MarkAssigned, PublishAssigned, FindCancellation,
                ReadDelivery, PublishCancelled, MarkCancellation, serviceVars, dbVars
<1>2. CASE ~(\E w \in Couriers : Handle(w))
  BY <1>2 DEF CompensationNext, compensationVars, serviceVars, Receive, DatabaseFault
<1>3. QED
  BY <1>1, <1>2

\* No callback of a tracked order gets past the check, and its documents are no more and
\* no more of them assigned.
LEMMA QuietStays ==
  ASSUME Inv, [CompensationNext]_compensationVars, NEW o \in Orders, Quiet(o)
  PROVE  /\ Quiet(o)'
         /\ Len(deliveries'[o]) = Len(deliveries[o])
         /\ Assigned(o)' \subseteq Assigned(o)
<1>1. /\ BusTypeOK(Labels)
      /\ <<"payment.succeeded", o>> \in processedEvents
      /\ \A v \in Workers : pc[v] \in {"insert", "mark"} => msg[v].order # o
  BY DEF Inv, IInv, Quiet, Labels
<1>2. Len(deliveries'[o]) = Len(deliveries[o]) /\ Assigned(o)' \subseteq Assigned(o)
  <2>1. ASSUME NEW w \in Workers, InsertDelivery(w)
        PROVE  deliveries'[o] = deliveries[o]
    <3>1. msg[w].order # o /\ deliveries' = [deliveries EXCEPT ![msg[w].order] = Append(@, "ASSIGNED")]
      BY <1>1, <2>1 DEF InsertDelivery
    <3>2. QED
      BY <3>1 DEF Inv, IInv, ServiceTypeOK
  <2>2. QED
    BY <2>1, DocumentSteps, CancelledDocument DEF Assigned
<1>3. ASSUME \A v \in Workers : \/ pc'[v] = pc[v] /\ msg'[v] = msg[v]
                                \/ pc'[v] \notin {"insert", "mark"}
                                \/ msg'[v].order # o,
             processedEvents \subseteq processedEvents'
      PROVE  Quiet(o)'
  BY <1>1, <1>3 DEF Quiet
<1>4. ASSUME Shrinks, processedEvents \subseteq processedEvents'
      PROVE  Quiet(o)'
  BY <1>3, <1>4 DEF Shrinks
<1>5. ASSUME NEW w \in Workers, NEW m \in Messages, NEW l \in {"find", "findCancel", "findKitchen"},
             Deliver(w, m, l), UNCHANGED processedEvents
      PROVE  Quiet(o)'
  <2>1. Shrinks \/ (pc' = [pc EXCEPT ![w] = l] /\ msg' = [msg EXCEPT ![w] = m])
    <3>1. l \in Labels
      BY DEF Labels, Awaits, KitchenAwaits
    <3>2. QED
      BY <1>1, <1>5, <3>1, DeliverFacts
  <2>2. CASE pc' = [pc EXCEPT ![w] = l] /\ msg' = [msg EXCEPT ![w] = m]
    BY <1>1, <1>3, <1>5, <2>2 DEF BusTypeOK
  <2>3. QED
    BY <1>4, <1>5, <2>1, <2>2
<1>6. ASSUME NEW w \in Workers, NEW l, Goto(w, l), processedEvents \subseteq processedEvents',
             l = "insert" => pc[w] = "find" /\ Key(w) \notin processedEvents,
             l = "mark" => pc[w] = "insert"
      PROVE  Quiet(o)'
  <2>1. msg' = msg /\ pc' = [pc EXCEPT ![w] = l]
    BY <1>6 DEF Goto
  <2>2. l \in {"insert", "mark"} => msg[w].order # o
    BY <1>1, <1>6 DEF Inv, DeliveryCallbacks, Key
  <2>3. QED
    BY <1>1, <1>3, <1>6, <2>1, <2>2 DEF BusTypeOK
<1>7. ASSUME NEW w \in Workers, Ack(w) \/ (pc[w] # "idle" /\ Nack(w)), UNCHANGED processedEvents
      PROVE  Quiet(o)'
  BY <1>1, <1>4, <1>7, EndingSteps
<1>8. ASSUME NEW w \in Workers, Handle(w)
      PROVE  Quiet(o)'
  <2>1. CASE FindProcessed(w) \/ InsertDelivery(w) \/ MarkAssigned(w)
    BY <1>6, <2>1 DEF FindProcessed, InsertDelivery, MarkAssigned, serviceVars
  <2>2. CASE FindCancellation(w) \/ ReadDelivery(w) \/ CancelDelivery(w) \/ MarkCancellation(w)
    BY <1>6, <2>2 DEF FindCancellation, ReadDelivery, CancelDelivery, MarkCancellation, serviceVars
  <2>3. CASE PublishAssigned(w) \/ PublishCancelled(w)
    BY <1>6, <1>7, <2>3 DEF PublishAssigned, PublishCancelled, PublishFails, dbVars
  <2>4. QED
    BY <1>7, <1>8, <2>1, <2>2, <2>3 DEF Handle, serviceVars
<1>9. ASSUME NEW w \in Workers, CancelInKitchen(w), UNCHANGED serviceVars
      PROVE  Quiet(o)'
  <2>1. CASE \E l \in {"ack", "readOrder", "cancelOrder", "publishKitchen", "markKitchen"} : Goto(w, l)
    BY <1>6, <1>9, <2>1 DEF serviceVars
  <2>2. CASE pc[w] # "idle" /\ (Ack(w) \/ PublishFails(w))
    BY <1>7, <1>9, <2>2 DEF serviceVars, PublishFails
  <2>3. CASE pc' = [pc EXCEPT ![w] = "markKitchen"] /\ UNCHANGED msg
    BY <1>1, <1>3, <1>9, <2>3 DEF BusTypeOK, serviceVars
  <2>4. QED
    BY <1>9, <2>1, <2>2, <2>3
       DEF CancelInKitchen, FindProcessedCancellation, ReadKitchenOrder, CancelKitchenOrder,
           PublishKitchenCancelled, MarkKitchenCancellation, Ack
<1>10. ASSUME DatabaseFault \/ (KitchenDatabaseFault /\ UNCHANGED serviceVars)
       PROVE  Quiet(o)'
  <2>1. PICK w \in Workers, awaits \in SUBSET Labels :
          "idle" \notin awaits /\ DatabaseFails(w, awaits)
    BY <1>10, DeliveryAssumption, KitchenCancellationAssumption
       DEF DatabaseFault, KitchenDatabaseFault, Labels, Awaits, KitchenAwaits
  <2>2. QED
    BY <1>1, <1>4, <1>10, <2>1, EndingSteps DEF DatabaseFault, serviceVars
<1>11. ASSUME NEW p \in Processes, Crash(p) \/ CloseConnection(p), UNCHANGED serviceVars
       PROVE  Quiet(o)'
  BY <1>1, <1>4, <1>11, EndingSteps DEF serviceVars
<1>12. ASSUME NEW m \in Messages, Send(m), UNCHANGED serviceVars
       PROVE  Quiet(o)'
  BY <1>1, <1>4, <1>12, OtherSteps DEF serviceVars
<1>13. ASSUME Receive \/ (ReceiveInKitchen /\ UNCHANGED serviceVars)
       PROVE  Quiet(o)'
  BY <1>5, <1>13, DeliveryAssumption, KitchenCancellationAssumption
     DEF Receive, ReceiveInKitchen, Entry, serviceVars
<1>14. ASSUME UNCHANGED compensationVars
       PROVE  Quiet(o)'
  BY <1>3, <1>14 DEF compensationVars, busVars
<1>15. Quiet(o)'
  BY <1>8, <1>9, <1>10, <1>11, <1>12, <1>13, <1>14, DeliveryAssumption,
     KitchenCancellationAssumption DEF CompensationNext
<1>16. QED
  BY <1>2, <1>15

\* Copies of one payment assign two drivers only by overlapping: behind the marker, with no
\* older callback past its check, no copy adds a document, and no document of the order
\* that was released is assigned again, for any number of copies and faults.
THEOREM TrackedAssignmentsStayFinal == CompensationSpec => TrackedAssignmentsAreFinal
<1>1. Inv /\ [CompensationNext]_compensationVars
      => [\A o \in Orders :
            Quiet(o) => /\ Quiet(o)'
                        /\ Len(deliveries'[o]) = Len(deliveries[o])
                        /\ Assigned(o)' \subseteq Assigned(o)]_vars
  BY QuietStays
<1>2. QED
  BY <1>1, InitInv, NextInv, PTL DEF CompensationSpec, TrackedAssignmentsAreFinal
=============================================================================

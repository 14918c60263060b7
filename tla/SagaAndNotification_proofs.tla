-------------------- MODULE SagaAndNotification_proofs ----------------------
(***************************************************************************)
(* Theorems about the saga and the service that follows all of it.  The    *)
(* notification service, for any number of events, replicas, callbacks and *)
(* faults: records never run ahead of notifications, and no event is lost  *)
(* but by a failed database call.  The wiring of the five services, for    *)
(* any orders, publishers, crashes and order of start-up: customers are    *)
(* told the truth.                                                         *)
(***************************************************************************)
EXTENDS NotificationService, Saga, EventBus_proofs

\* The idempotency key of an event, <order>:<type>, is one of the collection's keys.
LEMMA KeysAreKeys == \A m \in Messages : KeyOf(m) \in EventKeys
BY DEF EventKeys

\* The service starts with an empty collection and nobody notified.
LEMMA InitIInv == Init => IInv
BY BusAssumption
   DEF Init, BusInit, IInv, TypeOK, BusTypeOK, Awaits, RecordsFollowNotifications,
       AcksFollowNotifications

\* Steps that end callbacks, start none and leave the collections as they are.
LEMMA QuietSteps ==
  ASSUME IInv, BusTypeOK(Awaits)', Shrinks, UNCHANGED serviceVars
  PROVE  IInv'
<1>1. TypeOK' /\ RecordsFollowNotifications'
  BY DEF IInv, TypeOK, RecordsFollowNotifications, serviceVars
<1>2. AcksFollowNotifications'
  BY DEF IInv, AcksFollowNotifications, Shrinks, KeyOf, serviceVars
<1>3. QED
  BY <1>1, <1>2 DEF IInv

\* A callback moves on: the counts only grow, and its own key is counted if the
\* next await comes behind the notification.
LEMMA MoveOn ==
  ASSUME IInv, TypeOK', NEW w \in Workers, NEW l, Goto(w, l),
         \A k \in EventKeys : notifications'[k] >= notifications[k],
         l \in {"mark", "ack"} => notifications'[KeyOf(msg[w])] > 0
  PROVE  AcksFollowNotifications'
<1> SUFFICES ASSUME NEW v \in Workers, pc'[v] \in {"mark", "ack"}
             PROVE  notifications'[KeyOf(msg'[v])] > 0
  BY DEF AcksFollowNotifications, KeyOf
<1>1. msg' = msg
  BY DEF Goto
<1>2. CASE v = w
  BY <1>1, <1>2 DEF Goto, IInv, TypeOK, BusTypeOK, KeyOf
<1>3. CASE v # w
  <2>1. pc[v] \in {"mark", "ack"} /\ msg[v] \in Messages
    BY <1>3 DEF Goto, IInv, TypeOK, BusTypeOK
  <2>2. notifications[KeyOf(msg[v])] > 0 /\ KeyOf(msg[v]) \in EventKeys
    BY <2>1, KeysAreKeys DEF IInv, AcksFollowNotifications
  <2>3. QED
    BY <1>1, <2>2 DEF IInv, TypeOK, KeyOf
<1>4. QED
  BY <1>2, <1>3

\* No await of subscribeX's callback breaks the invariant.
LEMMA HandleStep ==
  ASSUME IInv, NEW w \in Workers, Handle(w)
  PROVE  IInv'
<1> DEFINE k == KeyOf(msg[w])
<1>1. ASSUME pc[w] # "idle" PROVE msg[w] \in Messages /\ k \in EventKeys /\ notifications[k] \in Nat
  BY <1>1, KeysAreKeys DEF IInv, TypeOK, BusTypeOK
<1>2. CASE FindProcessed(w)
  <2>1. pc[w] = "find" /\ UNCHANGED serviceVars
    BY <1>2 DEF FindProcessed
  <2>2. PICK l \in {"ack", "send"} :
          Goto(w, l) /\ (l = "ack" => k \in processedEvents)
    BY <1>2 DEF FindProcessed
  <2>3. TypeOK'
    BY <2>1, <2>2, OtherSteps DEF IInv, TypeOK, Awaits, serviceVars
  <2>4. AcksFollowNotifications'
    BY <1>1, <2>1, <2>2, <2>3, MoveOn
       DEF IInv, TypeOK, RecordsFollowNotifications, serviceVars
  <2>5. QED
    BY <2>1, <2>3, <2>4 DEF IInv, RecordsFollowNotifications, serviceVars
<1>3. CASE sendNotification(w)
  <2>1. /\ pc[w] = "send" /\ Goto(w, "mark") /\ processedEvents' = processedEvents
        /\ notifications' = [notifications EXCEPT ![k] = @ + 1]
    BY <1>3 DEF sendNotification
  <2>2. BusTypeOK(Awaits)'
    BY <2>1, OtherSteps DEF IInv, TypeOK, Awaits
  <2>3. TypeOK'
    BY <1>1, <2>1, <2>2 DEF IInv, TypeOK
  <2>4. \A j \in EventKeys : notifications'[j] >= notifications[j]
    BY <1>1, <2>1 DEF IInv, TypeOK
  <2>5. notifications'[k] > 0
    BY <1>1, <2>1 DEF IInv, TypeOK
  <2>6. AcksFollowNotifications'
    BY <2>1, <2>3, <2>4, <2>5, MoveOn
  <2>7. RecordsFollowNotifications'
    BY <2>1, <2>3, <2>4 DEF IInv, TypeOK, RecordsFollowNotifications
  <2>8. QED
    BY <2>3, <2>6, <2>7 DEF IInv
<1>4. CASE InsertProcessed(w)
  <2>1. /\ pc[w] = "mark" /\ Goto(w, "ack") /\ notifications' = notifications
        /\ processedEvents' = processedEvents \cup {k}
    BY <1>4 DEF InsertProcessed
  <2>2. BusTypeOK(Awaits)'
    BY <2>1, OtherSteps DEF IInv, TypeOK, Awaits
  <2>3. TypeOK'
    BY <1>1, <2>1, <2>2 DEF IInv, TypeOK
  <2>4. notifications[k] > 0
    BY <2>1 DEF IInv, AcksFollowNotifications
  <2>5. AcksFollowNotifications'
    BY <2>1, <2>3, <2>4, MoveOn DEF IInv, TypeOK
  <2>6. QED
    BY <2>1, <2>3, <2>4, <2>5 DEF IInv, RecordsFollowNotifications
<1>5. CASE Ack(w) /\ UNCHANGED serviceVars
  BY <1>5, EndingSteps, QuietSteps DEF IInv, TypeOK
<1>6. QED
  BY <1>2, <1>3, <1>4, <1>5 DEF Handle

\* No step of the service, its broker or its database breaks the invariant.
LEMMA NextIInv == IInv /\ [Next]_vars => IInv'
<1> SUFFICES ASSUME IInv, [Next]_vars PROVE IInv'
  OBVIOUS
<1>1. ASSUME NEW m \in Messages, Send(m), UNCHANGED serviceVars
      PROVE  IInv'
  BY <1>1, OtherSteps, QuietSteps DEF IInv, TypeOK
<1>2. CASE Receive
  <2>1. PICK w \in Workers, m \in Messages : Deliver(w, m, "find") /\ UNCHANGED serviceVars
    BY <1>2 DEF Receive
  <2>2. /\ BusTypeOK(Awaits)'
        /\ \/ Shrinks
           \/ pc' = [pc EXCEPT ![w] = "find"] /\ msg' = [msg EXCEPT ![w] = m]
    <3>1. BusTypeOK(Awaits) /\ "find" \in Awaits
      BY DEF IInv, TypeOK, Awaits
    <3>2. QED
      BY <2>1, <3>1, DeliverFacts
  <2>3. CASE pc' = [pc EXCEPT ![w] = "find"] /\ msg' = [msg EXCEPT ![w] = m]
    <3>1. AcksFollowNotifications'
      BY <2>1, <2>3 DEF IInv, TypeOK, BusTypeOK, AcksFollowNotifications, KeyOf, serviceVars
    <3>2. QED
      BY <2>1, <2>2, <3>1 DEF IInv, TypeOK, RecordsFollowNotifications, serviceVars
  <2>4. QED
    BY <2>1, <2>2, <2>3, QuietSteps
<1>3. CASE Fault
  <2>1. ASSUME NEW w \in Workers, DatabaseFails(w, Awaits)
        PROVE  BusTypeOK(Awaits)' /\ Shrinks
    <3>1. Awaits \in SUBSET Awaits /\ "idle" \notin Awaits
      BY DEF Awaits
    <3>2. QED
      BY <2>1, <3>1, EndingSteps DEF IInv, TypeOK
  <2>2. QED
    BY <1>3, <2>1, EndingSteps, QuietSteps DEF Fault, IInv, TypeOK
<1>4. CASE UNCHANGED vars
  <2>1. UNCHANGED serviceVars /\ Shrinks /\ BusTypeOK(Awaits)'
    BY <1>4 DEF vars, serviceVars, busVars, Shrinks, BusTypeOK, IInv, TypeOK
  <2>2. QED
    BY <2>1, QuietSteps
<1>5. QED
  BY <1>1, <1>2, <1>3, <1>4, HandleStep DEF Next

\* A record is never there before the notification it stands for, and a callback
\* acks only what was notified.
THEOREM NotificationInvariant == Spec => []IInv
BY InitIInv, NextIInv, PTL DEF Spec

\* A notification that was sent stays sent.
LEMMA CountsGrow ==
  ASSUME IInv, [Next]_vars, NEW k \in EventKeys, notifications[k] > 0
  PROVE  notifications'[k] > 0
<1>1. CASE \E w \in Workers : sendNotification(w)
  BY <1>1 DEF sendNotification, IInv, TypeOK
<1>2. CASE ~(\E w \in Workers : sendNotification(w))
  BY <1>2 DEF Next, vars, serviceVars, Handle, Receive, Fault, FindProcessed, InsertProcessed
<1>3. QED
  BY <1>1, <1>2

\* Only an ack ends the broker's custody of an event, and it comes behind the
\* notification.
LEMMA EventsStay ==
  ASSUME IInv, EventsAreInCustody, [Next]_vars,
         NEW m \in Messages, m \in sent', m.form = "valid", ~DroppedByAFault(m)
  PROVE  InCustody(m)' \/ notifications'[KeyOf(m)] > 0 \/ DroppedByAFault(m)'
<1>1. BusTypeOK(Awaits) /\ "idle" \notin Awaits
  BY DEF IInv, TypeOK, Awaits
<1>2. CASE notifications[KeyOf(m)] > 0
  BY <1>2, CountsGrow, KeysAreKeys
<1>3. CASE ~(notifications[KeyOf(m)] > 0)
  <2>1. m \in sent => InCustody(m)
    BY <1>3 DEF EventsAreInCustody
  <2>2. ASSUME NEW n \in Messages, Send(n)
        PROVE  InCustody(m)'
    <3>1. CASE m \in sent
      BY <3>1, <1>1, <2>1, <2>2, FaultsKeepCustody
    <3>2. CASE m \notin sent
      BY <3>2, <2>2 DEF Send, InCustody
    <3>3. QED
      BY <3>1, <3>2
  <2>3. CASE Receive
    <3>1. PICK w \in Workers, n \in Messages : Deliver(w, n, "find")
      BY <2>3 DEF Receive
    <3>2. sent' = sent /\ "find" \in Awaits
      BY <3>1 DEF Deliver, Awaits
    <3>3. QED
      BY <1>1, <2>1, <3>1, <3>2, DeliverKeepsCustody
  <2>4. ASSUME NEW w \in Workers, NEW l \in {"ack", "send", "mark"}, Goto(w, l)
        PROVE  InCustody(m)'
    <3>1. l # "idle" /\ sent' = sent
      BY <2>4 DEF Goto
    <3>2. QED
      BY <1>1, <2>1, <2>4, <3>1, GotoKeepsCustody
  <2>5. ASSUME NEW w \in Workers, Ack(w)
        PROVE  InCustody(m)'
    <3>1. Settle(w) /\ sent' = sent /\ notifications[KeyOf(msg[w])] > 0
      BY <2>5 DEF Ack, IInv, AcksFollowNotifications
    <3>2. msg[w] # m
      BY <1>3, <3>1
    <3>3. QED
      BY <1>1, <2>1, <3>1, <3>2, SettleKeepsCustody
  <2>6. ASSUME NEW w \in Workers, Handle(w)
        PROVE  InCustody(m)'
    BY <2>4, <2>5, <2>6 DEF Handle, FindProcessed, sendNotification, InsertProcessed
  <2>7. CASE Fault
    <3>1. ASSUME NEW p \in Processes, Crash(p) \/ CloseConnection(p)
          PROVE  InCustody(m)'
      <4>1. sent' = sent
        BY <3>1 DEF Crash, CloseConnection
      <4>2. QED
        BY <1>1, <2>1, <3>1, <4>1, FaultsKeepCustody
    <3>2. ASSUME NEW w \in Workers, DatabaseFails(w, Awaits)
          PROVE  InCustody(m)' \/ DroppedByAFault(m)'
      <4>1. sent' = sent /\ Awaits \in SUBSET Awaits
        BY <3>2 DEF DatabaseFails
      <4>2. QED
        BY <1>1, <2>1, <3>2, <4>1, DatabaseFailures
    <3>3. QED
      BY <2>7, <3>1, <3>2 DEF Fault
  <2>8. CASE UNCHANGED vars
    BY <2>1, <2>8 DEF vars, busVars, InCustody, Connected
  <2>9. QED
    BY <2>2, <2>3, <2>6, <2>7, <2>8 DEF Next
<1>4. QED
  BY <1>2, <1>3

\* An event dropped because of a fault stays dropped: faults are only added.
LEMMA DropsStay ==
  ASSUME IInv, [Next]_vars, NEW m \in Messages, DroppedByAFault(m)
  PROVE  DroppedByAFault(m)'
<1>1. BusTypeOK(Awaits) /\ "find" \in Awaits /\ Awaits \in SUBSET Awaits
  BY DEF IInv, TypeOK, Awaits
<1>2. ASSUME NEW w \in Workers, Handle(w)
      PROVE  DroppedByAFault(m)'
  <2>1. Ack(w) \/ \E l \in Awaits \cup {"ack"} : Goto(w, l)
    BY <1>2 DEF Handle, FindProcessed, sendNotification, InsertProcessed, Awaits
  <2>2. QED
    BY <1>1, <2>1, DropsAreFinal
<1>3. CASE Receive
  BY <1>1, <1>3, DropsAreFinal DEF Receive
<1>4. CASE Fault
  BY <1>1, <1>4, DropsAreFinal DEF Fault
<1>5. ASSUME NEW n \in Messages, Send(n)
      PROVE  DroppedByAFault(m)'
  BY <1>1, <1>5, DropsAreFinal
<1>6. CASE UNCHANGED vars
  BY <1>6 DEF vars, busVars, DroppedByAFault
<1>7. QED
  BY <1>2, <1>3, <1>4, <1>5, <1>6 DEF Next

\* No event goes unnotified, however many replicas die or lose their connection
\* while they hold it, but for those a failed database call drops.
THEOREM NotificationLosesNoEvent == Spec => []NoNotificationIsLost
<1>1. Init => EventsAreInCustody
  BY DEF Init, BusInit, EventsAreInCustody
<1>2. IInv /\ EventsAreInCustody /\ [Next]_vars => EventsAreInCustody'
  <2> SUFFICES ASSUME IInv, EventsAreInCustody, [Next]_vars PROVE EventsAreInCustody'
    OBVIOUS
  <2>1. sent' \in SUBSET Messages
    BY NextIInv DEF IInv, TypeOK, BusTypeOK
  <2>2. QED
    BY <2>1, EventsStay, DropsStay DEF EventsAreInCustody, KeyOf
<1>3. IInv /\ EventsAreInCustody => NoNotificationIsLost
  BY DEF IInv, TypeOK, BusTypeOK, EventsAreInCustody, InCustody, NoNotificationIsLost, Pending
<1>4. QED
  BY <1>1, <1>2, <1>3, NotificationInvariant, PTL DEF Spec
-----------------------------------------------------------------------------
(***************************************************************************)
(* Customers told twice.  Only a callback past its check notifies, and the *)
(* check lets nobody past once the record is there.                        *)
(***************************************************************************)

\* Once an event is recorded and no callback is past its check, it stays that way.
LEMMA QuietStays ==
  ASSUME IInv, [Next]_vars, NEW k \in EventKeys, Quiet(k)
  PROVE  Quiet(k)' /\ notifications'[k] = notifications[k]
<1>1. BusTypeOK(Awaits) /\ "idle" \notin Awaits /\ "find" \in Awaits /\ Awaits \in SUBSET Awaits
  BY DEF IInv, TypeOK, Awaits
<1>2. /\ k \in processedEvents
      /\ \A w \in Workers : pc[w] \in {"send", "mark"} => KeyOf(msg[w]) # k
  BY DEF Quiet
<1> DEFINE Clear == \A w \in Workers : pc'[w] \in {"send", "mark"} => KeyOf(msg'[w]) # k
<1>3. ASSUME Shrinks PROVE Clear
  BY <1>2, <1>3 DEF Shrinks
<1>4. ASSUME NEW w \in Workers, Handle(w)
      PROVE  /\ Clear /\ k \in processedEvents'
             /\ notifications'[k] = notifications[k]
  <2>1. ASSUME NEW l \in Awaits \cup {"ack"}, Goto(w, l),
               l \in {"send", "mark"} => KeyOf(msg[w]) # k
        PROVE  Clear
    BY <1>1, <1>2, <2>1 DEF Goto, BusTypeOK
  <2>2. CASE FindProcessed(w)
    <3>1. PICK l \in {"ack", "send"} :
            Goto(w, l) /\ (l = "send" => KeyOf(msg[w]) \notin processedEvents)
      BY <2>2 DEF FindProcessed
    <3>2. QED
      BY <1>2, <2>1, <2>2, <3>1 DEF FindProcessed, Awaits, serviceVars
  <2>3. CASE sendNotification(w)
    <3>1. Goto(w, "mark") /\ KeyOf(msg[w]) # k /\ processedEvents' = processedEvents
      BY <1>2, <2>3 DEF sendNotification
    <3>2. notifications'[k] = notifications[k]
      BY <2>3, <3>1 DEF sendNotification, IInv, TypeOK
    <3>3. QED
      BY <1>2, <2>1, <3>1, <3>2 DEF Awaits
  <2>4. CASE InsertProcessed(w)
    BY <1>2, <2>1, <2>4 DEF InsertProcessed, Awaits
  <2>5. CASE Ack(w) /\ UNCHANGED serviceVars
    BY <1>1, <1>2, <1>3, <2>5, EndingSteps DEF serviceVars
  <2>6. QED
    BY <1>4, <2>2, <2>3, <2>4, <2>5 DEF Handle
<1>5. CASE Receive
  <2>1. PICK w \in Workers, m \in Messages : Deliver(w, m, "find") /\ UNCHANGED serviceVars
    BY <1>5 DEF Receive
  <2>2. Shrinks \/ (pc' = [pc EXCEPT ![w] = "find"] /\ msg' = [msg EXCEPT ![w] = m])
    BY <1>1, <2>1, DeliverFacts
  <2>3. Clear
    <3>1. CASE pc' = [pc EXCEPT ![w] = "find"] /\ msg' = [msg EXCEPT ![w] = m]
      BY <1>1, <1>2, <3>1 DEF BusTypeOK
    <3>2. QED
      BY <1>3, <2>2, <3>1
  <2>4. QED
    BY <1>2, <2>1, <2>3 DEF Quiet, KeyOf, serviceVars
<1>6. ASSUME NEW m \in Messages, Send(m), UNCHANGED serviceVars
      PROVE  Clear /\ UNCHANGED serviceVars
  BY <1>1, <1>3, <1>6, OtherSteps
<1>7. CASE Fault
  BY <1>1, <1>2, <1>3, <1>7, EndingSteps DEF Fault, Quiet, KeyOf, serviceVars
<1>8. CASE UNCHANGED vars
  BY <1>2, <1>3, <1>8 DEF vars, serviceVars, busVars, Shrinks, Quiet, KeyOf
<1>9. QED
  BY <1>2, <1>4, <1>5, <1>6, <1>7, <1>8 DEF Next, Quiet, KeyOf, serviceVars

\* A customer is told twice of an event only by copies that overlap: a copy that comes
\* after the record is acked at its check.
THEOREM LateCopiesNotifyNobody == Spec => RecordedEventsAreFinal
<1>1. IInv /\ [Next]_vars =>
        [\A k \in EventKeys : Quiet(k) => Quiet(k)' /\ notifications'[k] = notifications[k]]_vars
  BY QuietStays
<1>2. QED
  BY <1>1, NotificationInvariant, PTL DEF Spec, RecordedEventsAreFinal

\* --------------------------------------------------------------- the saga

LEMMA WiringIsTyped ==
  \A s \in Services :
    /\ QUEUES[s] \subseteq Keys
    /\ Len(Consumers[s]) \in 0 .. 6
<1>1. /\ Len(Consumers.order) = 2 /\ Len(Consumers.kitchen) = 1 /\ Len(Consumers.payment) = 2
      /\ Len(Consumers.delivery) = 1 /\ Len(Consumers.notification) = 6
  BY DEF Consumers
<1>2. /\ QUEUES.order \subseteq Keys /\ QUEUES.kitchen \subseteq Keys
      /\ QUEUES.payment \subseteq Keys /\ QUEUES.delivery \subseteq Keys
      /\ QUEUES.notification \subseteq Keys
  BY DEF QUEUES, Keys, Outcomes
<1>3. QED
  BY <1>1, <1>2 DEF Services

LEMMA QueuesOfNotification ==
  \A key \in QUEUES.notification : <<"notification", key>> \in Queues
BY WiringIsTyped DEF Queues, Services, QUEUES

\* The kitchen decides by the order alone: a decision is never taken back.
DecisionsAreFinal ==
  \A o \in Orders :
    /\ kitchenOrders[o] = "ACCEPTED" => o \notin EmptyOrders
    /\ kitchenOrders[o] = "REJECTED" => o \in EmptyOrders

SagaStrength == SagaTypeOK /\ NotificationsTellTheTruth /\ DecisionsAreFinal

\* The type of the queues, which is what publishing and taking keep.
QueuesOK(qs) ==
  /\ qs \in [Queues -> SUBSET Events]
  /\ \A q \in Queues : q \notin declared => qs[q] = {}

LEMMA RoutingKeepsTheQueues ==
  ASSUME NEW qs, QueuesOK(qs), NEW key, NEW m \in Events
  PROVE  QueuesOK(Routed(qs, key, m))
BY DEF QueuesOK, Routed

LEMMA TakingKeepsTheQueues ==
  ASSUME QueuesOK(queues), NEW q, NEW m
  PROVE  /\ QueuesOK(Without(q, m))
         /\ \A p \in Queues : Without(q, m)[p] \subseteq queues[p]
BY DEF QueuesOK, Without

\* What is queued for notification after an event was routed.
LEMMA RoutedToNotification ==
  ASSUME NEW qs, \A p \in Queues : qs[p] \subseteq queues[p],
         NEW k, NEW m \in Events, queues' = Routed(qs, k, m),
         NEW key \in QUEUES.notification, NEW o, Queued("notification", key, o)'
  PROVE  Queued("notification", key, o) \/ (key = k /\ o = m.order)
BY QueuesOfNotification DEF Queued, Routed

\* Starting, subscribing and dying touch no record and no message.
LEMMA LifecyclesKeepTheStrength ==
  ASSUME SagaStrength, NEW s \in Services, Start(s) \/ Subscribe(s) \/ CrashService(s)
  PROVE  SagaStrength'
<1>1. SagaTypeOK /\ NotificationsTellTheTruth /\ DecisionsAreFinal
  BY DEF SagaStrength
<1>2. UNCHANGED <<queues, placed, orders, kitchenOrders, payments, deliveries, notified>>
  BY DEF Start, Subscribe, CrashService, rows
<1>3. NotificationsTellTheTruth' /\ DecisionsAreFinal'
  BY <1>1, <1>2 DEF NotificationsTellTheTruth, DecisionsAreFinal, Queued, Recorded
<1>4. /\ running' \in SUBSET Services
      /\ attached' \in [Services -> 0 .. 6]
      /\ \A t \in Services :
           attached'[t] <= Len(Consumers[t]) /\ (t \notin running' => attached'[t] = 0)
  <2>1. CASE Start(s)
    BY <1>1, <2>1 DEF Start, SagaTypeOK
  <2>2. CASE running' = running \ {s} /\ attached' = [attached EXCEPT ![s] = 0]
    BY <1>1, <2>2, WiringIsTyped DEF SagaTypeOK
  <2>3. CASE /\ s \in running /\ attached[s] < Len(Consumers[s])
             /\ attached' = [attached EXCEPT ![s] = @ + 1] /\ UNCHANGED running
    <3> DEFINE l == Len(Consumers[s])
    <3>1. l \in 0 .. 6 /\ attached[s] \in 0 .. 6 /\ attached[s] < l
      BY <1>1, <2>3, WiringIsTyped DEF SagaTypeOK
    <3> HIDE DEF l
    <3>2. attached[s] + 1 \in 0 .. 6 /\ attached[s] + 1 <= l
      BY <3>1
    <3>3. attached[s] + 1 \in 0 .. 6 /\ attached[s] + 1 <= Len(Consumers[s])
      BY <3>2 DEF l
    <3>4. QED
      BY <1>1, <2>3, <3>3 DEF SagaTypeOK
  <2>4. QED
    BY <2>1, <2>2, <2>3 DEF Subscribe, CrashService, Stop
<1>5. declared' \in SUBSET Queues /\ declared \subseteq declared'
  <2>1. CASE Start(s)
    <3>1. {s} \X QUEUES[s] \subseteq Queues
      BY WiringIsTyped DEF Queues
    <3>2. QED
      BY <1>1, <2>1, <3>1 DEF Start, SagaTypeOK
  <2>2. CASE declared' = declared
    BY <1>1, <2>2 DEF SagaTypeOK
  <2>3. QED
    BY <2>1, <2>2 DEF Subscribe, CrashService
<1>6. crashes' \in 0 .. MaxCrashes
  BY <1>1, SagaAssumption DEF Start, Subscribe, CrashService, SagaTypeOK
<1>7. SagaTypeOK'
  BY <1>1, <1>2, <1>4, <1>5, <1>6 DEF SagaTypeOK
<1>8. QED
  BY <1>3, <1>7 DEF SagaStrength

\* What has been recorded stays recorded, so a step need only account for the
\* notifications it adds.
LEMMA TruthStays ==
  ASSUME NotificationsTellTheTruth,
         placed \subseteq placed',
         \A o \in Orders :
           /\ kitchenOrders[o] \in {"ACCEPTED", "REJECTED"} =>
                kitchenOrders'[o] = kitchenOrders[o]
           /\ payments[o] = "SUCCEEDED" => payments'[o] = "SUCCEEDED"
           /\ deliveries[o] = "ASSIGNED" => deliveries'[o] = "ASSIGNED",
         \A o \in Orders, key \in QUEUES.notification :
           <<key, o>> \in notified' \/ Queued("notification", key, o)' =>
             <<key, o>> \in notified \/ Queued("notification", key, o) \/ Recorded(key, o)'
  PROVE  NotificationsTellTheTruth'
<1>1. \A o \in Orders, key \in QUEUES.notification : Recorded(key, o) => Recorded(key, o)'
  BY DEF Recorded
<1>2. QED
  BY <1>1 DEF NotificationsTellTheTruth

\* The handlers' rows are typed, whatever becomes of the queues.
LEMMA EventsHaveOrders == \A m \in Events : m.order \in Orders
BY DEF Events

LEMMA QueuesAreOK == ASSUME SagaTypeOK PROVE QueuesOK(queues)
BY DEF SagaTypeOK, QueuesOK

\* An event from outside is recorded as it is published.
LEMMA PublicationsKeepTheStrength ==
  ASSUME SagaStrength, NEW key \in ExternalKeys, NEW o \in Orders, PublishFromOutside(key, o)
  PROVE  SagaStrength'
<1> DEFINE m == [order |-> o, total |-> TRUE]
<1>1. SagaTypeOK /\ NotificationsTellTheTruth /\ DecisionsAreFinal /\ m \in Events
  BY DEF SagaStrength, Events
<1>2. /\ placed' = placed \cup {<<key, o>>} /\ queues' = Routed(queues, key, m)
      /\ UNCHANGED <<running, attached, declared, orders, kitchenOrders, payments, deliveries,
                    notified, crashes>>
  BY DEF PublishFromOutside, lifecycle, rows
<1>3. QueuesOK(queues')
  BY <1>1, <1>2, QueuesAreOK, RoutingKeepsTheQueues
<1>4. SagaTypeOK'
  <2>1. placed' \in SUBSET (ExternalKeys \X Orders)
    BY <1>1, <1>2 DEF SagaTypeOK
  <2> HIDE DEF m
  <2>2. QED
    BY <1>1, <1>2, <1>3, <2>1 DEF SagaTypeOK, QueuesOK
<1>5. DecisionsAreFinal'
  BY <1>1, <1>2 DEF DecisionsAreFinal
<1>6. \A p \in Orders, k \in QUEUES.notification :
        Queued("notification", k, p)' => Queued("notification", k, p) \/ <<k, p>> \in placed'
  <2>1. \A q \in Queues : queues[q] \subseteq queues[q]
    OBVIOUS
  <2>2. m.order = o
    OBVIOUS
  <2> HIDE DEF m
  <2>3. QED
    BY <1>1, <1>2, <2>1, <2>2, RoutedToNotification
<1>7. NotificationsTellTheTruth'
  BY <1>1, <1>2, <1>6, TruthStays DEF Recorded
<1>8. QED
  BY <1>4, <1>5, <1>7 DEF SagaStrength

\* The cancel endpoint publishes to a key notification has no queue for.
LEMMA CancellationsKeepTheStrength ==
  ASSUME SagaStrength, NEW o \in Orders, CancelOrder(o)
  PROVE  SagaStrength'
<1> DEFINE m == [order |-> o, total |-> TRUE]
           away == "order_service.order_cancelled"
<1>1. SagaTypeOK /\ NotificationsTellTheTruth /\ DecisionsAreFinal /\ m \in Events
  BY DEF SagaStrength, Events
<1>2. /\ orders' = [orders EXCEPT ![o] = "CANCELLED"] /\ queues' = Routed(queues, away, m)
      /\ UNCHANGED <<running, attached, declared, placed, kitchenOrders, payments, deliveries,
                    notified, crashes>>
  BY DEF CancelOrder, lifecycle
<1>3. QueuesOK(queues')
  BY <1>1, <1>2, QueuesAreOK, RoutingKeepsTheQueues
<1>4. SagaTypeOK'
  BY <1>1, <1>2, <1>3 DEF SagaTypeOK, QueuesOK
<1>5. DecisionsAreFinal'
  BY <1>1, <1>2 DEF DecisionsAreFinal
<1>6. \A p \in Orders, k \in QUEUES.notification :
        Queued("notification", k, p)' => Queued("notification", k, p)
  <2>1. \A q \in Queues : queues[q] \subseteq queues[q]
    OBVIOUS
  <2>2. \A k \in QUEUES.notification : k # away
    BY DEF QUEUES, Outcomes
  <2> HIDE DEF m, away
  <2>3. QED
    BY <1>1, <1>2, <2>1, <2>2, RoutedToNotification
<1>7. NotificationsTellTheTruth'
  BY <1>1, <1>2, <1>6, TruthStays
<1>8. QED
  BY <1>4, <1>5, <1>7 DEF SagaStrength

\* The consumers that publish nothing: each only takes its message.
LEMMA SilentHandlersKeepTheStrength ==
  ASSUME SagaStrength, NEW m \in Events,
         OrderCreated(m) \/ OrderAssigned(m) \/ \E key \in QUEUES.notification : Notify(key, m)
  PROVE  SagaStrength'
<1>1. SagaTypeOK /\ NotificationsTellTheTruth /\ DecisionsAreFinal /\ m.order \in Orders
  BY EventsHaveOrders DEF SagaStrength
<1>2. /\ UNCHANGED <<running, attached, declared, placed, kitchenOrders, payments, deliveries,
                    crashes>>
      /\ \E q : queues' = Without(q, m)
  BY DEF OrderCreated, OrderAssigned, Notify, Take, lifecycle
<1>3. QueuesOK(queues') /\ \A p \in Queues : queues'[p] \subseteq queues[p]
  BY <1>1, <1>2, QueuesAreOK, TakingKeepsTheQueues
<1>4. /\ orders' \in [Orders -> {"CREATED", "CANCELLED", "DELIVERY_ASSIGNED", Unwritten}]
      /\ notified' \in SUBSET (Keys \X Orders)
  <2>1. CASE UNCHANGED notified /\ (OrderCreated(m) \/ OrderAssigned(m))
    BY <1>1, <2>1 DEF OrderCreated, OrderAssigned, SagaTypeOK
  <2>2. CASE \E key \in QUEUES.notification : Notify(key, m)
    <3>1. PICK key \in QUEUES.notification : Notify(key, m)
      BY <2>2
    <3>2. <<key, m.order>> \in Keys \X Orders /\ orders' = orders
      BY <1>1, <3>1, WiringIsTyped DEF Notify, Services
    <3>3. notified' \subseteq notified \cup {<<key, m.order>>}
      BY <3>1 DEF Notify
    <3>4. QED
      BY <1>1, <3>2, <3>3 DEF SagaTypeOK
  <2>3. QED
    BY <2>1, <2>2 DEF OrderCreated, OrderAssigned
<1>5. SagaTypeOK'
  BY <1>1, <1>2, <1>3, <1>4 DEF SagaTypeOK, QueuesOK
<1>6. DecisionsAreFinal'
  BY <1>1, <1>2 DEF DecisionsAreFinal
<1>7. \A o \in Orders, k \in QUEUES.notification :
        Queued("notification", k, o)' => Queued("notification", k, o)
  BY <1>3, QueuesOfNotification DEF Queued
<1>8. \A o \in Orders, k \in QUEUES.notification :
        <<k, o>> \in notified' => <<k, o>> \in notified \/ Queued("notification", k, o)
  <2>1. CASE notified' = notified
    BY <2>1
  <2>2. ASSUME NEW key \in QUEUES.notification, Notify(key, m)
        PROVE  \A o \in Orders, k \in QUEUES.notification :
                 <<k, o>> \in notified' => <<k, o>> \in notified \/ Queued("notification", k, o)
    <3>1. /\ notified' \subseteq notified \cup {<<key, m.order>>}
          /\ Queued("notification", key, m.order)
      BY <2>2 DEF Notify, Take, Queued
    <3>2. QED
      BY <3>1
  <2>3. QED
    BY <2>1, <2>2 DEF OrderCreated, OrderAssigned
<1>9. NotificationsTellTheTruth'
  BY <1>1, <1>2, <1>7, <1>8, TruthStays
<1>10. QED
  BY <1>5, <1>6, <1>9 DEF SagaStrength

\* The consumers that publish: each takes its message, records its outcome and announces
\* it in one step.
LEMMA AnnouncementsAreTyped ==
  ASSUME SagaTypeOK, NEW m \in Events, NEW q, NEW key, NEW n \in Events,
         queues' = Routed(Without(q, m), key, n)
  PROVE  /\ QueuesOK(queues')
         /\ \A k \in QUEUES.notification, o \in Orders :
              Queued("notification", k, o)' =>
                Queued("notification", k, o) \/ (k = key /\ o = n.order)
<1>1. QueuesOK(Without(q, m)) /\ \A p \in Queues : Without(q, m)[p] \subseteq queues[p]
  BY QueuesAreOK, TakingKeepsTheQueues
<1> DEFINE qs == Without(q, m)
<1> HIDE DEF qs
<1>2. QueuesOK(qs) /\ queues' = Routed(qs, key, n) /\ \A p \in Queues : qs[p] \subseteq queues[p]
  BY <1>1 DEF qs
<1>3. QED
  BY <1>2, RoutingKeepsTheQueues, RoutedToNotification

LEMMA KitchenKeepsTheStrength ==
  ASSUME SagaStrength, NEW m \in Events, Kitchen(m)
  PROVE  SagaStrength'
<1> DEFINE n == [order |-> m.order, total |-> FALSE]
           key == IF decideKitchen(m) = "ACCEPTED" THEN "kitchen.accepted" ELSE "kitchen.rejected"
<1>1. /\ SagaTypeOK /\ NotificationsTellTheTruth /\ DecisionsAreFinal
      /\ m.order \in Orders /\ n \in Events /\ n.order = m.order
  BY EventsHaveOrders DEF SagaStrength, Events
<1>2. /\ UNCHANGED <<running, attached, declared, placed, orders, payments, deliveries,
                    notified, crashes>>
      /\ kitchenOrders' = [kitchenOrders EXCEPT ![m.order] = decideKitchen(m)]
      /\ queues' = Routed(Without(<<"kitchen", "order.created">>, m), key, n)
  BY DEF Kitchen, Take, lifecycle
<1>3. key = "kitchen.accepted" => decideKitchen(m) = "ACCEPTED"
  OBVIOUS
<1>4. key = "kitchen.rejected" => decideKitchen(m) = "REJECTED"
  BY DEF decideKitchen
<1>5. key \in {"kitchen.accepted", "kitchen.rejected"}
  OBVIOUS
<1> HIDE DEF n, key
<1>6. /\ QueuesOK(queues')
      /\ \A k \in QUEUES.notification, o \in Orders :
           Queued("notification", k, o)' =>
             Queued("notification", k, o) \/ (k = key /\ o = m.order)
  BY <1>1, <1>2, AnnouncementsAreTyped
<1>7. kitchenOrders'[m.order] = decideKitchen(m)
      /\ \A o \in Orders \ {m.order} : kitchenOrders'[o] = kitchenOrders[o]
  BY <1>1, <1>2 DEF SagaTypeOK
<1>8. SagaTypeOK'
  <2>1. kitchenOrders' \in [Orders -> {"ACCEPTED", "REJECTED", Unwritten}]
    BY <1>1, <1>2 DEF SagaTypeOK, decideKitchen
  <2>2. QED
    BY <1>1, <1>2, <1>6, <2>1 DEF SagaTypeOK, QueuesOK
<1>9. DecisionsAreFinal'
  BY <1>1, <1>7 DEF DecisionsAreFinal, decideKitchen
<1>10. NotificationsTellTheTruth'
  <2>1. \A o \in Orders : kitchenOrders[o] \in {"ACCEPTED", "REJECTED"} =>
          kitchenOrders'[o] = kitchenOrders[o]
    BY <1>1, <1>7 DEF DecisionsAreFinal, decideKitchen
  <2>2. Recorded(key, m.order)'
    BY <1>3, <1>4, <1>5, <1>7 DEF Recorded
  <2>3. QED
    BY <1>1, <1>2, <1>6, <2>1, <2>2, TruthStays
<1>11. QED
  BY <1>8, <1>9, <1>10 DEF SagaStrength

\* The success of a payment goes to a key notification has no queue for.
LEMMA PaymentKeepsTheStrength ==
  ASSUME SagaStrength, NEW m \in Events, Payment(m)
  PROVE  SagaStrength'
<1> DEFINE away == "payment_service.payment_succeeded"
           q == <<"payment", "kitchen.accepted">>
<1>1. /\ SagaTypeOK /\ NotificationsTellTheTruth /\ DecisionsAreFinal
      /\ m.order \in Orders
  BY EventsHaveOrders DEF SagaStrength
<1>2. /\ UNCHANGED <<running, attached, declared, placed, orders, kitchenOrders, deliveries,
                    notified, crashes>>
      /\ payments' = [payments EXCEPT ![m.order] = IF m.total THEN "SUCCEEDED" ELSE @]
      /\ queues' = Routed(Without(q, m), away, m) \/ queues' = Without(q, m)
  BY DEF Payment, Take, lifecycle
<1>3. \A k \in QUEUES.notification : k # away
  BY DEF QUEUES, Outcomes
<1> HIDE DEF away, q
<1>4. /\ QueuesOK(queues')
      /\ \A k \in QUEUES.notification, o \in Orders :
           Queued("notification", k, o)' => Queued("notification", k, o)
  <2>1. CASE queues' = Routed(Without(q, m), away, m)
    BY <1>1, <1>3, <2>1, AnnouncementsAreTyped
  <2>2. CASE queues' = Without(q, m)
    <3>1. QueuesOK(queues') /\ \A p \in Queues : queues'[p] \subseteq queues[p]
      BY <1>1, <2>2, QueuesAreOK, TakingKeepsTheQueues
    <3>2. QED
      BY <3>1, QueuesOfNotification DEF Queued
  <2>3. QED
    BY <1>2, <2>1, <2>2
<1>5. SagaTypeOK'
  <2>1. payments' \in [Orders -> {"SUCCEEDED", Unwritten}]
    BY <1>1, <1>2 DEF SagaTypeOK
  <2>2. QED
    BY <1>1, <1>2, <1>4, <2>1 DEF SagaTypeOK, QueuesOK
<1>6. DecisionsAreFinal'
  BY <1>1, <1>2 DEF DecisionsAreFinal
<1>7. NotificationsTellTheTruth'
  <2>1. \A o \in Orders : payments[o] = "SUCCEEDED" => payments'[o] = "SUCCEEDED"
    BY <1>1, <1>2 DEF SagaTypeOK
  <2>2. QED
    BY <1>1, <1>2, <1>4, <2>1, TruthStays
<1>8. QED
  BY <1>5, <1>6, <1>7 DEF SagaStrength

LEMMA DeliveryKeepsTheStrength ==
  ASSUME SagaStrength, NEW m \in Events, Delivery(m)
  PROVE  SagaStrength'
<1> DEFINE n == [order |-> m.order, total |-> FALSE]
<1>1. /\ SagaTypeOK /\ NotificationsTellTheTruth /\ DecisionsAreFinal
      /\ m.order \in Orders /\ n \in Events /\ n.order = m.order
  BY EventsHaveOrders DEF SagaStrength, Events
<1>2. /\ UNCHANGED <<running, attached, declared, placed, orders, kitchenOrders, payments,
                    notified, crashes>>
      /\ deliveries' = [deliveries EXCEPT ![m.order] = "ASSIGNED"]
      /\ queues' = Routed(Without(<<"delivery", "payment.succeeded">>, m), "delivery.assigned", n)
  BY DEF Delivery, Take, lifecycle
<1> HIDE DEF n
<1>3. /\ QueuesOK(queues')
      /\ \A k \in QUEUES.notification, o \in Orders :
           Queued("notification", k, o)' =>
             Queued("notification", k, o) \/ (k = "delivery.assigned" /\ o = m.order)
  BY <1>1, <1>2, AnnouncementsAreTyped
<1>4. SagaTypeOK'
  <2>1. deliveries' \in [Orders -> {"ASSIGNED", Unwritten}]
    BY <1>1, <1>2 DEF SagaTypeOK
  <2>2. QED
    BY <1>1, <1>2, <1>3, <2>1 DEF SagaTypeOK, QueuesOK
<1>5. DecisionsAreFinal'
  BY <1>1, <1>2 DEF DecisionsAreFinal
<1>6. NotificationsTellTheTruth'
  <2>1. /\ \A o \in Orders : deliveries[o] = "ASSIGNED" => deliveries'[o] = "ASSIGNED"
        /\ Recorded("delivery.assigned", m.order)'
    BY <1>1, <1>2 DEF SagaTypeOK, Recorded
  <2>2. QED
    BY <1>1, <1>2, <1>3, <2>1, TruthStays
<1>7. QED
  BY <1>4, <1>5, <1>6 DEF SagaStrength

LEMMA SagaStrengthHolds == SagaSpec => []SagaStrength
<1>1. SagaInit => SagaStrength
  <2> SUFFICES ASSUME SagaInit PROVE SagaStrength
    OBVIOUS
  <2>1. SagaTypeOK
    BY SagaAssumption, WiringIsTyped DEF SagaInit, SagaTypeOK
  <2>2. NotificationsTellTheTruth
    BY QueuesOfNotification DEF SagaInit, NotificationsTellTheTruth, Queued
  <2>3. DecisionsAreFinal
    BY SagaAssumption DEF SagaInit, DecisionsAreFinal
  <2>4. QED
    BY <2>1, <2>2, <2>3 DEF SagaStrength
<1>2. SagaStrength /\ [SagaNext]_sagaVars => SagaStrength'
  <2> SUFFICES ASSUME SagaStrength, [SagaNext]_sagaVars PROVE SagaStrength'
    OBVIOUS
  <2>1. ASSUME NEW s \in Services, Start(s) \/ Subscribe(s) \/ CrashService(s)
        PROVE  SagaStrength'
    BY <2>1, LifecyclesKeepTheStrength
  <2>2. ASSUME NEW s \in Services, HandleEvent(s)
        PROVE  SagaStrength'
    <3>1. PICK m \in Events :
            \/ OrderCreated(m) \/ OrderAssigned(m)
            \/ Kitchen(m) \/ Payment(m) \/ Delivery(m)
            \/ \E key \in QUEUES.notification : Notify(key, m)
      BY <2>2 DEF HandleEvent
    <3>2. QED
      BY <3>1, SilentHandlersKeepTheStrength, KitchenKeepsTheStrength,
         PaymentKeepsTheStrength, DeliveryKeepsTheStrength
  <2>3. ASSUME NEW o \in Orders, CancelOrder(o)
        PROVE  SagaStrength'
    BY <2>3, CancellationsKeepTheStrength
  <2>4. ASSUME NEW o \in Orders, NEW key \in ExternalKeys, PublishFromOutside(key, o)
        PROVE  SagaStrength'
    BY <2>4, PublicationsKeepTheStrength
  <2>5. CASE UNCHANGED sagaVars
    BY <2>5 DEF sagaVars, SagaStrength, SagaTypeOK, NotificationsTellTheTruth,
                DecisionsAreFinal, Queued, Recorded
  <2>6. QED
    BY <2>1, <2>2, <2>3, <2>4, <2>5 DEF SagaNext
<1>3. QED
  BY <1>1, <1>2, PTL DEF SagaSpec

\* Whatever the start-up order, the crashes and the order of deliveries: queues, rows and
\* consumers fit each other, and a customer is told, or has queued, only what was
\* published from outside or what the service concerned has on record.
THEOREM SagaInvariant == SagaSpec => []SagaIInv
<1>1. SagaStrength => SagaIInv
  BY DEF SagaStrength, SagaIInv
<1>2. QED
  BY <1>1, SagaStrengthHolds, PTL

\* What no order gets: a payment, a driver, the status that says so, or the news that the
\* kitchen accepted it.
NobodyDelivers ==
  \A o \in Orders :
    /\ payments[o] = Unwritten /\ deliveries[o] = Unwritten /\ orders[o] # "DELIVERY_ASSIGNED"
    /\ <<"kitchen.accepted", o>> \notin notified

\* All that is ever queued: new orders, and what the kitchen makes of them.
OnlyTheKitchenSpeaks ==
  \A q \in Queues : \A m \in queues[q] :
    \/ q[2] = "order.created"
    \/ q[2] \in {"kitchen.accepted", "kitchen.rejected"} /\ ~m.total

Stalled == NobodyDelivers /\ OnlyTheKitchenSpeaks

\* Where a publisher may speak without waking payment, delivery or the order's last step.
LEMMA RoutingStaysStalled ==
  ASSUME OnlyTheKitchenSpeaks, NEW qs, \A p \in Queues : qs[p] \subseteq queues[p],
         NEW key, NEW m \in Events, queues' = Routed(qs, key, m),
         \/ key \notin Keys
         \/ key = "order.created"
         \/ key \in {"kitchen.accepted", "kitchen.rejected"} /\ ~m.total
  PROVE  OnlyTheKitchenSpeaks'
<1> SUFFICES ASSUME NEW q \in Queues, NEW n \in queues'[q]
             PROVE  \/ q[2] = "order.created"
                    \/ q[2] \in {"kitchen.accepted", "kitchen.rejected"} /\ ~n.total
  BY DEF OnlyTheKitchenSpeaks
<1>1. n \in queues[q] \/ (q[2] = key /\ n = m)
  BY DEF Routed
<1>2. q[2] \in Keys
  BY DEF Queues
<1>3. QED
  BY <1>1, <1>2 DEF OnlyTheKitchenSpeaks

\* Where nothing but order.created comes from outside, no order is ever charged or gets a
\* driver, and no customer is told that the kitchen accepted it, whatever starts, crashes
\* or is cancelled: the kitchen's events lack the total that the consumers of payment and
\* of notification demand.  That SagaCompletes is violated is no
\* accident of the instance it is checked on.
THEOREM TheChainIsBroken ==
  ASSUME ExternalKeys \subseteq {"order.created"}
  PROVE  SagaSpec => []NobodyDelivers
<1>1. SagaInit => Stalled
  BY SagaAssumption DEF SagaInit, Stalled, NobodyDelivers, OnlyTheKitchenSpeaks
<1>2. SagaStrength /\ Stalled /\ [SagaNext]_sagaVars => Stalled'
  <2> SUFFICES ASSUME SagaStrength, Stalled, [SagaNext]_sagaVars PROVE Stalled'
    OBVIOUS
  <2>1. SagaTypeOK /\ NobodyDelivers /\ OnlyTheKitchenSpeaks
    BY DEF Stalled, SagaStrength
  <2>2. \A q, m : \A p \in Queues : Without(q, m)[p] \subseteq queues[p]
    BY <2>1, QueuesAreOK, TakingKeepsTheQueues
  <2>3. CASE /\ UNCHANGED <<orders, payments, deliveries, notified>>
             /\ \A p \in Queues : queues'[p] \subseteq queues[p]
    BY <2>1, <2>3 DEF Stalled, NobodyDelivers, OnlyTheKitchenSpeaks
  <2>4. ASSUME NEW s \in Services, Start(s) \/ Subscribe(s) \/ CrashService(s)
        PROVE  Stalled'
    BY <2>3, <2>4 DEF Start, Subscribe, CrashService, rows
  <2>5. ASSUME NEW m \in Events, OrderCreated(m)
        PROVE  Stalled'
    <3>1. NobodyDelivers'
      BY <2>1, <2>5, SagaAssumption DEF OrderCreated, NobodyDelivers, SagaTypeOK
    <3>2. OnlyTheKitchenSpeaks'
      BY <2>1, <2>2, <2>5 DEF OrderCreated, OnlyTheKitchenSpeaks
    <3>3. QED
      BY <3>1, <3>2 DEF Stalled
  <2>6. ASSUME NEW m \in Events, OrderAssigned(m)
        PROVE  FALSE
    <3>1. m \in queues[<<"order", "delivery.assigned">>]
      BY <2>6 DEF OrderAssigned, Take
    <3>2. <<"order", "delivery.assigned">> \in Queues
      BY DEF Queues, Services, Keys, Outcomes, QUEUES
    <3>3. QED
      BY <2>1, <3>1, <3>2 DEF OnlyTheKitchenSpeaks
  <2>7. ASSUME NEW m \in Events, Kitchen(m)
        PROVE  Stalled'
    <3> DEFINE n == [order |-> m.order, total |-> FALSE]
               key == IF decideKitchen(m) = "ACCEPTED"
                        THEN "kitchen.accepted" ELSE "kitchen.rejected"
    <3>1. /\ queues' = Routed(Without(<<"kitchen", "order.created">>, m), key, n)
          /\ UNCHANGED <<orders, payments, deliveries, notified>>
      BY <2>7 DEF Kitchen
    <3>2. n \in Events /\ ~n.total /\ key \in {"kitchen.accepted", "kitchen.rejected"}
      BY EventsHaveOrders DEF Events
    <3> HIDE DEF n, key
    <3>3. OnlyTheKitchenSpeaks'
      BY <2>1, <2>2, <3>1, <3>2, RoutingStaysStalled
    <3>4. QED
      BY <2>1, <3>1, <3>3 DEF Stalled, NobodyDelivers
  <2>8. ASSUME NEW m \in Events, Payment(m)
        PROVE  Stalled'
    <3>1. m \in queues[<<"payment", "kitchen.accepted">>]
      BY <2>8 DEF Payment, Take
    <3>2. <<"payment", "kitchen.accepted">> \in Queues
      BY DEF Queues, Services, Keys, Outcomes, QUEUES
    <3>3. ~m.total
      BY <2>1, <3>1, <3>2 DEF OnlyTheKitchenSpeaks
    <3>4. /\ queues' = Without(<<"payment", "kitchen.accepted">>, m)
          /\ payments' = payments /\ UNCHANGED <<orders, deliveries, notified>>
      BY <2>1, <2>8, <3>3 DEF Payment, SagaTypeOK
    <3>5. QED
      BY <2>2, <2>3, <3>4
  <2>9. ASSUME NEW m \in Events, Delivery(m)
        PROVE  FALSE
    <3>1. m \in queues[<<"delivery", "payment.succeeded">>]
      BY <2>9 DEF Delivery, Take
    <3>2. <<"delivery", "payment.succeeded">> \in Queues
      BY DEF Queues, Services, Keys, Outcomes, QUEUES
    <3>3. QED
      BY <2>1, <3>1, <3>2 DEF OnlyTheKitchenSpeaks
  <2>10. ASSUME NEW m \in Events, NEW key \in QUEUES.notification, Notify(key, m)
         PROVE  Stalled'
    <3>1. m \in queues[<<"notification", key>>] /\ <<"notification", key>> \in Queues
      BY <2>10, WiringIsTyped DEF Notify, Take, Queues, Services
    <3>2. key = "kitchen.accepted" => ~m.total
      BY <2>1, <3>1 DEF OnlyTheKitchenSpeaks
    <3>3. UNCHANGED <<orders, payments, deliveries>> /\ NobodyDelivers'
      BY <2>1, <2>10, <3>2 DEF Notify, NobodyDelivers
    <3>4. \A p \in Queues : queues'[p] \subseteq queues[p]
      BY <2>2, <2>10 DEF Notify
    <3>5. QED
      BY <2>1, <3>3, <3>4 DEF Stalled, OnlyTheKitchenSpeaks
  <2>11. ASSUME NEW o \in Orders, CancelOrder(o)
         PROVE  Stalled'
    <3>1. NobodyDelivers'
      BY <2>1, <2>11 DEF CancelOrder, NobodyDelivers, SagaTypeOK
    <3>2. OnlyTheKitchenSpeaks'
      <4> DEFINE m == [order |-> o, total |-> TRUE]
                 away == "order_service.order_cancelled"
      <4>1. queues' = Routed(queues, away, m) /\ m \in Events /\ away \notin Keys
        BY <2>11 DEF CancelOrder, Events, Keys, Outcomes
      <4> HIDE DEF m, away
      <4>2. \A p \in Queues : queues[p] \subseteq queues[p]
        OBVIOUS
      <4>3. QED
        BY <2>1, <4>1, <4>2, RoutingStaysStalled
    <3>3. QED
      BY <3>1, <3>2 DEF Stalled
  <2>12. ASSUME NEW o \in Orders, NEW key \in ExternalKeys, PublishFromOutside(key, o)
         PROVE  Stalled'
    <3> DEFINE m == [order |-> o, total |-> TRUE]
    <3>1. /\ queues' = Routed(queues, key, m) /\ m \in Events /\ key = "order.created"
          /\ UNCHANGED <<orders, payments, deliveries, notified>>
      BY <2>12 DEF PublishFromOutside, rows, Events
    <3> HIDE DEF m
    <3>2. \A p \in Queues : queues[p] \subseteq queues[p]
      OBVIOUS
    <3>3. OnlyTheKitchenSpeaks'
      BY <2>1, <3>1, <3>2, RoutingStaysStalled
    <3>4. QED
      BY <2>1, <3>1, <3>3 DEF Stalled, NobodyDelivers
  <2>13. CASE UNCHANGED sagaVars
    BY <2>3, <2>13 DEF sagaVars
  <2>14. ASSUME NEW s \in Services, HandleEvent(s)
         PROVE  Stalled'
    BY <2>5, <2>6, <2>7, <2>8, <2>9, <2>10, <2>14 DEF HandleEvent
  <2>15. QED
    BY <2>4, <2>11, <2>12, <2>13, <2>14 DEF SagaNext
<1>3. Stalled => NobodyDelivers
  BY DEF Stalled
<1>4. QED
  BY <1>1, <1>2, <1>3, SagaStrengthHolds, PTL DEF SagaSpec
=============================================================================

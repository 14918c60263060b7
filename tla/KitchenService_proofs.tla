----------------------- MODULE KitchenService_proofs ------------------------
(***************************************************************************)
(* Theorems about the kitchen, for any number of orders, events, replicas, *)
(* callbacks and faults.  IInv is inductive; DecidedOnce and the           *)
(* refinement of SagaStep follow from it.                                  *)
(***************************************************************************)
EXTENDS KitchenService, EventBus_proofs

\* The tables stay as they are and no callback moves to a new await: what the
\* bus's own steps look like to the kitchen.
LEMMA QuietSteps ==
  ASSUME IInv, BusTypeOK(Awaits)', Shrinks, UNCHANGED <<dbVars, published>>
  PROVE  IInv'
<1>1. TypeOK'
  BY DEF IInv, TypeOK, dbVars
<1>2. \A w \in Workers : Writing(w)' => Writing(w) /\ pc'[w] = pc[w] /\ msg'[w] = msg[w]
  BY DEF Shrinks, Writing
<1>3. WriterOwnsTheOrder'
  BY <1>2 DEF IInv, WriterOwnsTheOrder, Writing, decideKitchen, dbVars
<1>4. RowsComeFirst'
  BY DEF IInv, RowsComeFirst, dbVars
<1>5. QED
  BY <1>1, <1>3, <1>4 DEF IInv

\* A callback that moves on without writing, to an await outside the writing part.
LEMMA QuietGoto ==
  ASSUME IInv, NEW w \in Workers, pc[w] # "idle", NEW l \in {"ack", "create"},
         Goto(w, l), UNCHANGED <<dbVars, published>>
  PROVE  IInv'
<1>1. BusTypeOK(Awaits)'
  BY OtherSteps DEF IInv, TypeOK, Awaits
<1>2. TypeOK'
  BY <1>1 DEF IInv, TypeOK, dbVars
<1>3. \A v \in Workers : Writing(v)' => Writing(v) /\ pc'[v] = pc[v] /\ msg'[v] = msg[v]
  BY DEF Goto, Writing, IInv, TypeOK, BusTypeOK
<1>4. WriterOwnsTheOrder'
  BY <1>3 DEF IInv, WriterOwnsTheOrder, Writing, decideKitchen, dbVars
<1>5. RowsComeFirst'
  BY DEF IInv, RowsComeFirst, dbVars
<1>6. QED
  BY <1>2, <1>4, <1>5 DEF IInv

\* A drop of the message leaves the invariant as it is.
LEMMA NackQuiet ==
  ASSUME IInv, NEW w \in Workers, pc[w] # "idle", Nack(w), UNCHANGED <<dbVars, published>>
  PROVE  IInv'
BY EndingSteps, QuietSteps DEF IInv, TypeOK

\* The kitchen starts with empty tables and no callback running.
LEMMA InitIInv == Init => IInv
<1> SUFFICES ASSUME Init PROVE IInv
  OBVIOUS
<1>1. TypeOK
  BY BusAssumption, KitchenAssumption DEF Init, BusInit, TypeOK, BusTypeOK, Awaits
<1>2. WriterOwnsTheOrder
  BY DEF Init, BusInit, WriterOwnsTheOrder, Writing
<1>3. RowsComeFirst
  BY DEF Init, RowsComeFirst
<1>4. QED
  BY <1>1, <1>2, <1>3 DEF IInv

\* The create of the row makes its callback the order's writer: the row was
\* missing, so no other callback was writing and nothing had been announced.
LEMMA CreateStep ==
  ASSUME IInv, NEW w \in Workers, CreateKitchenOrder(w)
  PROVE  IInv'
<1> DEFINE o == msg[w].order
<1>1. msg[w] \in Messages /\ o \in Orders /\ pc[w] = "create"
  BY KitchenAssumption DEF CreateKitchenOrder, IInv, TypeOK, BusTypeOK
<1>2. CASE kitchenOrders[o] # Unwritten
  BY <1>1, <1>2, NackQuiet DEF CreateKitchenOrder, dbVars
<1>3. CASE kitchenOrders[o] = Unwritten
  <2>1. /\ kitchenOrders' = [kitchenOrders EXCEPT ![o] = decideKitchen(msg[w])]
        /\ Goto(w, "mark")
        /\ UNCHANGED <<processedEvents, published>>
    BY <1>3 DEF CreateKitchenOrder
  <2>2. BusTypeOK(Awaits)'
    BY <1>1, <2>1, OtherSteps DEF IInv, TypeOK, Awaits
  <2>3. decideKitchen(msg[w]) \in Decisions
    BY DEF decideKitchen, Decisions
  <2>4. TypeOK'
    BY <2>1, <2>2, <2>3 DEF IInv, TypeOK
  <2>5. decideKitchen(msg[w])' = decideKitchen(msg[w])
    BY <2>1 DEF decideKitchen, Goto
  <2>6. \A v \in Workers : Writing(v) => msg[v].order # o /\ v # w
    BY <1>1, <1>3, KitchenAssumption, <2>3 DEF IInv, WriterOwnsTheOrder, Writing, decideKitchen, Decisions
  <2>7. o \notin processedEvents /\ \A d \in Decisions : published[o][d] = 0
    BY <1>1, <1>3, KitchenAssumption DEF IInv, TypeOK, RowsComeFirst, Decisions
  <2>8. \A v \in Workers : Writing(v)' <=> Writing(v) \/ v = w
    BY <2>1 DEF Goto, Writing, IInv, TypeOK, BusTypeOK
  <2>9. WriterOwnsTheOrder'
    <3> SUFFICES ASSUME NEW v \in Workers, Writing(v)'
                 PROVE  /\ kitchenOrders'[msg'[v].order] = decideKitchen(msg'[v])
                        /\ \A d \in Decisions : published'[msg'[v].order][d] = 0
                        /\ pc'[v] = "mark" <=> msg'[v].order \notin processedEvents'
                        /\ \A u \in Workers :
                             Writing(u)' /\ msg'[u].order = msg'[v].order => u = v
      BY DEF WriterOwnsTheOrder, decideKitchen
    <3>1. CASE v = w
      BY <3>1, <1>1, <2>1, <2>6, <2>7, <2>8
         DEF Goto, IInv, TypeOK, BusTypeOK, decideKitchen
    <3>2. CASE v # w
      BY <3>2, <1>1, <2>1, <2>6, <2>8
         DEF Goto, IInv, TypeOK, BusTypeOK, WriterOwnsTheOrder, decideKitchen
    <3>3. QED
      BY <3>1, <3>2
  <2>10. RowsComeFirst'
    BY <1>1, <2>1, <2>3, <2>7, KitchenAssumption DEF IInv, TypeOK, RowsComeFirst
  <2>11. QED
    BY <2>4, <2>9, <2>10 DEF IInv
<1>4. QED
  BY <1>2, <1>3

\* Marking: the unique key cannot trip, the order moves on to its publish.
LEMMA MarkStep ==
  ASSUME IInv, NEW w \in Workers, CreateProcessed(w)
  PROVE  IInv'
<1> DEFINE o == msg[w].order
<1>1. /\ msg[w] \in Messages /\ o \in Orders /\ pc[w] = "mark" /\ Writing(w)
      /\ o \notin processedEvents
  BY KitchenAssumption DEF CreateProcessed, IInv, TypeOK, BusTypeOK, WriterOwnsTheOrder, Writing
<1>2. /\ processedEvents' = processedEvents \cup {o}
      /\ Goto(w, "publish")
      /\ UNCHANGED <<kitchenOrders, published>>
  BY <1>1 DEF CreateProcessed
<1>3. TypeOK'
  BY <1>1, <1>2, OtherSteps DEF IInv, TypeOK, Awaits
<1>4. \A v \in Workers : Writing(v)' <=> Writing(v)
  BY <1>1, <1>2 DEF Goto, Writing, IInv, TypeOK, BusTypeOK
<1>5. \A v \in Workers : Writing(v) /\ v # w => msg[v].order # o
  BY <1>1 DEF IInv, WriterOwnsTheOrder
<1>6. WriterOwnsTheOrder'
  BY <1>1, <1>2, <1>4, <1>5
     DEF Goto, IInv, TypeOK, BusTypeOK, WriterOwnsTheOrder, Writing, decideKitchen
<1>7. kitchenOrders[o] # Unwritten
  BY <1>1, KitchenAssumption DEF IInv, WriterOwnsTheOrder, decideKitchen, Decisions
<1>8. RowsComeFirst'
  BY <1>1, <1>2, <1>7 DEF IInv, RowsComeFirst
<1>9. QED
  BY <1>3, <1>6, <1>8 DEF IInv

\* Publishing: the only writer of the order announces its row's decision, the
\* first announcement of the order.
LEMMA PublishStep ==
  ASSUME IInv, NEW w \in Workers, PublishDecision(w)
  PROVE  IInv'
<1> DEFINE o == msg[w].order
           d == decideKitchen(msg[w])
<1>1. /\ msg[w] \in Messages /\ o \in Orders /\ d \in Decisions
      /\ pc[w] = "publish" /\ Writing(w)
  BY KitchenAssumption
     DEF PublishDecision, IInv, TypeOK, BusTypeOK, Writing, decideKitchen, Decisions
<1>2. CASE ~Connected(w)
  <2>1. Nack(w) /\ UNCHANGED <<dbVars, published>>
    BY <1>2 DEF PublishDecision, PublishFails
  <2>2. QED
    BY <1>1, <2>1, NackQuiet
<1>3. CASE Connected(w)
  <2>1. /\ published' = [published EXCEPT ![o][d] = @ + 1]
        /\ Goto(w, "ack")
        /\ UNCHANGED <<kitchenOrders, processedEvents>>
    BY <1>3 DEF PublishDecision, PublishFails, dbVars
  <2>2. BusTypeOK(Awaits)'
    BY <1>1, <2>1, OtherSteps DEF IInv, TypeOK
  <2>3. TypeOK'
    BY <1>1, <2>1, <2>2 DEF IInv, TypeOK
  <2>4. \A v \in Workers : Writing(v)' <=> Writing(v) /\ v # w
    BY <1>1, <2>1 DEF Goto, Writing, IInv, TypeOK, BusTypeOK
  <2>5. \A v \in Workers : Writing(v) /\ v # w => msg[v].order # o
    BY <1>1 DEF IInv, WriterOwnsTheOrder
  <2>6. \A p \in Orders : p # o => published'[p] = published[p]
    BY <1>1, <2>1 DEF IInv, TypeOK
  <2>7. WriterOwnsTheOrder'
    BY <1>1, <2>1, <2>4, <2>5, <2>6, KitchenAssumption
       DEF Goto, IInv, TypeOK, BusTypeOK, WriterOwnsTheOrder, Writing, decideKitchen
  <2>8. kitchenOrders[o] = d /\ \A e \in Decisions : published[o][e] = 0
    BY <1>1 DEF IInv, WriterOwnsTheOrder
  <2>9. /\ published'[o][d] = 1
        /\ \A e \in Decisions : e # d => published'[o][e] = 0
    BY <1>1, <2>1, <2>8 DEF IInv, TypeOK
  <2>10. RowsComeFirst'
    BY <1>1, <2>1, <2>6, <2>8, <2>9 DEF IInv, RowsComeFirst
  <2>11. QED
    BY <2>3, <2>7, <2>10 DEF IInv
<1>4. QED
  BY <1>2, <1>3

\* No step of the kitchen, its broker or its database breaks the invariant.
LEMMA NextIInv == IInv /\ [Next]_vars => IInv'
<1> SUFFICES ASSUME IInv, [Next]_vars PROVE IInv'
  OBVIOUS
<1>1. ASSUME NEW m \in Messages, Send(m), UNCHANGED <<dbVars, published>>
      PROVE  IInv'
  BY <1>1, OtherSteps, QuietSteps DEF IInv, TypeOK
<1>2. CASE Receive
  <2>1. PICK w \in Workers, m \in Messages :
          Deliver(w, m, "find") /\ UNCHANGED <<dbVars, published>>
    BY <1>2 DEF Receive
  <2>2. /\ BusTypeOK(Awaits)'
        /\ \/ Shrinks
           \/ pc' = [pc EXCEPT ![w] = "find"] /\ msg' = [msg EXCEPT ![w] = m]
    <3>1. BusTypeOK(Awaits) /\ "find" \in Awaits
      BY DEF IInv, TypeOK, Awaits
    <3>2. Deliver(w, m, "find")
      BY <2>1
    <3>3. QED
      BY <3>1, <3>2, DeliverFacts
  <2>3. CASE Shrinks
    BY <2>1, <2>2, <2>3, QuietSteps
  <2>4. CASE pc' = [pc EXCEPT ![w] = "find"] /\ msg' = [msg EXCEPT ![w] = m]
    <3>1. \A v \in Workers : Writing(v)' => Writing(v) /\ pc'[v] = pc[v] /\ msg'[v] = msg[v]
      BY <2>4 DEF Writing, IInv, TypeOK, BusTypeOK
    <3>2. WriterOwnsTheOrder'
      BY <2>1, <3>1 DEF IInv, WriterOwnsTheOrder, Writing, decideKitchen, dbVars
    <3>3. TypeOK' /\ RowsComeFirst'
      BY <2>1, <2>2 DEF IInv, TypeOK, RowsComeFirst, dbVars
    <3>4. QED
      BY <3>2, <3>3 DEF IInv
  <2>5. QED
    BY <2>2, <2>3, <2>4
<1>3. ASSUME NEW w \in Workers, Handle(w)
      PROVE  IInv'
  <2>1. CASE FindProcessed(w)
    BY <2>1, QuietGoto DEF FindProcessed
  <2>2. CASE CreateKitchenOrder(w)
    BY <2>2, CreateStep
  <2>3. CASE CreateProcessed(w)
    BY <2>3, MarkStep
  <2>4. CASE PublishDecision(w)
    BY <2>4, PublishStep
  <2>5. CASE Ack(w) /\ UNCHANGED <<dbVars, published>>
    BY <2>5, EndingSteps, QuietSteps DEF IInv, TypeOK
  <2>6. QED
    BY <1>3, <2>1, <2>2, <2>3, <2>4, <2>5 DEF Handle
<1>4. CASE Fault
  <2>1. UNCHANGED <<dbVars, published>>
    BY <1>4 DEF Fault
  <2>2. ASSUME NEW p \in Processes, Crash(p) \/ CloseConnection(p)
        PROVE  IInv'
    BY <2>1, <2>2, EndingSteps, QuietSteps DEF IInv, TypeOK
  <2>3. ASSUME NEW w \in Workers, DatabaseFails(w, {"find", "create", "mark"})
        PROVE  IInv'
    <3>1. {"find", "create", "mark"} \in SUBSET Awaits /\ "idle" \notin {"find", "create", "mark"}
      BY DEF Awaits
    <3>2. QED
      BY <2>1, <2>3, <3>1, EndingSteps, QuietSteps DEF IInv, TypeOK
  <2>4. QED
    BY <1>4, <2>2, <2>3 DEF Fault
<1>5. CASE UNCHANGED vars
  <2>1. UNCHANGED <<dbVars, published>> /\ Shrinks
    BY <1>5 DEF vars, dbVars, busVars, Shrinks
  <2>2. BusTypeOK(Awaits)'
    BY <1>5 DEF vars, busVars, BusTypeOK, IInv, TypeOK
  <2>3. QED
    BY <2>1, <2>2, QuietSteps
<1>6. QED
  BY <1>1, <1>2, <1>3, <1>4, <1>5 DEF Next

\* The kitchen's state is always well typed, its writer discipline always holds.
THEOREM KitchenInvariant == Spec => []IInv
BY InitIInv, NextIInv, PTL DEF Spec

\* However many replicas, copies, crashes and closed connections: at most one
\* decision per order is announced, and it is the row's.
THEOREM KitchenDecidesOnce == Spec => []DecidedOnce
<1>1. IInv => DecidedOnce
  <2> SUFFICES ASSUME IInv, NEW o \in Orders
               PROVE  /\ Announcements(o) <= 1
                      /\ \A d \in Decisions : published[o][d] > 0 => kitchenOrders[o] = d
    BY DEF DecidedOnce
  <2>1. \A d \in Decisions : published[o][d] \in Nat
    BY DEF IInv, TypeOK
  <2>2. \A d \in Decisions : published[o][d] > 0 => kitchenOrders[o] = d /\ published[o][d] = 1
    BY DEF IInv, RowsComeFirst
  <2>3. Announcements(o) <= 1
    BY <2>1, <2>2 DEF Announcements, Decisions
  <2>4. QED
    BY <2>2, <2>3
<1>2. QED
  BY <1>1, KitchenInvariant, PTL

\* The kitchen implements the abstract saga step.
THEOREM KitchenImplementsSagaStep == Spec => ImplementsSagaStep
<1>1. Init => Step!Init
  BY DEF Init, Step!Init
<1>2. IInv /\ IInv' /\ [Next]_vars => [Step!Next]_<<kitchenOrders, published>>
  <2> SUFFICES ASSUME IInv, IInv', [Next]_vars,
                      ~(UNCHANGED <<kitchenOrders, published>>)
               PROVE  Step!Next
    OBVIOUS
  <2>1. \E w \in Workers : CreateKitchenOrder(w) \/ PublishDecision(w)
    BY DEF Next, vars, dbVars, Handle, Receive, Fault, FindProcessed, CreateProcessed
  <2>2. ASSUME NEW w \in Workers, CreateKitchenOrder(w)
        PROVE  Step!Next
    <3>1. msg[w].order \in Orders /\ decideKitchen(msg[w]) \in Decisions
      BY <2>2, KitchenAssumption
         DEF CreateKitchenOrder, IInv, TypeOK, BusTypeOK, decideKitchen, Decisions
    <3>2. Step!Decide(msg[w].order, decideKitchen(msg[w]))
      BY <2>2 DEF CreateKitchenOrder, Step!Decide
    <3>3. QED
      BY <3>1, <3>2 DEF Step!Next
  <2>3. ASSUME NEW w \in Workers, PublishDecision(w)
        PROVE  Step!Next
    <3> DEFINE o == msg[w].order
               d == decideKitchen(msg[w])
    <3>1. /\ o \in Orders /\ d \in Decisions
          /\ kitchenOrders[o] = d /\ published[o][d] = 0
      BY <2>3, KitchenAssumption
         DEF PublishDecision, IInv, TypeOK, BusTypeOK, WriterOwnsTheOrder, Writing,
             decideKitchen, Decisions
    <3>2. published' = [published EXCEPT ![o][d] = @ + 1] /\ UNCHANGED kitchenOrders
      BY <2>3 DEF PublishDecision, PublishFails, dbVars
    <3>3. published' = [published EXCEPT ![o][d] = 1]
      BY <3>1, <3>2 DEF IInv, TypeOK
    <3>4. Step!Announce(o)
      BY <3>1, <3>2, <3>3, KitchenAssumption DEF Step!Announce
    <3>5. QED
      BY <3>1, <3>4 DEF Step!Next
  <2>4. QED
    BY <2>1, <2>2, <2>3
<1>3. QED
  BY <1>1, <1>2, KitchenInvariant, PTL DEF Spec, ImplementsSagaStep, Step!Spec

\* Only the create writes the row, so a row that is still missing was missing.
LEMMA RowsStay ==
  ASSUME IInv, [Next]_vars, NEW o \in Orders, kitchenOrders'[o] = Unwritten
  PROVE  kitchenOrders[o] = Unwritten
<1>1. CASE \E w \in Workers : CreateKitchenOrder(w)
  <2>1. PICK w \in Workers : CreateKitchenOrder(w)
    BY <1>1
  <2>2. decideKitchen(msg[w]) # Unwritten
    BY KitchenAssumption DEF decideKitchen, Decisions
  <2>3. QED
    BY <2>1, <2>2 DEF CreateKitchenOrder, IInv, TypeOK
<1>2. CASE ~(\E w \in Workers : CreateKitchenOrder(w))
  BY <1>2 DEF Next, vars, dbVars, Handle, Receive, Fault, FindProcessed, CreateProcessed,
              PublishDecision
<1>3. QED
  BY <1>1, <1>2

\* An event whose order has no row stays in the broker's custody: the callbacks
\* that settle have a row behind them, and every other step keeps what it holds.
LEMMA EventsStay ==
  ASSUME IInv, Custody, [Next]_vars,
         NEW m \in Messages, m \in sent', m.form = "valid", kitchenOrders'[m.order] = Unwritten,
         ~DroppedByAFault(m)
  PROVE  InCustody(m)' \/ DroppedByAFault(m)'
<1>1. BusTypeOK(Awaits) /\ "idle" \notin Awaits
  BY DEF IInv, TypeOK, Awaits
<1>2. kitchenOrders[m.order] = Unwritten
  BY RowsStay, KitchenAssumption
<1>3. m \in sent => InCustody(m)
  BY <1>2 DEF Custody, EventsAreInCustody
<1>4. ASSUME NEW n \in Messages, Send(n)
      PROVE  InCustody(m)'
  <2>1. CASE m \in sent
    BY <2>1, <1>1, <1>3, <1>4, FaultsKeepCustody
  <2>2. CASE m \notin sent
    BY <2>2, <1>4 DEF Send, InCustody
  <2>3. QED
    BY <2>1, <2>2
<1>5. CASE Receive
  <2>1. PICK w \in Workers, n \in Messages : Deliver(w, n, "find")
    BY <1>5 DEF Receive
  <2>2. sent' = sent /\ "find" \in Awaits
    BY <2>1 DEF Deliver, Awaits
  <2>3. QED
    BY <1>1, <1>3, <2>1, <2>2, DeliverKeepsCustody
<1>6. ASSUME NEW w \in Workers, NEW l \in Awaits \cup {"ack"}, Goto(w, l)
      PROVE  InCustody(m)'
  <2>1. l # "idle" /\ sent' = sent
    BY <1>6 DEF Awaits, Goto
  <2>2. QED
    BY <1>1, <1>3, <1>6, <2>1, GotoKeepsCustody
<1>7. ASSUME NEW w \in Workers, Settle(w), sent' = sent,
             kitchenOrders[msg[w].order] # Unwritten
      PROVE  InCustody(m)'
  BY <1>1, <1>2, <1>3, <1>7, SettleKeepsCustody
<1>8. ASSUME NEW w \in Workers, Handle(w)
      PROVE  InCustody(m)'
  <2>1. CASE FindProcessed(w)
    BY <2>1, <1>6 DEF FindProcessed, Awaits
  <2>2. CASE CreateKitchenOrder(w)
    <3>1. CASE kitchenOrders[msg[w].order] = Unwritten
      BY <2>2, <3>1, <1>6 DEF CreateKitchenOrder, Awaits
    <3>2. CASE kitchenOrders[msg[w].order] # Unwritten
      BY <2>2, <3>2, <1>7 DEF CreateKitchenOrder, Nack
    <3>3. QED
      BY <3>1, <3>2
  <2>3. CASE CreateProcessed(w)
    <3>1. msg[w].order \notin processedEvents
      BY <2>3 DEF CreateProcessed, IInv, WriterOwnsTheOrder, Writing
    <3>2. QED
      BY <2>3, <3>1, <1>6 DEF CreateProcessed, Awaits
  <2>4. CASE PublishDecision(w)
    <3>1. CASE Connected(w)
      BY <2>4, <3>1, <1>6 DEF PublishDecision, PublishFails
    <3>2. CASE ~Connected(w)
      <4>1. Settle(w) /\ sent' = sent
        BY <2>4, <3>2 DEF PublishDecision, PublishFails, Nack
      <4>2. ProcessOf[w] \in Processes /\ Restart(ProcessOf[w])
        BY <3>2, <4>1, BusAssumption DEF Settle
      <4>3. QED
        BY <1>1, <1>3, <4>1, <4>2, RestartKeepsCustody
    <3>3. QED
      BY <3>1, <3>2
  <2>5. CASE Ack(w)
    <3>1. Settle(w) /\ sent' = sent /\ kitchenOrders[msg[w].order] # Unwritten
      BY <2>5 DEF Ack, Custody, AcksFollowRows
    <3>2. QED
      BY <3>1, <1>7
  <2>6. QED
    BY <1>8, <2>1, <2>2, <2>3, <2>4, <2>5 DEF Handle
<1>9. CASE Fault
  <2>1. ASSUME NEW p \in Processes, Crash(p) \/ CloseConnection(p)
        PROVE  InCustody(m)'
    <3>1. sent' = sent
      BY <2>1 DEF Crash, CloseConnection
    <3>2. QED
      BY <1>1, <1>3, <2>1, <3>1, FaultsKeepCustody
  <2>2. ASSUME NEW w \in Workers, DatabaseFails(w, {"find", "create", "mark"})
        PROVE  InCustody(m)' \/ DroppedByAFault(m)'
    <3>1. sent' = sent /\ {"find", "create", "mark"} \in SUBSET Awaits
      BY <2>2 DEF DatabaseFails, Awaits
    <3>2. QED
      BY <1>1, <1>3, <2>2, <3>1, DatabaseFailures
  <2>3. QED
    BY <1>9, <2>1, <2>2 DEF Fault
<1>10. CASE UNCHANGED vars
  BY <1>3, <1>10 DEF vars, busVars, InCustody, Connected
<1>11. QED
  BY <1>4, <1>5, <1>8, <1>9, <1>10 DEF Next

\* An event dropped because of a fault stays dropped: faults are only added.
LEMMA DropsStay ==
  ASSUME IInv, [Next]_vars, NEW m \in Messages, DroppedByAFault(m)
  PROVE  DroppedByAFault(m)'
<1>1. BusTypeOK(Awaits) /\ "find" \in Awaits /\ {"find", "create", "mark"} \in SUBSET Awaits
  BY DEF IInv, TypeOK, Awaits
<1>2. ASSUME NEW w \in Workers, Handle(w)
      PROVE  DroppedByAFault(m)'
  <2>1. Nack(w) \/ Ack(w) \/ \E l \in Awaits \cup {"ack"} : Goto(w, l)
    BY <1>2 DEF Handle, FindProcessed, CreateKitchenOrder, CreateProcessed, PublishDecision,
                PublishFails, Awaits
  <2>2. QED
    BY <1>1, <2>1, DropsAreFinal
<1>3. CASE Receive
  BY <1>1, <1>3, DropsAreFinal DEF Receive
<1>4. CASE Fault
  BY <1>1, <1>4, DropsAreFinal DEF Fault
<1>5. ASSUME NEW n \in Messages, Send(n)
      PROVE  DroppedByAFault(m)'
  BY <1>1, <1>5, DropsAreFinal
<1>6. CASE UNCHANGED vars
  BY <1>6 DEF vars, busVars, DroppedByAFault
<1>7. QED
  BY <1>2, <1>3, <1>4, <1>5, <1>6 DEF Next

\* A callback about to ack has the order's row behind it.
LEMMA AcksStay ==
  ASSUME IInv, Custody, [Next]_vars, NEW w \in Workers, pc'[w] = "ack"
  PROVE  kitchenOrders'[msg'[w].order] # Unwritten
<1>1. BusTypeOK(Awaits)
  BY DEF IInv, TypeOK
<1>2. ASSUME pc[w] = "ack", msg'[w] = msg[w]
      PROVE  kitchenOrders'[msg'[w].order] # Unwritten
  <2>1. msg[w].order \in Orders /\ kitchenOrders[msg[w].order] # Unwritten
    BY <1>1, <1>2, KitchenAssumption DEF BusTypeOK, Custody, AcksFollowRows
  <2>2. QED
    BY <1>2, <2>1, RowsStay
<1>3. ASSUME Shrinks
      PROVE  kitchenOrders'[msg'[w].order] # Unwritten
  BY <1>2, <1>3 DEF Shrinks
<1>4. ASSUME NEW v \in Workers, NEW l \in Awaits \cup {"ack"}, Goto(v, l),
             l = "ack" => kitchenOrders[msg[v].order] # Unwritten /\ UNCHANGED kitchenOrders
      PROVE  kitchenOrders'[msg'[w].order] # Unwritten
  <2>1. CASE v = w
    BY <1>1, <1>4, <2>1 DEF Goto, BusTypeOK
  <2>2. CASE v # w
    BY <1>1, <1>2, <1>4, <2>2 DEF Goto, BusTypeOK
  <2>3. QED
    BY <2>1, <2>2
<1>5. ASSUME NEW m \in Messages, Send(m)
      PROVE  kitchenOrders'[msg'[w].order] # Unwritten
  BY <1>1, <1>3, <1>5, OtherSteps
<1>6. CASE Receive
  <2>1. PICK v \in Workers, m \in Messages : Deliver(v, m, "find")
    BY <1>6 DEF Receive
  <2>2. \/ Shrinks
        \/ pc' = [pc EXCEPT ![v] = "find"] /\ msg' = [msg EXCEPT ![v] = m]
    <3>1. "find" \in Awaits
      BY DEF Awaits
    <3>2. QED
      BY <1>1, <2>1, <3>1, DeliverFacts
  <2>3. CASE pc' = [pc EXCEPT ![v] = "find"] /\ msg' = [msg EXCEPT ![v] = m]
    <3>1. v # w
      BY <1>1, <2>3 DEF BusTypeOK
    <3>2. QED
      BY <1>1, <1>2, <2>3, <3>1 DEF BusTypeOK
  <2>4. QED
    BY <1>3, <2>2, <2>3
<1>7. ASSUME NEW v \in Workers, Handle(v)
      PROVE  kitchenOrders'[msg'[w].order] # Unwritten
  <2>1. CASE FindProcessed(v)
    <3>1. msg[v].order \in Orders
      BY <1>1, <2>1, KitchenAssumption DEF FindProcessed, BusTypeOK
    <3>2. CASE msg[v].order \in processedEvents
      BY <2>1, <3>1, <3>2, <1>4 DEF FindProcessed, dbVars, IInv, RowsComeFirst
    <3>3. CASE msg[v].order \notin processedEvents
      BY <2>1, <3>3, <1>4 DEF FindProcessed, Awaits
    <3>4. QED
      BY <3>2, <3>3
  <2>2. CASE CreateKitchenOrder(v)
    BY <1>1, <1>3, <1>4, <2>2, EndingSteps DEF CreateKitchenOrder, Awaits
  <2>3. CASE CreateProcessed(v)
    BY <1>1, <1>3, <1>4, <2>3, EndingSteps DEF CreateProcessed, Awaits
  <2>4. CASE PublishDecision(v)
    <3>1. kitchenOrders[msg[v].order] # Unwritten
      BY <2>4, KitchenAssumption
         DEF PublishDecision, IInv, WriterOwnsTheOrder, Writing, decideKitchen, Decisions
    <3>2. QED
      BY <1>1, <1>3, <1>4, <2>4, <3>1, EndingSteps DEF PublishDecision, PublishFails, dbVars
  <2>5. CASE Ack(v)
    BY <1>1, <1>3, <2>5, EndingSteps
  <2>6. QED
    BY <1>7, <2>1, <2>2, <2>3, <2>4, <2>5 DEF Handle
<1>8. CASE Fault
  <2>1. ASSUME NEW v \in Workers, DatabaseFails(v, {"find", "create", "mark"})
        PROVE  Shrinks
    <3>1. {"find", "create", "mark"} \in SUBSET Awaits /\ "idle" \notin {"find", "create", "mark"}
      BY DEF Awaits
    <3>2. QED
      BY <1>1, <2>1, <3>1, EndingSteps
  <2>2. QED
    BY <1>1, <1>3, <1>8, <2>1, EndingSteps DEF Fault
<1>9. CASE UNCHANGED vars
  BY <1>2, <1>9 DEF vars, busVars
<1>10. QED
  BY <1>5, <1>6, <1>7, <1>8, <1>9 DEF Next

\* No order.created is lost, however many replicas die or lose their connection
\* while they hold it, but for those a failed database call drops.
THEOREM KitchenLosesNoOrder == Spec => []NoOrderIsLost
<1>1. Init => Custody
  BY DEF Init, BusInit, Custody, EventsAreInCustody, AcksFollowRows
<1>2. IInv /\ Custody /\ [Next]_vars => Custody'
  <2> SUFFICES ASSUME IInv, Custody, [Next]_vars PROVE Custody'
    OBVIOUS
  <2>1. sent' \in SUBSET Messages
    BY NextIInv DEF IInv, TypeOK, BusTypeOK
  <2>2. EventsAreInCustody'
    BY <2>1, EventsStay, DropsStay DEF EventsAreInCustody
  <2>3. AcksFollowRows'
    BY AcksStay DEF AcksFollowRows
  <2>4. QED
    BY <2>2, <2>3 DEF Custody
<1>3. IInv /\ Custody => NoOrderIsLost
  BY DEF IInv, TypeOK, BusTypeOK, Custody, EventsAreInCustody, InCustody, NoOrderIsLost, Pending
<1>4. QED
  BY <1>1, <1>2, <1>3, KitchenInvariant, PTL DEF Spec
=============================================================================

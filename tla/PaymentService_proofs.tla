----------------------- MODULE PaymentService_proofs ------------------------
(***************************************************************************)
(* Theorems about the payment service, for any number of orders, events,   *)
(* replicas, callbacks and faults.  IInv is inductive; ChargedOnce,        *)
(* RefundsFollowCharges, RefundIsFinal and the refinement of SagaStep      *)
(* follow from it.                                                         *)
(***************************************************************************)
EXTENDS PaymentService, EventBus_proofs

\* The awaits whose place in a handler says something about the tables.
Loaded == ChargeAwaits \cup {"refund", "publishRefund"}

\* Nothing but the bus moves, and no callback arrives at a loaded await.
LEMMA QuietSteps ==
  ASSUME IInv, BusTypeOK(Awaits)', UNCHANGED serviceVars,
         \A w \in Workers : pc'[w] \in Loaded => pc'[w] = pc[w] /\ msg'[w] = msg[w]
  PROVE  IInv'
<1>1. TypeOK'
  BY DEF IInv, TypeOK, serviceVars
<1>2. HandlersKnowTheirEvent'
  BY DEF IInv, HandlersKnowTheirEvent, serviceVars, Loaded
<1>3. WriterOwnsTheOrder'
  <2>1. \A w \in Workers : Writing(w)' => Writing(w) /\ pc'[w] = pc[w] /\ msg'[w] = msg[w]
    BY DEF Writing, Loaded, ChargeAwaits
  <2>2. \A w \in Workers : Writing(w)' => Charge(w)' = Charge(w)
    BY <2>1 DEF Charge
  <2>3. QED
    BY <2>1, <2>2 DEF IInv, WriterOwnsTheOrder, Writing, serviceVars
<1>4. RowsComeFirst' /\ RefundsFollowCharges'
  BY DEF IInv, RowsComeFirst, RefundsFollowCharges, serviceVars
<1>5. QED
  BY <1>1, <1>2, <1>3, <1>4 DEF IInv

\* Steps of the bus that only end callbacks leave the invariant as it is.
LEMMA ShrinkingSteps ==
  ASSUME IInv, BusTypeOK(Awaits)', Shrinks, UNCHANGED serviceVars
  PROVE  IInv'
<1>1. \A w \in Workers : pc'[w] \in Loaded => pc'[w] = pc[w] /\ msg'[w] = msg[w]
  BY DEF Shrinks, Loaded, ChargeAwaits
<1>2. QED
  BY <1>1, QuietSteps

\* A drop of the message leaves the invariant as it is.
LEMMA QuietNack ==
  ASSUME IInv, NEW w \in Workers, pc[w] # "idle", Nack(w), UNCHANGED serviceVars
  PROVE  IInv'
BY EndingSteps, ShrinkingSteps DEF IInv, TypeOK

\* A callback that goes to an await with nothing loaded, and writes nothing.
LEMMA QuietGoto ==
  ASSUME IInv, NEW w \in Workers, pc[w] # "idle",
         NEW l \in {"ack", "read", "markRefund"}, Goto(w, l), UNCHANGED serviceVars
  PROVE  IInv'
<1>1. BusTypeOK(Awaits)'
  BY OtherSteps DEF IInv, TypeOK, Awaits, RefundAwaits
<1>2. \A v \in Workers : pc'[v] \in Loaded => pc'[v] = pc[v] /\ msg'[v] = msg[v]
  BY DEF Goto, Loaded, ChargeAwaits, IInv, TypeOK, BusTypeOK
<1>3. QED
  BY <1>1, <1>2, QuietSteps

\* The service starts with empty tables and no callback running.
LEMMA InitIInv == Init => IInv
<1> SUFFICES ASSUME Init PROVE IInv
  OBVIOUS
<1>1. TypeOK
  BY BusAssumption, PaymentAssumption DEF Init, BusInit, TypeOK, BusTypeOK
<1>2. HandlersKnowTheirEvent /\ WriterOwnsTheOrder
  BY DEF Init, BusInit, HandlersKnowTheirEvent, ChargeAwaits, WriterOwnsTheOrder, Writing
<1>3. RowsComeFirst /\ RefundsFollowCharges
  BY PaymentAssumption DEF Init, RowsComeFirst, RefundsFollowCharges, Outcomes
<1>4. QED
  BY <1>1, <1>2, <1>3 DEF IInv

\* What every handler step knows of the event it works on.
LEMMA Holding ==
  ASSUME IInv, NEW w \in Workers, pc[w] # "idle"
  PROVE  /\ msg[w] \in Messages /\ msg[w].order \in Orders
         /\ pc[w] \in ChargeAwaits => processPayment(msg[w]) = "SUCCEEDED"
<1>1. msg[w] \in Messages
  BY DEF IInv, TypeOK, BusTypeOK
<1>2. ASSUME pc[w] \in ChargeAwaits
      PROVE  processPayment(msg[w]) = "SUCCEEDED"
  <2>1. msg[w].total \in Int /\ msg[w].total > 0
    BY <1>1, <1>2, PaymentAssumption DEF IInv, HandlersKnowTheirEvent
  <2>2. QED
    BY <2>1 DEF processPayment
<1>3. QED
  BY <1>1, <1>2, PaymentAssumption

\* The guard of the charge: only an event without a record goes on to the create.
LEMMA FindChargeStep ==
  ASSUME IInv, NEW w \in Workers, FindCharge(w)
  PROVE  IInv'
<1>1. pc[w] = "find" /\ UNCHANGED serviceVars
  BY DEF FindCharge
<1>2. CASE Charge(w) \in processedEvents
  BY <1>1, <1>2, QuietGoto DEF FindCharge
<1>3. CASE Charge(w) \notin processedEvents
  <2>1. Goto(w, "create")
    BY <1>3 DEF FindCharge
  <2>2. BusTypeOK(Awaits)' /\ TypeOK'
    BY <1>1, <2>1, OtherSteps DEF IInv, TypeOK, Awaits, ChargeAwaits, serviceVars
  <2>3. HandlersKnowTheirEvent'
    BY <1>1, <2>1
       DEF Goto, IInv, TypeOK, BusTypeOK, HandlersKnowTheirEvent, serviceVars, ChargeAwaits
  <2>4. \A v \in Workers : Writing(v)' => Writing(v) /\ pc'[v] = pc[v] /\ msg'[v] = msg[v]
    BY <1>1, <2>1 DEF Goto, Writing, IInv, TypeOK, BusTypeOK
  <2>5. WriterOwnsTheOrder'
    BY <1>1, <2>4 DEF IInv, WriterOwnsTheOrder, Writing, Charge, serviceVars
  <2>6. RowsComeFirst' /\ RefundsFollowCharges'
    BY <1>1 DEF IInv, RowsComeFirst, RefundsFollowCharges, serviceVars
  <2>7. QED
    BY <2>2, <2>3, <2>5, <2>6 DEF IInv
<1>4. QED
  BY <1>2, <1>3

\* The create of the row makes its callback the order's writer: the row was
\* missing, so no other callback was writing or refunding, and nothing was out.
LEMMA CreateStep ==
  ASSUME IInv, NEW w \in Workers, CreatePayment(w)
  PROVE  IInv'
<1> DEFINE o == msg[w].order
<1>1. /\ msg[w] \in Messages /\ o \in Orders /\ pc[w] = "create"
      /\ processPayment(msg[w]) = "SUCCEEDED"
  BY Holding DEF CreatePayment, ChargeAwaits
<1>2. CASE payments[o] # Unwritten
  BY <1>1, <1>2, QuietNack DEF CreatePayment, serviceVars, outVars
<1>3. CASE payments[o] = Unwritten
  <2>1. /\ payments' = [payments EXCEPT ![o] = "SUCCEEDED"]
        /\ Goto(w, "mark")
        /\ UNCHANGED <<processedEvents, published, refunds>>
    BY <1>1, <1>3 DEF CreatePayment, outVars
  <2>2. TypeOK'
    BY <1>1, <2>1, OtherSteps DEF IInv, TypeOK, Awaits, ChargeAwaits, Outcomes
  <2>3. "SUCCEEDED" # Unwritten /\ "REFUNDED" # Unwritten
    BY PaymentAssumption DEF Outcomes
  <2>4. HandlersKnowTheirEvent'
    BY <1>1, <1>3, <2>1, <2>3
       DEF Goto, IInv, TypeOK, BusTypeOK, HandlersKnowTheirEvent, ChargeAwaits
  <2>5. \A v \in Workers : Writing(v) => msg[v].order # o /\ v # w
    BY <1>1, <1>3, <2>3 DEF IInv, WriterOwnsTheOrder, Writing
  <2>6. <<"charge", o>> \notin processedEvents /\ \A s \in Outcomes : published[o][s] = 0
    BY <1>1, <1>3, <2>3 DEF IInv, TypeOK, RowsComeFirst, RefundsFollowCharges, Outcomes
  <2>7. \A v \in Workers : Writing(v)' <=> Writing(v) \/ v = w
    BY <2>1 DEF Goto, Writing, IInv, TypeOK, BusTypeOK
  <2>8. msg' = msg /\ \A v \in Workers : v # w => pc'[v] = pc[v]
    BY <2>1 DEF Goto, IInv, TypeOK, BusTypeOK
  <2>9. WriterOwnsTheOrder'
    <3> SUFFICES ASSUME NEW v \in Workers, Writing(v)'
                 PROVE  /\ payments'[msg'[v].order] \in {"SUCCEEDED", "REFUNDED"}
                        /\ \A s \in Outcomes : published'[msg'[v].order][s] = 0
                        /\ pc'[v] = "mark" <=> <<"charge", msg'[v].order>> \notin processedEvents'
                        /\ \A u \in Workers :
                             Writing(u)' /\ msg'[u].order = msg'[v].order => u = v
      BY DEF WriterOwnsTheOrder, Charge
    <3>1. CASE v = w
      BY <3>1, <1>1, <2>1, <2>5, <2>6, <2>7, <2>8 DEF Goto, IInv, TypeOK, BusTypeOK
    <3>2. CASE v # w
      BY <3>2, <1>1, <2>1, <2>5, <2>7, <2>8
         DEF IInv, TypeOK, WriterOwnsTheOrder, Charge
    <3>3. QED
      BY <3>1, <3>2
  <2>10. RowsComeFirst' /\ RefundsFollowCharges'
    BY <1>1, <1>3, <2>1, <2>3, <2>6 DEF IInv, TypeOK, RowsComeFirst, RefundsFollowCharges, Outcomes
  <2>11. QED
    BY <2>2, <2>4, <2>9, <2>10 DEF IInv
<1>4. QED
  BY <1>2, <1>3

\* The record of the charge is written by the order's only writer.
LEMMA MarkChargeStep ==
  ASSUME IInv, NEW w \in Workers, MarkCharge(w)
  PROVE  IInv'
<1> DEFINE o == msg[w].order
<1>1. /\ msg[w] \in Messages /\ o \in Orders /\ pc[w] = "mark" /\ Writing(w)
      /\ Charge(w) = <<"charge", o>> /\ Charge(w) \notin processedEvents
  BY Holding DEF MarkCharge, IInv, WriterOwnsTheOrder, Writing, Charge
<1>2. /\ processedEvents' = processedEvents \cup {<<"charge", o>>}
      /\ Goto(w, "publish")
      /\ UNCHANGED <<payments, published, refunds>>
  BY <1>1 DEF MarkCharge, outVars
<1>3. TypeOK'
  BY <1>1, <1>2, OtherSteps DEF IInv, TypeOK, Awaits, ChargeAwaits
<1>4. HandlersKnowTheirEvent'
  BY <1>1, <1>2
     DEF Goto, IInv, TypeOK, BusTypeOK, HandlersKnowTheirEvent, ChargeAwaits
<1>5. \A v \in Workers : Writing(v)' <=> Writing(v)
  BY <1>1, <1>2 DEF Goto, Writing, IInv, TypeOK, BusTypeOK
<1>6. \A v \in Workers : Writing(v) /\ v # w => msg[v].order # o
  BY <1>1 DEF IInv, WriterOwnsTheOrder
<1>7. WriterOwnsTheOrder'
  BY <1>1, <1>2, <1>5, <1>6
     DEF Goto, IInv, TypeOK, BusTypeOK, WriterOwnsTheOrder, Writing, Charge
<1>8. payments[o] # Unwritten
  BY <1>1, PaymentAssumption DEF IInv, WriterOwnsTheOrder, Outcomes
<1>9. RowsComeFirst' /\ RefundsFollowCharges'
  BY <1>1, <1>2, <1>8 DEF IInv, RowsComeFirst, RefundsFollowCharges
<1>10. QED
  BY <1>3, <1>4, <1>7, <1>9 DEF IInv

\* The only writer of the order announces its success, for the first time.
LEMMA PublishStep ==
  ASSUME IInv, NEW w \in Workers, PublishOutcome(w)
  PROVE  IInv'
<1> DEFINE o == msg[w].order
<1>1. /\ msg[w] \in Messages /\ o \in Orders /\ pc[w] = "publish" /\ Writing(w)
      /\ processPayment(msg[w]) = "SUCCEEDED"
  BY Holding DEF PublishOutcome, Writing, ChargeAwaits
<1>2. CASE ~Connected(w)
  <2>1. Nack(w) /\ UNCHANGED serviceVars
    BY <1>2 DEF PublishOutcome, PublishFails, serviceVars, dbVars, outVars
  <2>2. QED
    BY <1>1, <2>1, QuietNack
<1>3. CASE Connected(w)
  <2>1. /\ published' = [published EXCEPT ![o]["SUCCEEDED"] = @ + 1]
        /\ Goto(w, "ack")
        /\ UNCHANGED <<payments, processedEvents>>
    BY <1>1, <1>3 DEF PublishOutcome, PublishFails, dbVars
  <2>2. refunds' = refunds
    BY <1>1, <1>3 DEF PublishOutcome, PublishFails, IInv, TypeOK
  <2>3. TypeOK'
    BY <1>1, <2>1, <2>2, OtherSteps DEF IInv, TypeOK, Outcomes
  <2>4. HandlersKnowTheirEvent'
    BY <1>1, <2>1
       DEF Goto, IInv, TypeOK, BusTypeOK, HandlersKnowTheirEvent, ChargeAwaits
  <2>5. \A v \in Workers : Writing(v)' <=> Writing(v) /\ v # w
    BY <1>1, <2>1 DEF Goto, Writing, IInv, TypeOK, BusTypeOK
  <2>6. \A v \in Workers : Writing(v) /\ v # w => msg[v].order # o
    BY <1>1 DEF IInv, WriterOwnsTheOrder
  <2>7. \A p \in Orders : p # o => published'[p] = published[p]
    BY <1>1, <2>1 DEF IInv, TypeOK
  <2>8. WriterOwnsTheOrder'
    BY <1>1, <2>1, <2>5, <2>6, <2>7, PaymentAssumption
       DEF Goto, IInv, TypeOK, BusTypeOK, WriterOwnsTheOrder, Writing, Charge
  <2>9. /\ published[o]["SUCCEEDED"] = 0 /\ payments[o] \in {"SUCCEEDED", "REFUNDED"}
        /\ published'[o]["SUCCEEDED"] = 1
        /\ published'[o]["FAILED"] = published[o]["FAILED"]
    BY <1>1, <2>1 DEF IInv, TypeOK, WriterOwnsTheOrder, Outcomes
  <2>10. RowsComeFirst' /\ RefundsFollowCharges'
    BY <1>1, <2>1, <2>2, <2>7, <2>9 DEF IInv, RowsComeFirst, RefundsFollowCharges
  <2>11. QED
    BY <2>3, <2>4, <2>8, <2>10 DEF IInv
<1>4. QED
  BY <1>2, <1>3

\* The refund goes on to the update only for a payment that exists.
LEMMA ReadStep ==
  ASSUME IInv, NEW w \in Workers, ReadPayment(w)
  PROVE  IInv'
<1> DEFINE o == msg[w].order
<1>1. pc[w] = "read" /\ UNCHANGED serviceVars
  BY DEF ReadPayment
<1>2. CASE payments[o] = Unwritten
  BY <1>1, <1>2, QuietGoto DEF ReadPayment
<1>3. CASE payments[o] # Unwritten
  <2>1. Goto(w, "refund")
    BY <1>3 DEF ReadPayment
  <2>2. BusTypeOK(Awaits)' /\ TypeOK'
    BY <1>1, <2>1, OtherSteps DEF IInv, TypeOK, Awaits, RefundAwaits, serviceVars
  <2>3. HandlersKnowTheirEvent'
    BY <1>1, <1>3, <2>1
       DEF Goto, IInv, TypeOK, BusTypeOK, HandlersKnowTheirEvent, serviceVars, ChargeAwaits
  <2>4. \A v \in Workers : Writing(v)' => Writing(v) /\ pc'[v] = pc[v] /\ msg'[v] = msg[v]
    BY <1>1, <2>1 DEF Goto, Writing, IInv, TypeOK, BusTypeOK
  <2>5. WriterOwnsTheOrder'
    BY <1>1, <2>4 DEF IInv, WriterOwnsTheOrder, Writing, Charge, serviceVars
  <2>6. RowsComeFirst' /\ RefundsFollowCharges'
    BY <1>1 DEF IInv, RowsComeFirst, RefundsFollowCharges, serviceVars
  <2>7. QED
    BY <2>2, <2>3, <2>5, <2>6 DEF IInv
<1>4. QED
  BY <1>2, <1>3

\* Refunding a row that exists: a charge that is between its create and its publish
\* is overtaken, and stays the order's writer.
LEMMA RefundStep ==
  ASSUME IInv, NEW w \in Workers, RefundPayment(w)
  PROVE  IInv'
<1> DEFINE o == msg[w].order
<1>1. msg[w] \in Messages /\ o \in Orders /\ pc[w] = "refund"
  BY Holding DEF RefundPayment
<1>2. /\ payments' = [payments EXCEPT ![o] = "REFUNDED"]
      /\ Goto(w, "publishRefund")
      /\ UNCHANGED <<processedEvents, published, refunds>>
  BY DEF RefundPayment, outVars
<1>3. TypeOK'
  BY <1>1, <1>2, OtherSteps DEF IInv, TypeOK, Awaits, RefundAwaits
<1>4. "REFUNDED" # Unwritten
  BY PaymentAssumption
<1>5. HandlersKnowTheirEvent'
  BY <1>1, <1>2, <1>4
     DEF Goto, IInv, TypeOK, BusTypeOK, HandlersKnowTheirEvent, ChargeAwaits
<1>6. \A v \in Workers : Writing(v)' <=> Writing(v) /\ pc'[v] = pc[v]
  BY <1>1, <1>2 DEF Goto, Writing, IInv, TypeOK, BusTypeOK
<1>7. WriterOwnsTheOrder'
  BY <1>1, <1>2, <1>6 DEF Goto, IInv, TypeOK, BusTypeOK, WriterOwnsTheOrder, Writing, Charge
<1>8. RowsComeFirst' /\ RefundsFollowCharges'
  BY <1>1, <1>2, <1>4 DEF IInv, TypeOK, RowsComeFirst, RefundsFollowCharges
<1>9. QED
  BY <1>3, <1>5, <1>7, <1>8 DEF IInv

\* The refund is announced for a payment that stays REFUNDED.
LEMMA PublishRefundStep ==
  ASSUME IInv, NEW w \in Workers, PublishRefund(w)
  PROVE  IInv'
<1> DEFINE o == msg[w].order
<1>1. msg[w] \in Messages /\ o \in Orders /\ pc[w] = "publishRefund"
  BY Holding DEF PublishRefund
<1>2. CASE ~Connected(w)
  <2>1. Nack(w) /\ UNCHANGED serviceVars
    BY <1>2 DEF PublishRefund, PublishFails, serviceVars, dbVars
  <2>2. QED
    BY <1>1, <2>1, QuietNack
<1>3. CASE Connected(w)
  <2>1. /\ refunds' = [refunds EXCEPT ![o] = @ + 1]
        /\ Goto(w, "markRefund")
        /\ UNCHANGED <<payments, processedEvents, published>>
    BY <1>3 DEF PublishRefund, PublishFails, dbVars
  <2>2. TypeOK'
    BY <1>1, <2>1, OtherSteps DEF IInv, TypeOK, Awaits, RefundAwaits
  <2>3. HandlersKnowTheirEvent'
    BY <1>1, <2>1 DEF Goto, IInv, TypeOK, BusTypeOK, HandlersKnowTheirEvent, ChargeAwaits
  <2>4. \A v \in Workers : Writing(v)' => Writing(v) /\ pc'[v] = pc[v] /\ msg'[v] = msg[v]
    BY <1>1, <2>1 DEF Goto, Writing, IInv, TypeOK, BusTypeOK
  <2>5. WriterOwnsTheOrder'
    BY <2>1, <2>4 DEF IInv, WriterOwnsTheOrder, Writing, Charge
  <2>6. payments[o] = "REFUNDED"
    BY <1>1 DEF IInv, HandlersKnowTheirEvent
  <2>7. RowsComeFirst' /\ RefundsFollowCharges'
    BY <1>1, <2>1, <2>6 DEF IInv, TypeOK, RowsComeFirst, RefundsFollowCharges
  <2>8. QED
    BY <2>2, <2>3, <2>5, <2>7 DEF IInv
<1>4. QED
  BY <1>2, <1>3

\* The record of the refund touches no payment; a duplicate throws and drops the event.
LEMMA MarkRefundStep ==
  ASSUME IInv, NEW w \in Workers, MarkRefund(w)
  PROVE  IInv'
<1> DEFINE o == msg[w].order
<1>1. /\ msg[w] \in Messages /\ o \in Orders /\ pc[w] = "markRefund"
      /\ Refund(w) = <<"refund", o>>
  BY Holding DEF MarkRefund, Refund
<1>2. CASE Refund(w) \in processedEvents
  BY <1>1, <1>2, QuietNack DEF MarkRefund, serviceVars, outVars
<1>3. CASE Refund(w) \notin processedEvents
  <2>1. /\ processedEvents' = processedEvents \cup {<<"refund", o>>}
        /\ Goto(w, "ack")
        /\ UNCHANGED <<payments, published, refunds>>
    BY <1>1, <1>3 DEF MarkRefund, outVars
  <2>2. TypeOK'
    BY <1>1, <2>1, OtherSteps DEF IInv, TypeOK
  <2>3. HandlersKnowTheirEvent'
    BY <1>1, <2>1 DEF Goto, IInv, TypeOK, BusTypeOK, HandlersKnowTheirEvent, ChargeAwaits
  <2>4. \A v \in Workers : Writing(v)' => Writing(v) /\ pc'[v] = pc[v] /\ msg'[v] = msg[v]
    BY <1>1, <2>1 DEF Goto, Writing, IInv, TypeOK, BusTypeOK
  <2>5. \A q \in Orders : <<"charge", q>> \in processedEvents' <=> <<"charge", q>> \in processedEvents
    BY <2>1
  <2>6. \A v \in Workers : Writing(v) => msg[v].order \in Orders
    BY Holding DEF Writing
  <2>7. WriterOwnsTheOrder'
    BY <2>1, <2>4, <2>5, <2>6 DEF IInv, WriterOwnsTheOrder, Writing, Charge
  <2>8. RowsComeFirst' /\ RefundsFollowCharges'
    BY <2>1, <2>5 DEF IInv, RowsComeFirst, RefundsFollowCharges
  <2>9. QED
    BY <2>2, <2>3, <2>7, <2>8 DEF IInv
<1>4. QED
  BY <1>2, <1>3

\* A callback that starts has only its event to know about.
LEMMA ReceiveStep ==
  ASSUME IInv, NEW w \in Workers, NEW m \in Messages, Deliver(w, m, Entry(m)),
         UNCHANGED serviceVars
  PROVE  IInv'
<1>1. BusTypeOK(Awaits) /\ Entry(m) \in Awaits /\ Entry(m) \in {"find", "findRefund"}
  BY DEF IInv, TypeOK, Entry, Awaits, ChargeAwaits, RefundAwaits
<1>2. /\ BusTypeOK(Awaits)'
      /\ \/ Shrinks
         \/ pc' = [pc EXCEPT ![w] = Entry(m)] /\ msg' = [msg EXCEPT ![w] = m]
  BY <1>1, DeliverFacts
<1>3. CASE Shrinks
  BY <1>2, <1>3, ShrinkingSteps
<1>4. CASE /\ pc' = [pc EXCEPT ![w] = Entry(m)] /\ msg' = [msg EXCEPT ![w] = m]
           /\ ~Shrinks
  <2>1. m.form = "valid"
    <3>1. CASE m.form = "garbled"
      <4>1. ProcessOf[w] \in Processes /\ Restart(ProcessOf[w])
        BY <3>1, BusAssumption DEF Deliver
      <4>2. QED
        BY <1>1, <1>4, <4>1, RestartFacts
    <3>2. CASE m.form = "invalid"
      BY <1>4, <3>2 DEF Deliver, Shrinks
    <3>3. QED
      BY <3>1, <3>2, BusAssumption DEF Forms
  <2>2. HandlersKnowTheirEvent'
    BY <1>1, <1>4, <2>1
       DEF IInv, TypeOK, BusTypeOK, HandlersKnowTheirEvent, Entry, serviceVars, ChargeAwaits
  <2>3. \A v \in Workers : Writing(v)' => Writing(v) /\ pc'[v] = pc[v] /\ msg'[v] = msg[v]
    BY <1>1, <1>4 DEF Writing, IInv, TypeOK, BusTypeOK
  <2>4. WriterOwnsTheOrder'
    BY <2>3 DEF IInv, WriterOwnsTheOrder, Writing, Charge, serviceVars
  <2>5. TypeOK' /\ RowsComeFirst' /\ RefundsFollowCharges'
    BY <1>2 DEF IInv, TypeOK, RowsComeFirst, RefundsFollowCharges, serviceVars
  <2>6. QED
    BY <2>2, <2>4, <2>5 DEF IInv
<1>5. QED
  BY <1>2, <1>3, <1>4

\* No step of the service, its broker or its database breaks the invariant.
LEMMA NextIInv == IInv /\ [Next]_vars => IInv'
<1> SUFFICES ASSUME IInv, [Next]_vars PROVE IInv'
  OBVIOUS
<1>1. ASSUME NEW m \in Messages, Send(m), UNCHANGED serviceVars
      PROVE  IInv'
  BY <1>1, OtherSteps, ShrinkingSteps DEF IInv, TypeOK
<1>2. CASE Receive
  BY <1>2, ReceiveStep DEF Receive
<1>3. ASSUME NEW w \in Workers, Handle(w)
      PROVE  IInv'
  <2>1. CASE FindRefund(w)
    BY <2>1, QuietGoto DEF FindRefund
  <2>2. CASE Ack(w) /\ UNCHANGED serviceVars
    BY <2>2, EndingSteps, ShrinkingSteps DEF IInv, TypeOK
  <2>3. QED
    BY <1>3, <2>1, <2>2, FindChargeStep, CreateStep, MarkChargeStep, PublishStep,
       ReadStep, RefundStep, PublishRefundStep, MarkRefundStep DEF Handle
<1>4. CASE Fault
  <2>1. UNCHANGED serviceVars
    BY <1>4 DEF Fault
  <2>2. ASSUME NEW p \in Processes, Crash(p) \/ CloseConnection(p)
        PROVE  IInv'
    BY <2>1, <2>2, EndingSteps, ShrinkingSteps DEF IInv, TypeOK
  <2>3. ASSUME NEW w \in Workers, DatabaseFails(w, Awaits \ {"publish", "publishRefund"})
        PROVE  IInv'
    <3>1. "idle" \notin Awaits
      BY DEF Awaits, ChargeAwaits, RefundAwaits
    <3>2. QED
      BY <2>1, <2>3, <3>1, EndingSteps, ShrinkingSteps DEF IInv, TypeOK
  <2>4. QED
    BY <1>4, <2>2, <2>3 DEF Fault
<1>5. CASE UNCHANGED vars
  <2>1. UNCHANGED serviceVars /\ Shrinks
    BY <1>5 DEF vars, serviceVars, busVars, Shrinks
  <2>2. BusTypeOK(Awaits)'
    BY <1>5 DEF vars, busVars, BusTypeOK, IInv, TypeOK
  <2>3. QED
    BY <2>1, <2>2, ShrinkingSteps
<1>6. QED
  BY <1>1, <1>2, <1>3, <1>4, <1>5 DEF Next

\* The payment service's state is always well typed and its writer discipline holds.
THEOREM PaymentInvariant == Spec => []IInv
BY InitIInv, NextIInv, PTL DEF Spec

\* However many replicas, copies, cancellations, crashes and closed connections: at
\* most one outcome per order is announced, and a success for a charged row.
THEOREM PaymentChargesOnce == Spec => []ChargedOnce
<1>1. IInv => ChargedOnce
  <2> SUFFICES ASSUME IInv, NEW o \in Orders
               PROVE  /\ Announcements(o) <= 1
                      /\ published[o]["SUCCEEDED"] > 0 => payments[o] \in {"SUCCEEDED", "REFUNDED"}
    BY DEF ChargedOnce
  <2>1. published[o]["SUCCEEDED"] \in Nat /\ published[o]["FAILED"] = 0
    BY DEF IInv, TypeOK, RefundsFollowCharges, Outcomes
  <2>2. published[o]["SUCCEEDED"] > 0 =>
          payments[o] \in {"SUCCEEDED", "REFUNDED"} /\ published[o]["SUCCEEDED"] = 1
    BY DEF IInv, RowsComeFirst
  <2>3. Announcements(o) <= 1
    BY <2>1, <2>2 DEF Announcements
  <2>4. QED
    BY <2>2, <2>3
<1>2. QED
  BY <1>1, PaymentInvariant, PTL

\* A refund is only announced for a payment marked REFUNDED, and the failed-payment
\* branch is never taken.
THEOREM RefundsNeedCharges == Spec => []RefundsFollowCharges
<1>1. IInv => RefundsFollowCharges
  BY DEF IInv
<1>2. QED
  BY <1>1, PaymentInvariant, PTL

\* A refunded payment stays refunded.
THEOREM RefundsAreFinal == Spec => RefundIsFinal
<1>1. IInv /\ [Next]_vars =>
        [\A o \in Orders : payments[o] = "REFUNDED" => payments'[o] = "REFUNDED"]_vars
  <2> SUFFICES ASSUME IInv, Next, NEW o \in Orders, payments[o] = "REFUNDED"
               PROVE  payments'[o] = "REFUNDED"
    OBVIOUS
  <2>1. CASE \E w \in Workers : CreatePayment(w)
    BY <2>1, PaymentAssumption DEF CreatePayment, IInv, TypeOK
  <2>2. CASE \E w \in Workers : RefundPayment(w)
    BY <2>2 DEF RefundPayment, IInv, TypeOK
  <2>3. CASE UNCHANGED payments
    BY <2>3
  <2>4. QED
    BY <2>1, <2>2, <2>3
       DEF Next, Handle, Receive, Fault, serviceVars, dbVars, FindCharge, MarkCharge,
           PublishOutcome, FindRefund, ReadPayment, PublishRefund, MarkRefund
<1>2. QED
  BY <1>1, PaymentInvariant, PTL DEF Spec, RefundIsFinal

\* Charging implements the abstract saga step.
THEOREM PaymentImplementsSagaStep == Spec => ImplementsSagaStep
<1> DEFINE outcome == [o \in Orders |-> IF payments[o] = "REFUNDED" THEN "SUCCEEDED" ELSE payments[o]]
<1>1. Init => Step!Init
  BY PaymentAssumption DEF Init, Step!Init
<1>2. IInv /\ IInv' /\ [Next]_vars => [Step!Next]_<<outcome, published>>
  <2> SUFFICES ASSUME IInv, IInv', [Next]_vars
               PROVE  Step!Next \/ UNCHANGED <<outcome, published>>
    OBVIOUS
  <2>1. ASSUME NEW w \in Workers, CreatePayment(w)
        PROVE  Step!Next \/ UNCHANGED <<outcome, published>>
    <3> DEFINE o == msg[w].order
    <3>1. /\ o \in Orders /\ processPayment(msg[w]) = "SUCCEEDED"
          /\ UNCHANGED published
      BY <2>1, Holding DEF CreatePayment, ChargeAwaits, outVars
    <3>2. CASE payments[o] # Unwritten
      BY <2>1, <3>1, <3>2 DEF CreatePayment
    <3>3. CASE payments[o] = Unwritten
      <4>1. payments' = [payments EXCEPT ![o] = "SUCCEEDED"]
        BY <2>1, <3>1, <3>3 DEF CreatePayment
      <4>2. outcome' = [outcome EXCEPT ![o] = "SUCCEEDED"] /\ outcome[o] = Unwritten
        BY <3>1, <3>3, <4>1, PaymentAssumption DEF IInv, TypeOK
      <4>3. Step!Decide(o, "SUCCEEDED")
        BY <3>1, <4>2 DEF Step!Decide
      <4>4. QED
        BY <3>1, <4>3 DEF Step!Next, Outcomes
    <3>4. QED
      BY <3>2, <3>3
  <2>2. ASSUME NEW w \in Workers, PublishOutcome(w)
        PROVE  Step!Next \/ UNCHANGED <<outcome, published>>
    <3> DEFINE o == msg[w].order
    <3>1. /\ o \in Orders /\ processPayment(msg[w]) = "SUCCEEDED" /\ UNCHANGED payments
          /\ pc[w] = "publish"
      BY <2>2, Holding DEF PublishOutcome, ChargeAwaits, dbVars
    <3>2. CASE UNCHANGED published
      BY <3>1, <3>2
    <3>3. CASE published' = [published EXCEPT ![o]["SUCCEEDED"] = @ + 1]
      <4>1. published[o]["SUCCEEDED"] = 0 /\ outcome[o] = "SUCCEEDED"
        BY <3>1 DEF IInv, WriterOwnsTheOrder, Writing, Outcomes
      <4>2. published' = [published EXCEPT ![o]["SUCCEEDED"] = 1]
        BY <3>1, <3>3, <4>1 DEF IInv, TypeOK
      <4>3. UNCHANGED outcome
        BY <3>1
      <4>4. Step!Announce(o)
        BY <3>1, <4>1, <4>2, <4>3, PaymentAssumption DEF Step!Announce, Outcomes
      <4>5. QED
        BY <3>1, <4>4 DEF Step!Next
    <3>4. QED
      BY <2>2, <3>1, <3>2, <3>3 DEF PublishOutcome, outVars
  <2>3. ASSUME NEW w \in Workers, RefundPayment(w)
        PROVE  UNCHANGED <<outcome, published>>
    <3> DEFINE o == msg[w].order
    <3>1. /\ o \in Orders /\ payments' = [payments EXCEPT ![o] = "REFUNDED"]
          /\ UNCHANGED published /\ pc[w] = "refund"
      BY <2>3, Holding DEF RefundPayment, outVars
    <3>2. payments[o] \in {"SUCCEEDED", "REFUNDED"}
      BY <3>1 DEF IInv, TypeOK, HandlersKnowTheirEvent, RefundsFollowCharges, Outcomes
    <3>3. outcome' = outcome
      BY <3>1, <3>2 DEF IInv, TypeOK
    <3>4. QED
      BY <3>1, <3>3
  <2>4. CASE UNCHANGED <<payments, published>>
    BY <2>4
  <2>5. QED
    BY <2>1, <2>2, <2>3, <2>4
       DEF Next, vars, Handle, Receive, Fault, serviceVars, dbVars, outVars, FindCharge,
           MarkCharge, FindRefund, ReadPayment, PublishRefund, MarkRefund
<1>3. QED
  BY <1>1, <1>2, PaymentInvariant, PTL DEF Spec, ImplementsSagaStep, Step!Spec
-----------------------------------------------------------------------------
(***************************************************************************)
(* Refunds announced twice.  Past its check a callback stays on its order, *)
(* and the check lets nobody past once the marker is there.                *)
(***************************************************************************)

PastTheCheck == {"read", "refund", "publishRefund"}

\* A callback's step: it ends, or moves on within its event.
LEMMA HandleMoves ==
  ASSUME IInv, NEW w \in Workers, Handle(w)
  PROVE  /\ pc[w] # "idle"
         /\ \/ Shrinks
            \/ \E l \in Awaits \cup {"ack"} :
                 /\ Goto(w, l)
                 /\ l \in PastTheCheck => Refund(w) \notin processedEvents \/ pc[w] \in PastTheCheck
<1>1. BusTypeOK(Awaits)
  BY DEF IInv, TypeOK
<1>2. ASSUME pc[w] # "idle", Nack(w) \/ Ack(w) PROVE Shrinks
  BY <1>1, <1>2, EndingSteps
<1>3. CASE FindCharge(w) \/ CreatePayment(w)
  BY <1>2, <1>3 DEF FindCharge, CreatePayment, PastTheCheck, Awaits, ChargeAwaits
<1>4. CASE MarkCharge(w) \/ PublishOutcome(w)
  BY <1>2, <1>4 DEF MarkCharge, PublishOutcome, PublishFails, PastTheCheck, Awaits, ChargeAwaits
<1>5. CASE FindRefund(w) \/ ReadPayment(w) \/ RefundPayment(w)
  BY <1>5 DEF FindRefund, ReadPayment, RefundPayment, PastTheCheck, Awaits, RefundAwaits
<1>6. CASE PublishRefund(w) \/ MarkRefund(w)
  BY <1>2, <1>6 DEF PublishRefund, MarkRefund, PublishFails, PastTheCheck, Awaits, RefundAwaits
<1>7. CASE Ack(w)
  BY <1>2, <1>7 DEF Ack
<1>8. QED
  BY <1>3, <1>4, <1>5, <1>6, <1>7 DEF Handle

\* Markers are only added.
LEMMA MarkersStay ==
  ASSUME [Next]_vars
  PROVE  processedEvents \subseteq processedEvents'
<1>1. ASSUME NEW w \in Workers, Handle(w) PROVE processedEvents \subseteq processedEvents'
  BY <1>1 DEF Handle, FindCharge, CreatePayment, MarkCharge, PublishOutcome, FindRefund,
              ReadPayment, RefundPayment, PublishRefund, MarkRefund, serviceVars, dbVars
<1>2. QED
  BY <1>1 DEF Next, Receive, Fault, vars, serviceVars

\* Only a callback past its check announces a refund: the failed-payment branch is never
\* taken.
LEMMA RefundsComeFromPublish ==
  ASSUME IInv, [Next]_vars, NEW o \in Orders,
         \A w \in Workers : pc[w] \in PastTheCheck => msg[w].order # o
  PROVE  refunds'[o] = refunds[o]
<1>1. ASSUME NEW w \in Workers, PublishOutcome(w) PROVE refunds'[o] = refunds[o]
  <2>1. processPayment(msg[w]) = "SUCCEEDED"
    BY <1>1, Holding DEF PublishOutcome, ChargeAwaits
  <2>2. QED
    BY <1>1, <2>1 DEF PublishOutcome, IInv, TypeOK, outVars
<1>2. ASSUME NEW w \in Workers, PublishRefund(w) PROVE refunds'[o] = refunds[o]
  BY <1>2 DEF PublishRefund, PastTheCheck, IInv, TypeOK
<1>3. ASSUME NEW w \in Workers, Handle(w) PROVE refunds'[o] = refunds[o]
  BY <1>1, <1>2, <1>3 DEF Handle, FindCharge, CreatePayment, MarkCharge, FindRefund,
              ReadPayment, RefundPayment, MarkRefund, serviceVars, outVars
<1>4. QED
  BY <1>3 DEF Next, Receive, Fault, vars, serviceVars

\* Once its refund is tracked and no callback is past its check, an order stays that way.
LEMMA QuietStays ==
  ASSUME IInv, [Next]_vars, NEW o \in Orders, Quiet(o)
  PROVE  Quiet(o)' /\ UNCHANGED refunds[o]
<1>1. BusTypeOK(Awaits) /\ "idle" \notin Awaits
  BY DEF IInv, TypeOK, Awaits, ChargeAwaits, RefundAwaits
<1>2. /\ <<"refund", o>> \in processedEvents /\ <<"refund", o>> \in processedEvents'
      /\ \A w \in Workers : pc[w] \in PastTheCheck => msg[w].order # o
  BY MarkersStay DEF Quiet, PastTheCheck
<1> DEFINE Clear == \A w \in Workers : pc'[w] \in PastTheCheck => msg'[w].order # o
<1>3. ASSUME Shrinks PROVE Clear
  BY <1>2, <1>3 DEF Shrinks, PastTheCheck
<1>4. ASSUME NEW w \in Workers, Handle(w) PROVE Clear
  <2>1. CASE \E l \in Awaits \cup {"ack"} :
               /\ Goto(w, l)
               /\ l \in PastTheCheck => Refund(w) \notin processedEvents \/ pc[w] \in PastTheCheck
    BY <1>1, <1>2, <2>1 DEF Goto, BusTypeOK, Refund
  <2>2. QED
    BY <1>3, <1>4, <2>1, HandleMoves
<1>5. ASSUME Receive PROVE Clear
  <2>1. PICK w \in Workers, m \in Messages : Deliver(w, m, Entry(m))
    BY <1>5 DEF Receive
  <2>2. Entry(m) \in Awaits \ PastTheCheck
    BY DEF Entry, Awaits, ChargeAwaits, RefundAwaits, PastTheCheck
  <2>3. Shrinks \/ (pc' = [pc EXCEPT ![w] = Entry(m)] /\ msg' = [msg EXCEPT ![w] = m])
    BY <1>1, <2>1, <2>2, DeliverFacts
  <2>4. QED
    BY <1>1, <1>2, <1>3, <2>2, <2>3 DEF BusTypeOK
<1>6. ASSUME NEW m \in Messages, Send(m) PROVE Clear
  BY <1>1, <1>3, <1>6, OtherSteps
<1>7. ASSUME Fault PROVE Clear
  <2>1. Awaits \ {"publish", "publishRefund"} \in SUBSET Awaits
    OBVIOUS
  <2>2. QED
    BY <1>1, <1>3, <1>7, <2>1, EndingSteps DEF Fault
<1>8. ASSUME UNCHANGED vars PROVE Clear
  BY <1>3, <1>8 DEF vars, busVars, Shrinks
<1>9. Clear
  BY <1>4, <1>5, <1>6, <1>7, <1>8 DEF Next
<1>10. Quiet(o)'
  BY <1>2, <1>9 DEF Quiet, PastTheCheck
<1>11. QED
  BY <1>2, <1>10, RefundsComeFromPublish

\* A cancelled order is refunded twice only by copies that overlap: a copy that comes
\* later is acked at its check.
THEOREM LateCopiesRefundNothing == Spec => TrackedRefundsAreFinal
<1>1. IInv /\ [Next]_vars =>
        [\A o \in Orders : Quiet(o) => Quiet(o)' /\ UNCHANGED refunds[o]]_vars
  BY QuietStays
<1>2. QED
  BY <1>1, PaymentInvariant, PTL DEF Spec, TrackedRefundsAreFinal
=============================================================================

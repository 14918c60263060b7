--------------------------- MODULE PaymentService ---------------------------
(***************************************************************************)
(* services/payment: the kitchen.accepted handler that charges an order    *)
(* and the order.cancelled handler that refunds it, one action per await,  *)
(* over one payments table and one table of processed-event keys.          *)
(***************************************************************************)
EXTENDS EventBus, Integers

CONSTANTS Orders, Unwritten

Outcomes == {"SUCCEEDED", "FAILED"}

\* The schema of kitchen.accepted demands a positive total.
ASSUME PaymentAssumption ==
  /\ \A m \in Messages :
       /\ m.type \in {"kitchen.accepted", "order.cancelled"}
       /\ m.order \in Orders
       /\ m.total \in Int
       /\ m.type = "kitchen.accepted" /\ m.form = "valid" => m.total > 0
  /\ Unwritten \notin Outcomes \cup {"REFUNDED"}

VARIABLES
  payments,          \* the status of each order's payment row, or Unwritten
  processedEvents,   \* the processed-event keys: <<"charge", o>>, <<"refund", o>>
  published,         \* how often payment.succeeded and payment.failed went out
  refunds            \* how often payment.refund went out

dbVars == <<payments, processedEvents>>
outVars == <<published, refunds>>
serviceVars == <<payments, processedEvents, published, refunds>>
vars == <<busVars, payments, processedEvents, published, refunds>>

ChargeAwaits == {"find", "create", "mark", "publish"}
RefundAwaits == {"findRefund", "read", "refund", "publishRefund", "markRefund"}
Awaits == ChargeAwaits \cup RefundAwaits

TypeOK ==
  /\ BusTypeOK(Awaits)
  /\ payments \in [Orders -> Outcomes \cup {"REFUNDED", Unwritten}]
  /\ processedEvents \in SUBSET ({"charge", "refund"} \X Orders)
  /\ published \in [Orders -> [Outcomes -> Nat]]
  /\ refunds \in [Orders -> Nat]

Init ==
  /\ BusInit
  /\ payments = [o \in Orders |-> Unwritten]
  /\ processedEvents = {}
  /\ published = [o \in Orders |-> [s \in Outcomes |-> 0]]
  /\ refunds = [o \in Orders |-> 0]

Charge(w) == <<"charge", msg[w].order>>
Refund(w) == <<"refund", msg[w].order>>

\* The simulated gateway fails what is not a positive amount.
processPayment(m) == IF m.total <= 0 THEN "FAILED" ELSE "SUCCEEDED"

\* ------------------------------------------------------- kitchen.accepted

FindCharge(w) ==
  /\ pc[w] = "find"
  /\ Goto(w, IF Charge(w) \in processedEvents THEN "ack" ELSE "create")
  /\ UNCHANGED serviceVars

\* An upsert where the code creates.
UpsertPayment(w) ==
  /\ pc[w] = "create"
  /\ payments' = [payments EXCEPT ![msg[w].order] = processPayment(msg[w])]
  /\ Goto(w, "mark")
  /\ UNCHANGED <<processedEvents, outVars>>

\* A handler that takes a row it finds for its own and publishes for it again.
CreateOrRepublish(w) ==
  /\ pc[w] = "create"
  /\ payments' = [payments EXCEPT ![msg[w].order] = IF @ = Unwritten THEN processPayment(msg[w]) ELSE @]
  /\ Goto(w, IF payments[msg[w].order] = Unwritten THEN "mark" ELSE "publish")
  /\ UNCHANGED <<processedEvents, outVars>>

\* orderId is the primary key: the second create of an order throws.
CreatePayment(w) ==
  /\ pc[w] = "create"
  /\ \/ /\ payments[msg[w].order] = Unwritten
        /\ payments' = [payments EXCEPT ![msg[w].order] = processPayment(msg[w])]
        /\ Goto(w, "mark")
     \/ /\ payments[msg[w].order] # Unwritten
        /\ Nack(w)
        /\ UNCHANGED payments
  /\ UNCHANGED <<processedEvents, outVars>>

\* The handler ends after its marker.
MarkChargeAndFinish(w) ==
  /\ pc[w] = "mark"
  /\ processedEvents' = processedEvents \cup {Charge(w)}
  /\ Goto(w, "ack")
  /\ UNCHANGED <<payments, outVars>>

MarkCharge(w) ==
  /\ pc[w] = "mark"
  /\ IF Charge(w) \in processedEvents
       THEN Nack(w) /\ UNCHANGED processedEvents
       ELSE Goto(w, "publish") /\ processedEvents' = processedEvents \cup {Charge(w)}
  /\ UNCHANGED <<payments, outVars>>

\* A failed payment also publishes a refund, to start the compensation.
PublishOutcome(w) ==
  /\ pc[w] = "publish"
  /\ \/ /\ Connected(w)
        /\ published' = [published EXCEPT ![msg[w].order][processPayment(msg[w])] = @ + 1]
        /\ refunds' = [refunds EXCEPT ![msg[w].order] =
                         IF processPayment(msg[w]) = "FAILED" THEN @ + 1 ELSE @]
        /\ Goto(w, "ack")
     \/ /\ PublishFails(w)
        /\ UNCHANGED outVars
  /\ UNCHANGED dbVars

\* -------------------------------------------------------- order.cancelled

\* The handler that never looks at its marker.
FindRefundUnguarded(w) ==
  /\ pc[w] = "findRefund"
  /\ Goto(w, "read")
  /\ UNCHANGED serviceVars

FindRefund(w) ==
  /\ pc[w] = "findRefund"
  /\ Goto(w, IF Refund(w) \in processedEvents THEN "ack" ELSE "read")
  /\ UNCHANGED serviceVars

\* No payment to refund: the handler goes straight to its marker.
ReadPayment(w) ==
  /\ pc[w] = "read"
  /\ Goto(w, IF payments[msg[w].order] = Unwritten THEN "markRefund" ELSE "refund")
  /\ UNCHANGED serviceVars

\* The refund that is written and not announced.
RefundSilently(w) ==
  /\ pc[w] = "refund"
  /\ payments' = [payments EXCEPT ![msg[w].order] = "REFUNDED"]
  /\ Goto(w, "markRefund")
  /\ UNCHANGED <<processedEvents, outVars>>

\* The status is overwritten whatever it is by now.
RefundPayment(w) ==
  /\ pc[w] = "refund"
  /\ payments' = [payments EXCEPT ![msg[w].order] = "REFUNDED"]
  /\ Goto(w, "publishRefund")
  /\ UNCHANGED <<processedEvents, outVars>>

PublishRefund(w) ==
  /\ pc[w] = "publishRefund"
  /\ \/ /\ Connected(w)
        /\ refunds' = [refunds EXCEPT ![msg[w].order] = @ + 1]
        /\ Goto(w, "markRefund")
     \/ /\ PublishFails(w)
        /\ UNCHANGED refunds
  /\ UNCHANGED <<dbVars, published>>

MarkRefund(w) ==
  /\ pc[w] = "markRefund"
  /\ IF Refund(w) \in processedEvents
       THEN Nack(w) /\ UNCHANGED processedEvents
       ELSE Goto(w, "ack") /\ processedEvents' = processedEvents \cup {Refund(w)}
  /\ UNCHANGED <<payments, outVars>>

\* ------------------------------------------------------------ the service

Handle(w) ==
  \/ FindCharge(w) \/ CreatePayment(w) \/ MarkCharge(w) \/ PublishOutcome(w)
  \/ FindRefund(w) \/ ReadPayment(w) \/ RefundPayment(w) \/ PublishRefund(w) \/ MarkRefund(w)
  \/ Ack(w) /\ UNCHANGED serviceVars

Entry(m) == IF m.type = "kitchen.accepted" THEN "find" ELSE "findRefund"

Receive ==
  \E w \in Workers, m \in Messages : Deliver(w, m, Entry(m)) /\ UNCHANGED serviceVars

Fault ==
  /\ \/ \E p \in Processes : Crash(p) \/ CloseConnection(p)
     \/ \E w \in Workers : DatabaseFails(w, Awaits \ {"publish", "publishRefund"})
  /\ UNCHANGED serviceVars

Next ==
  \/ \E m \in Messages : Send(m) /\ UNCHANGED serviceVars
  \/ Receive
  \/ \E w \in Workers : Handle(w)
  \/ Fault

Spec == Init /\ [][Next]_vars

\* The broker keeps pushing while a consumer is there, and Node runs every
\* callback whose await has settled.
Fairness == WF_vars(Receive) /\ \A w \in Workers : WF_vars(Handle(w))

FairSpec == Spec /\ Fairness
-----------------------------------------------------------------------------
Announcements(o) == published[o]["SUCCEEDED"] + published[o]["FAILED"]

\* Replicas racing on copies of kitchen.accepted, redeliveries and refunds that cut
\* in between the charge and its event never make payment announce two outcomes
\* for an order, and a success is announced for a row that was charged.
ChargedOnce ==
  \A o \in Orders :
    /\ Announcements(o) <= 1
    /\ published[o]["SUCCEEDED"] > 0 => payments[o] \in {"SUCCEEDED", "REFUNDED"}

\* A refund is only ever announced for a payment that was charged and is marked
\* REFUNDED by then; the failed-payment branch, whose refund would be for money
\* never taken, cannot be reached past the schema.
RefundsFollowCharges ==
  \A o \in Orders :
    /\ refunds[o] > 0 => payments[o] = "REFUNDED"
    /\ published[o]["FAILED"] = 0 /\ payments[o] # "FAILED"

\* No late charge, redelivery or retry turns a refunded payment back.
RefundIsFinal ==
  [][\A o \in Orders : payments[o] = "REFUNDED" => payments'[o] = "REFUNDED"]_vars

\* Why they hold.  The callback that created an order's payment is the only one
\* between that create and its publish; a callback on its way to publish a refund
\* has found, or has made, the row REFUNDED.
Writing(w) == pc[w] \in {"mark", "publish"}

WriterOwnsTheOrder ==
  \A w \in Workers : Writing(w) =>
    /\ payments[msg[w].order] \in {"SUCCEEDED", "REFUNDED"}
    /\ \A s \in Outcomes : published[msg[w].order][s] = 0
    /\ pc[w] = "mark" <=> Charge(w) \notin processedEvents
    /\ \A v \in Workers : Writing(v) /\ msg[v].order = msg[w].order => v = w

HandlersKnowTheirEvent ==
  \A w \in Workers :
    /\ pc[w] \in ChargeAwaits => msg[w].type = "kitchen.accepted" /\ msg[w].form = "valid"
    /\ pc[w] = "refund" => payments[msg[w].order] # Unwritten
    /\ pc[w] = "publishRefund" => payments[msg[w].order] = "REFUNDED"

RowsComeFirst ==
  \A o \in Orders :
    /\ <<"charge", o>> \in processedEvents => payments[o] # Unwritten
    /\ published[o]["SUCCEEDED"] > 0 =>
         payments[o] \in {"SUCCEEDED", "REFUNDED"} /\ published[o]["SUCCEEDED"] = 1

IInv ==
  /\ TypeOK
  /\ HandlersKnowTheirEvent
  /\ WriterOwnsTheOrder
  /\ RowsComeFirst
  /\ RefundsFollowCharges

\* A callback still has an event of this type for the order, or will get one.
Pending(o, type) ==
  \/ \E w \in Workers : pc[w] # "idle" /\ msg[w].order = o /\ msg[w].type = type
  \/ \E m \in ready : m.order = o /\ m.type = type /\ m.form = "valid"

Settled(o) == ~Pending(o, "kitchen.accepted") /\ ~Pending(o, "order.cancelled")

Cancelled(o) == \E m \in sent : m.order = o /\ m.type = "order.cancelled" /\ m.form = "valid"

\* Once the events of a cancelled order are all handled, the order is not left
\* charged.
CancelledOrdersAreNotCharged ==
  \A o \in Orders : Cancelled(o) /\ Settled(o) => payments[o] # "SUCCEEDED"

\* Copies of order.cancelled refund an order twice only by overlapping: once a refund
\* is tracked and no callback is past its check, no later copy announces another.
Quiet(o) ==
  /\ <<"refund", o>> \in processedEvents
  /\ \A w \in Workers : pc[w] \in {"read", "refund", "publishRefund"} => msg[w].order # o
TrackedRefundsAreFinal ==
  [][\A o \in Orders : Quiet(o) => Quiet(o)' /\ UNCHANGED refunds[o]]_vars

\* A valid kitchen.accepted that is published is charged and announced, unless a
\* fault strikes.
EveryAcceptedOrderIsCharged ==
  \A o \in Orders :
    (\E m \in sent : m.order = o /\ m.form = "valid" /\ m.type = "kitchen.accepted")
      ~> (Announcements(o) = 1 \/ faults > 0)

\* A cancellation that finds the order charged, and no other being handled, ends in a
\* refund that is announced, unless a fault strikes.  (One that overlaps with another
\* that came before the charge may find that one's marker.)
ChargedOrdersAreRefunded ==
  \A o \in Orders :
    (/\ \E m \in ready : m.order = o /\ m.form = "valid" /\ m.type = "order.cancelled"
     /\ payments[o] = "SUCCEEDED"
     /\ <<"refund", o>> \notin processedEvents
     /\ \A w \in Workers : pc[w] \in RefundAwaits => msg[w].order # o)
      ~> (faults > 0 \/ (payments[o] = "REFUNDED" /\ refunds[o] > 0))

\* Charging is a saga step: one outcome per order, announced at most once.  A row
\* that was refunded was a success before.
Step == INSTANCE SagaStep WITH
          Undecided <- Unwritten,
          outcome <- [o \in Orders |-> IF payments[o] = "REFUNDED" THEN "SUCCEEDED" ELSE payments[o]],
          announced <- published
ImplementsSagaStep == Step!Spec
=============================================================================

------------------------- MODULE NotificationService ------------------------
(***************************************************************************)
(* services/notification: the six consumers app.ts registers and the three *)
(* (order.cancelled, payment.refund, delivery.cancelled) it does not, all  *)
(* of one shape: look for the event's record, send, insert the record.     *)
(* MongoDB has no unique index here: an insert always succeeds.            *)
(***************************************************************************)
EXTENDS EventBus

\* The prefix of the key names the consumer, so a key is an event type and an order.
KeyOf(m) == <<m.type, m.order>>

EventKeys == {KeyOf(m) : m \in Messages}

VARIABLES
  processedEvents,   \* the keys of the events with a record
  notifications      \* how many notifications each event key has led to

serviceVars == <<processedEvents, notifications>>
vars == <<busVars, processedEvents, notifications>>

Awaits == {"find", "send", "mark"}

TypeOK ==
  /\ BusTypeOK(Awaits)
  /\ processedEvents \in SUBSET EventKeys
  /\ notifications \in [EventKeys -> Nat]

Init ==
  /\ BusInit
  /\ processedEvents = {}
  /\ notifications = [k \in EventKeys |-> 0]

\* A record kept per order, whatever happened to it.
FindOrderRecord(w) ==
  /\ pc[w] = "find"
  /\ Goto(w, IF \E k \in processedEvents : k[2] = msg[w].order THEN "ack" ELSE "send")
  /\ UNCHANGED serviceVars

\* A handler that never looks for the record.
FindProcessedUnguarded(w) ==
  /\ pc[w] = "find"
  /\ Goto(w, "send")
  /\ UNCHANGED serviceVars

FindProcessed(w) ==
  /\ pc[w] = "find"
  /\ Goto(w, IF KeyOf(msg[w]) \in processedEvents THEN "ack" ELSE "send")
  /\ UNCHANGED serviceVars

\* sendNotification writes the notification and prints it.
sendNotification(w) ==
  /\ pc[w] = "send"
  /\ notifications' = [notifications EXCEPT ![KeyOf(msg[w])] = @ + 1]
  /\ Goto(w, "mark")
  /\ UNCHANGED processedEvents

\* The handler that forgets its record.
AckUnrecorded(w) ==
  /\ pc[w] = "mark"
  /\ Goto(w, "ack")
  /\ UNCHANGED serviceVars

InsertProcessed(w) ==
  /\ pc[w] = "mark"
  /\ processedEvents' = processedEvents \cup {KeyOf(msg[w])}
  /\ Goto(w, "ack")
  /\ UNCHANGED notifications

Handle(w) ==
  \/ FindProcessed(w)
  \/ sendNotification(w)
  \/ InsertProcessed(w)
  \/ Ack(w) /\ UNCHANGED serviceVars

Receive == \E w \in Workers, m \in Messages : Deliver(w, m, "find") /\ UNCHANGED serviceVars

Fault ==
  /\ \/ \E p \in Processes : Crash(p) \/ CloseConnection(p)
     \/ \E w \in Workers : DatabaseFails(w, Awaits)
  /\ UNCHANGED serviceVars

Next ==
  \/ \E m \in Messages : Send(m) /\ UNCHANGED serviceVars
  \/ Receive
  \/ \E w \in Workers : Handle(w)
  \/ Fault

Spec == Init /\ [][Next]_vars

\* The broker keeps pushing while a consumer is there, and Node runs every
\* callback whose await has settled.
Fairness == WF_vars(Receive) /\ \A w \in Workers : WF_vars(Handle(w))

FairSpec == Spec /\ Fairness
-----------------------------------------------------------------------------
Pending(k) ==
  \/ \E w \in Workers : pc[w] # "idle" /\ KeyOf(msg[w]) = k
  \/ \E m \in ready : KeyOf(m) = k /\ m.form = "valid"

\* At-least-once: a valid event that nobody holds and nobody will get has been
\* notified, through crashes, closed connections and copies raced by two replicas.
\* Only a failed database call drops an event.
NoNotificationIsLost ==
  \A m \in sent :
    m.form = "valid" /\ ~Pending(KeyOf(m)) => notifications[KeyOf(m)] > 0 \/ DroppedByAFault(m)

\* Why it holds: the record never appears before the notification, so the check
\* that skips an event never skips one nobody was told of, and an ack comes last.
RecordsFollowNotifications == \A k \in processedEvents : notifications[k] > 0

AcksFollowNotifications ==
  \A w \in Workers : pc[w] \in {"mark", "ack"} => notifications[KeyOf(msg[w])] > 0

IInv == TypeOK /\ RecordsFollowNotifications /\ AcksFollowNotifications

\* An event leaves the broker's custody only by an ack, unless a fault strikes.
EventsAreInCustody ==
  \A m \in sent :
    m.form = "valid" => InCustody(m) \/ notifications[KeyOf(m)] > 0 \/ DroppedByAFault(m)

\* Copies notify a customer twice only by overlapping: once an event is recorded and
\* no callback is past its check, no later copy notifies again.
Quiet(k) ==
  /\ k \in processedEvents
  /\ \A w \in Workers : pc[w] \in {"send", "mark"} => KeyOf(msg[w]) # k
RecordedEventsAreFinal ==
  [][\A k \in EventKeys : Quiet(k) => Quiet(k)' /\ notifications'[k] = notifications[k]]_vars

\* Every valid event that is published is notified and recorded, unless a fault strikes.
EveryEventIsNotified ==
  \A k \in EventKeys :
    (\E m \in sent : KeyOf(m) = k /\ m.form = "valid")
      ~> (faults > 0 \/ (notifications[k] > 0 /\ k \in processedEvents))
=============================================================================

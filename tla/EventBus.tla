------------------------------ MODULE EventBus ------------------------------
(***************************************************************************)
(* How one service consumes its RabbitMQ queues: consumeEvent and          *)
(* publishEvent of packages/event-bus, over the channel its lib/rabbitmq.ts *)
(* opens.  The service modules extend this one with their own tables and   *)
(* one action per awaited call of their handlers.                          *)
(*                                                                         *)
(* No consumer sets a prefetch, so a replica (a process) runs as many      *)
(* callbacks at once as the broker has messages for it: a worker is one of *)
(* those callbacks.  A message is a record with an id of its own, so two   *)
(* copies of the same event are two messages.                              *)
(***************************************************************************)
EXTENDS Naturals

CONSTANTS
  Messages,     \* the messages that may reach the service's queues
  Workers,      \* the callbacks that can be in flight together
  Processes,    \* the replicas of the service
  ProcessOf,    \* the replica each callback runs in
  None,         \* "no message", not in Messages
  FaultKinds,   \* which faults the environment inflicts
  MaxFaults     \* bound: how many of them, and of the deaths garbled messages cause

Forms == {"valid", "invalid", "garbled"}

ASSUME BusAssumption ==
  /\ \A m \in Messages : m.form \in Forms
  /\ ProcessOf \in [Workers -> Processes]
  /\ None \notin Messages
  /\ FaultKinds \subseteq {"crash", "close", "database"}
  /\ MaxFaults \in Nat

VARIABLES
  sent,     \* the messages other services have published to the queues so far
  ready,    \* the messages waiting in the queues
  dead,     \* the messages the service has nacked without requeue
  pc,       \* where each callback is: "idle", "ack" or an await of the service
  msg,      \* the message each callback holds, or None
  link,     \* each replica's connection: "up", or "closed" with no consumer left
  faults    \* how many faults have happened

busVars == <<sent, ready, dead, pc, msg, link, faults>>

BusTypeOK(Labels) ==
  /\ sent \in SUBSET Messages
  /\ ready \in SUBSET Messages
  /\ dead \in SUBSET Messages
  /\ pc \in [Workers -> Labels \cup {"idle", "ack"}]
  /\ msg \in [Workers -> Messages \cup {None}]
  /\ \A w \in Workers : pc[w] # "idle" => msg[w] \in Messages
  /\ link \in [Processes -> {"up", "closed"}]
  /\ faults \in 0 .. MaxFaults

BusInit ==
  /\ sent = {}
  /\ ready = {}
  /\ dead = {}
  /\ pc = [w \in Workers |-> "idle"]
  /\ msg = [w \in Workers |-> None]
  /\ link = [p \in Processes |-> "up"]
  /\ faults = 0

Connected(w) == link[ProcessOf[w]] = "up"

\* What the callbacks of replica p hold.
Held(p) == {msg[w] : w \in {v \in Workers : ProcessOf[v] = p /\ msg[v] # None}}

\* The broker has m ready, or holds it unacknowledged for a connected callback.
InCustody(m) ==
  \/ m \in ready
  \/ \E w \in Workers : Connected(w) /\ pc[w] # "idle" /\ msg[w] = m

\* A failed database call has cost the service the message.  What is nacked is discarded
\* or, where order_service.order_created names a dead-letter exchange, put into a queue
\* that nothing consumes.
DroppedByAFault(m) == m \in dead /\ faults > 0

\* Consumers that do not wait for an ack: what a dead replica held is gone.
RestartWithoutRequeue(p) ==
  /\ UNCHANGED ready
  /\ pc' = [w \in Workers |-> IF ProcessOf[w] = p THEN "idle" ELSE pc[w]]
  /\ msg' = [w \in Workers |-> IF ProcessOf[w] = p THEN None ELSE msg[w]]
  /\ link' = [link EXCEPT ![p] = "up"]

\* A replica dies and is started again by its orchestrator: its callbacks are
\* gone, and the broker requeues what it had not settled (a closed connection
\* had its messages requeued when it closed).
Restart(p) ==
  /\ ready' = IF link[p] = "up" THEN ready \cup Held(p) ELSE ready
  /\ pc' = [w \in Workers |-> IF ProcessOf[w] = p THEN "idle" ELSE pc[w]]
  /\ msg' = [w \in Workers |-> IF ProcessOf[w] = p THEN None ELSE msg[w]]
  /\ link' = [link EXCEPT ![p] = "up"]

\* Another service publishes m to a key the queues are bound to.
Send(m) ==
  /\ m \notin sent
  /\ sent' = sent \cup {m}
  /\ ready' = ready \cup {m}
  /\ UNCHANGED <<dead, pc, msg, link, faults>>

\* The broker pushes m to a callback and consumeEvent parses it: content that is
\* not JSON throws outside the try block, an unhandled rejection that kills the
\* process and leaves the message in the queue, again and again (the bound on faults
\* counts these deaths); data the schema rejects is nacked; otherwise the handler starts.
Deliver(w, m, entry) ==
  /\ pc[w] = "idle"
  /\ Connected(w)
  /\ m \in ready
  /\ \/ /\ m.form = "garbled"
        /\ faults < MaxFaults
        /\ Restart(ProcessOf[w])
        /\ faults' = faults + 1
        /\ UNCHANGED dead
     \/ /\ m.form = "invalid"
        /\ ready' = ready \ {m}
        /\ dead' = dead \cup {m}
        /\ UNCHANGED <<pc, msg, link, faults>>
     \/ /\ m.form = "valid"
        /\ ready' = ready \ {m}
        /\ msg' = [msg EXCEPT ![w] = m]
        /\ pc' = [pc EXCEPT ![w] = entry]
        /\ UNCHANGED <<dead, link, faults>>
  /\ UNCHANGED sent

\* The handler's next await.
Goto(w, label) ==
  /\ pc' = [pc EXCEPT ![w] = label]
  /\ UNCHANGED <<sent, ready, dead, msg, link, faults>>

\* The callback is over once the broker has its ack or nack.  On a closed channel
\* ack throws, the nack in the catch block throws too, and the unhandled rejection
\* kills the process.
Settle(w) ==
  \/ /\ Connected(w)
     /\ pc' = [pc EXCEPT ![w] = "idle"]
     /\ msg' = [msg EXCEPT ![w] = None]
     /\ UNCHANGED <<ready, link>>
  \/ /\ ~Connected(w)
     /\ Restart(ProcessOf[w])

Ack(w) ==
  /\ pc[w] = "ack"
  /\ Settle(w)
  /\ UNCHANGED <<sent, dead, faults>>

\* The handler threw: nack without requeue.
Nack(w) ==
  /\ Settle(w)
  /\ dead' = IF Connected(w) THEN dead \cup {msg[w]} ELSE dead
  /\ UNCHANGED <<sent, faults>>

\* publishEvent on a closed channel throws, so the callback ends as Settle says.
PublishFails(w) ==
  /\ ~Connected(w)
  /\ Nack(w)

\* ------------------------------------------------------------------ faults

Crash(p) ==
  /\ "crash" \in FaultKinds
  /\ faults < MaxFaults
  /\ Restart(p)
  /\ faults' = faults + 1
  /\ UNCHANGED <<sent, dead>>

\* The broker closes the connection: it requeues what the replica holds while the
\* callbacks go on.  The close handler only forgets the channel, so nothing
\* consumes in this process again until it is restarted.
CloseConnection(p) ==
  /\ "close" \in FaultKinds
  /\ faults < MaxFaults
  /\ link[p] = "up"
  /\ link' = [link EXCEPT ![p] = "closed"]
  /\ ready' = ready \cup Held(p)
  /\ faults' = faults + 1
  /\ UNCHANGED <<sent, dead, pc, msg>>

\* A database call of the handler rejects, with no effect on the table (a call that
\* took effect before it was reported as failed is that effect, then a failure of
\* the next call).
DatabaseFails(w, awaits) ==
  /\ "database" \in FaultKinds
  /\ faults < MaxFaults
  /\ pc[w] \in awaits
  /\ Settle(w)
  /\ dead' = IF Connected(w) THEN dead \cup {msg[w]} ELSE dead
  /\ faults' = faults + 1
  /\ UNCHANGED sent
=============================================================================

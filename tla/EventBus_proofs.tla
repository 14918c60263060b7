--------------------------- MODULE EventBus_proofs ---------------------------
(***************************************************************************)
(* What a step of the event bus does to its variables: the facts the       *)
(* proofs about the services cite.                                         *)
(***************************************************************************)
EXTENDS EventBus, TLAPS

\* Each callback is where it was, or idle.
Shrinks == \A w \in Workers : pc'[w] = "idle" \/ (pc'[w] = pc[w] /\ msg'[w] = msg[w])

\* A replica's restart keeps the bus well typed and starts no callback.
LEMMA RestartFacts ==
  ASSUME NEW CONSTANT Labels, BusTypeOK(Labels), NEW p \in Processes, Restart(p)
  PROVE  /\ ready' \in SUBSET Messages
         /\ pc' \in [Workers -> Labels \cup {"idle", "ack"}]
         /\ msg' \in [Workers -> Messages \cup {None}]
         /\ link' \in [Processes -> {"up", "closed"}]
         /\ Shrinks
<1>1. Held(p) \in SUBSET Messages
  BY DEF Held, BusTypeOK
<1>2. QED
  BY <1>1 DEF Restart, BusTypeOK, Shrinks

\* Settling a callback keeps the bus well typed and starts no callback.
LEMMA SettleFacts ==
  ASSUME NEW CONSTANT Labels, BusTypeOK(Labels), NEW w \in Workers, Settle(w)
  PROVE  /\ ready' \in SUBSET Messages
         /\ pc' \in [Workers -> Labels \cup {"idle", "ack"}]
         /\ msg' \in [Workers -> Messages \cup {None}]
         /\ link' \in [Processes -> {"up", "closed"}]
         /\ Shrinks
<1>1. CASE Connected(w)
  BY <1>1 DEF Settle, BusTypeOK, Shrinks
<1>2. CASE ~Connected(w)
  <2>1. ProcessOf[w] \in Processes /\ Restart(ProcessOf[w])
    BY <1>2, BusAssumption DEF Settle
  <2>2. QED
    BY <2>1, RestartFacts
<1>3. QED
  BY <1>1, <1>2

\* The steps that end callbacks and start none: settling one, and every fault.
LEMMA EndingSteps ==
  ASSUME NEW CONSTANT Labels, BusTypeOK(Labels)
  PROVE  /\ \A w \in Workers :
              \/ Ack(w)
              \/ pc[w] # "idle" /\ Nack(w)
              \/ \E awaits \in SUBSET Labels :
                   "idle" \notin awaits /\ DatabaseFails(w, awaits)
              => BusTypeOK(Labels)' /\ Shrinks
         /\ \A p \in Processes : Crash(p) \/ CloseConnection(p) => BusTypeOK(Labels)' /\ Shrinks
<1>1. ASSUME NEW w \in Workers, Ack(w)
      PROVE  BusTypeOK(Labels)' /\ Shrinks
  BY <1>1, SettleFacts DEF Ack, BusTypeOK, Shrinks
<1>2. ASSUME NEW w \in Workers, pc[w] # "idle", Nack(w)
      PROVE  BusTypeOK(Labels)' /\ Shrinks
  <2>1. Settle(w) /\ msg[w] \in Messages
    BY <1>2 DEF Nack, BusTypeOK
  <2>2. QED
    BY <1>2, <2>1, SettleFacts DEF Nack, BusTypeOK, Shrinks
<1>3. ASSUME NEW w \in Workers, NEW awaits \in SUBSET Labels, "idle" \notin awaits,
             DatabaseFails(w, awaits)
      PROVE  BusTypeOK(Labels)' /\ Shrinks
  <2>1. Settle(w) /\ msg[w] \in Messages
    BY <1>3 DEF DatabaseFails, BusTypeOK
  <2>2. faults' \in 0 .. MaxFaults
    BY <1>3, BusAssumption DEF DatabaseFails, BusTypeOK
  <2>3. QED
    BY <1>3, <2>1, <2>2, SettleFacts DEF DatabaseFails, BusTypeOK, Shrinks
<1>4. ASSUME NEW p \in Processes, Crash(p)
      PROVE  BusTypeOK(Labels)' /\ Shrinks
  <2>1. faults' \in 0 .. MaxFaults
    BY <1>4, BusAssumption DEF Crash, BusTypeOK
  <2>2. QED
    BY <1>4, <2>1, RestartFacts DEF Crash, BusTypeOK, Shrinks
<1>5. ASSUME NEW p \in Processes, CloseConnection(p)
      PROVE  BusTypeOK(Labels)' /\ Shrinks
  <2>1. faults' \in 0 .. MaxFaults
    BY <1>5, BusAssumption DEF CloseConnection, BusTypeOK
  <2>2. Held(p) \in SUBSET Messages
    BY DEF Held, BusTypeOK
  <2>3. QED
    BY <1>5, <2>1, <2>2 DEF CloseConnection, BusTypeOK, Shrinks
<1>6. QED
  BY <1>1, <1>2, <1>3, <1>4, <1>5

\* A delivery keeps the bus well typed; the callback it starts holds the message.
LEMMA DeliverFacts ==
  ASSUME NEW CONSTANT Labels, BusTypeOK(Labels), NEW entry \in Labels,
         NEW w \in Workers, NEW m \in Messages, Deliver(w, m, entry)
  PROVE  /\ BusTypeOK(Labels)'
         /\ \/ Shrinks
            \/ /\ pc' = [pc EXCEPT ![w] = entry]
               /\ msg' = [msg EXCEPT ![w] = m]
<1>1. CASE m.form = "garbled"
  <2>1. ProcessOf[w] \in Processes /\ Restart(ProcessOf[w]) /\ UNCHANGED <<dead, sent>>
    BY <1>1, BusAssumption DEF Deliver
  <2>2. faults' \in 0 .. MaxFaults
    BY <1>1, BusAssumption DEF Deliver, BusTypeOK
  <2>3. QED
    BY <2>1, <2>2, RestartFacts DEF BusTypeOK, Shrinks
<1>2. CASE m.form = "invalid"
  BY <1>2 DEF Deliver, BusTypeOK, Shrinks
<1>3. CASE m.form = "valid"
  BY <1>3 DEF Deliver, BusTypeOK
<1>4. QED
  BY <1>1, <1>2, <1>3, BusAssumption DEF Forms

\* Moving on inside a handler, and a message from another service.
LEMMA OtherSteps ==
  ASSUME NEW CONSTANT Labels, BusTypeOK(Labels)
  PROVE  /\ \A w \in Workers, l \in Labels \cup {"ack"} :
              pc[w] # "idle" /\ Goto(w, l) => BusTypeOK(Labels)'
         /\ \A m \in Messages : Send(m) => BusTypeOK(Labels)' /\ Shrinks
<1>1. ASSUME NEW w \in Workers, NEW l \in Labels \cup {"ack"}, pc[w] # "idle", Goto(w, l)
      PROVE  BusTypeOK(Labels)'
  BY <1>1 DEF Goto, BusTypeOK
<1>2. ASSUME NEW m \in Messages, Send(m)
      PROVE  BusTypeOK(Labels)' /\ Shrinks
  BY <1>2 DEF Send, BusTypeOK, Shrinks
<1>3. QED
  BY <1>1, <1>2
-----------------------------------------------------------------------------
(***************************************************************************)
(* What keeps a message in the broker's custody.                           *)
(***************************************************************************)

\* A restart puts what its replica held back, and touches no other replica.
LEMMA RestartKeepsCustody ==
  ASSUME NEW CONSTANT Labels, BusTypeOK(Labels), NEW m \in Messages, InCustody(m),
         NEW p \in Processes, Restart(p)
  PROVE  InCustody(m)'
<1>1. CASE m \in ready
  BY <1>1 DEF Restart, InCustody
<1>2. CASE \E w \in Workers : Connected(w) /\ pc[w] # "idle" /\ msg[w] = m
  <2>1. PICK w \in Workers : Connected(w) /\ pc[w] # "idle" /\ msg[w] = m
    BY <1>2
  <2>2. CASE ProcessOf[w] = p
    <3>1. link[p] = "up" /\ m \in Held(p)
      BY <2>1, <2>2, BusAssumption DEF Connected, Held
    <3>2. QED
      BY <3>1 DEF Restart, InCustody
  <2>3. CASE ProcessOf[w] # p
    <3>1. pc'[w] = pc[w] /\ msg'[w] = msg[w] /\ link'[ProcessOf[w]] = link[ProcessOf[w]]
      BY <2>3, BusAssumption DEF Restart, BusTypeOK
    <3>2. QED
      BY <2>1, <3>1 DEF InCustody, Connected
  <2>4. QED
    BY <2>2, <2>3
<1>3. QED
  BY <1>1, <1>2 DEF InCustody

\* Settling a callback gives up its own message, and no other.
LEMMA SettleKeepsCustody ==
  ASSUME NEW CONSTANT Labels, BusTypeOK(Labels), NEW m \in Messages, InCustody(m),
         NEW w \in Workers, Settle(w), msg[w] # m
  PROVE  InCustody(m)'
<1>1. CASE Connected(w)
  <2>1. /\ pc' = [pc EXCEPT ![w] = "idle"]
        /\ msg' = [msg EXCEPT ![w] = None]
        /\ UNCHANGED <<ready, link>>
    BY <1>1 DEF Settle
  <2>2. CASE m \in ready
    BY <2>1, <2>2 DEF InCustody
  <2>3. CASE \E v \in Workers : Connected(v) /\ pc[v] # "idle" /\ msg[v] = m
    <3>1. PICK v \in Workers : Connected(v) /\ pc[v] # "idle" /\ msg[v] = m
      BY <2>3
    <3>2. pc'[v] = pc[v] /\ msg'[v] = msg[v] /\ link' = link
      BY <2>1, <3>1 DEF BusTypeOK
    <3>3. QED
      BY <3>1, <3>2 DEF InCustody, Connected
  <2>4. QED
    BY <2>2, <2>3 DEF InCustody
<1>2. CASE ~Connected(w)
  <2>1. ProcessOf[w] \in Processes /\ Restart(ProcessOf[w])
    BY <1>2, BusAssumption DEF Settle
  <2>2. QED
    BY <2>1, RestartKeepsCustody
<1>3. QED
  BY <1>1, <1>2

\* Crashes, closed connections and what other services publish lose nothing.
LEMMA FaultsKeepCustody ==
  ASSUME NEW CONSTANT Labels, BusTypeOK(Labels), NEW m \in Messages, InCustody(m)
  PROVE  /\ \A p \in Processes : Crash(p) \/ CloseConnection(p) => InCustody(m)'
         /\ \A n \in Messages : Send(n) => InCustody(m)'
<1>1. ASSUME NEW p \in Processes, Crash(p)
      PROVE  InCustody(m)'
  BY <1>1, RestartKeepsCustody DEF Crash
<1>2. ASSUME NEW p \in Processes, CloseConnection(p)
      PROVE  InCustody(m)'
  <2>1. CASE m \in ready
    BY <1>2, <2>1 DEF CloseConnection, InCustody
  <2>2. CASE \E w \in Workers : Connected(w) /\ pc[w] # "idle" /\ msg[w] = m
    <3>1. PICK w \in Workers : Connected(w) /\ pc[w] # "idle" /\ msg[w] = m
      BY <2>2
    <3>2. CASE ProcessOf[w] = p
      <4>1. m \in Held(p)
        BY <3>1, <3>2, BusAssumption DEF Held
      <4>2. QED
        BY <1>2, <4>1 DEF CloseConnection, InCustody
    <3>3. CASE ProcessOf[w] # p
      <4>1. link'[ProcessOf[w]] = link[ProcessOf[w]] /\ UNCHANGED <<pc, msg>>
        BY <1>2, <3>3, BusAssumption DEF CloseConnection, BusTypeOK
      <4>2. QED
        BY <3>1, <4>1 DEF InCustody, Connected
    <3>4. QED
      BY <3>2, <3>3
  <2>3. QED
    BY <2>1, <2>2 DEF InCustody
<1>3. ASSUME NEW n \in Messages, Send(n)
      PROVE  InCustody(m)'
  BY <1>3 DEF Send, InCustody, Connected
<1>4. QED
  BY <1>1, <1>2, <1>3

\* A delivery hands a valid message to a connected callback, or leaves it be.
LEMMA DeliverKeepsCustody ==
  ASSUME NEW CONSTANT Labels, BusTypeOK(Labels), NEW m \in Messages, m.form = "valid",
         InCustody(m), NEW entry \in Labels, entry # "idle",
         NEW w \in Workers, NEW n \in Messages, Deliver(w, n, entry)
  PROVE  InCustody(m)'
<1>1. CASE n.form = "garbled"
  <2>1. ProcessOf[w] \in Processes /\ Restart(ProcessOf[w])
    BY <1>1, BusAssumption DEF Deliver
  <2>2. QED
    BY <2>1, RestartKeepsCustody
<1>2. CASE n.form = "invalid"
  <2>1. ready' = ready \ {n} /\ n # m /\ UNCHANGED <<pc, msg, link>>
    BY <1>2 DEF Deliver
  <2>2. QED
    BY <2>1 DEF InCustody, Connected
<1>3. CASE n.form = "valid"
  <2>1. /\ pc[w] = "idle" /\ Connected(w)
        /\ ready' = ready \ {n}
        /\ msg' = [msg EXCEPT ![w] = n]
        /\ pc' = [pc EXCEPT ![w] = entry]
        /\ UNCHANGED link
    BY <1>3 DEF Deliver
  <2>2. pc'[w] = entry /\ msg'[w] = n
    BY <2>1 DEF BusTypeOK
  <2>3. CASE m \in ready
    <3>1. CASE m = n
      BY <2>1, <2>2, <3>1 DEF InCustody, Connected
    <3>2. CASE m # n
      BY <2>1, <2>3, <3>2 DEF InCustody
    <3>3. QED
      BY <3>1, <3>2
  <2>4. CASE \E v \in Workers : Connected(v) /\ pc[v] # "idle" /\ msg[v] = m
    <3>1. PICK v \in Workers : Connected(v) /\ pc[v] # "idle" /\ msg[v] = m
      BY <2>4
    <3>2. pc'[v] = pc[v] /\ msg'[v] = msg[v]
      BY <2>1, <3>1 DEF BusTypeOK
    <3>3. QED
      BY <2>1, <3>1, <3>2 DEF InCustody, Connected
  <2>5. QED
    BY <2>3, <2>4 DEF InCustody
<1>4. QED
  BY <1>1, <1>2, <1>3, BusAssumption DEF Forms

\* A handler that moves on keeps its message.
LEMMA GotoKeepsCustody ==
  ASSUME NEW CONSTANT Labels, BusTypeOK(Labels), NEW m \in Messages, InCustody(m),
         NEW w \in Workers, NEW l, l # "idle", Goto(w, l)
  PROVE  InCustody(m)'
<1>1. CASE m \in ready
  BY <1>1 DEF Goto, InCustody
<1>2. CASE \E v \in Workers : Connected(v) /\ pc[v] # "idle" /\ msg[v] = m
  <2>1. PICK v \in Workers : Connected(v) /\ pc[v] # "idle" /\ msg[v] = m
    BY <1>2
  <2>2. pc'[v] # "idle" /\ UNCHANGED <<msg, link>>
    BY <2>1 DEF Goto, BusTypeOK
  <2>3. QED
    BY <2>1, <2>2 DEF InCustody, Connected
<1>3. QED
  BY <1>1, <1>2 DEF InCustody

\* A failed database call drops the message of its own callback, and no other.
LEMMA DatabaseFailures ==
  ASSUME NEW CONSTANT Labels, BusTypeOK(Labels), NEW m \in Messages, InCustody(m),
         NEW w \in Workers, NEW awaits \in SUBSET Labels, DatabaseFails(w, awaits)
  PROVE  InCustody(m)' \/ DroppedByAFault(m)'
<1>1. Settle(w)
  BY DEF DatabaseFails
<1>2. CASE msg[w] # m
  BY <1>1, <1>2, SettleKeepsCustody
<1>3. CASE msg[w] = m /\ Connected(w)
  BY <1>3 DEF DatabaseFails, DroppedByAFault, BusTypeOK
<1>4. CASE ~Connected(w)
  <2>1. ProcessOf[w] \in Processes /\ Restart(ProcessOf[w])
    BY <1>1, <1>4, BusAssumption DEF Settle
  <2>2. QED
    BY <2>1, RestartKeepsCustody
<1>5. QED
  BY <1>2, <1>3, <1>4

\* What a fault has dropped stays dropped.
LEMMA DropsAreFinal ==
  ASSUME NEW CONSTANT Labels, BusTypeOK(Labels), NEW m \in Messages, DroppedByAFault(m)
  PROVE  /\ \A w \in Workers :
              /\ Ack(w) \/ Nack(w) => DroppedByAFault(m)'
              /\ \A n \in Messages, entry \in Labels : Deliver(w, n, entry) => DroppedByAFault(m)'
              /\ \A awaits \in SUBSET Labels : DatabaseFails(w, awaits) => DroppedByAFault(m)'
              /\ \A l \in Labels \cup {"ack"} : Goto(w, l) => DroppedByAFault(m)'
         /\ \A p \in Processes : Crash(p) \/ CloseConnection(p) => DroppedByAFault(m)'
         /\ \A n \in Messages : Send(n) => DroppedByAFault(m)'
<1> USE DEF DroppedByAFault, BusTypeOK
<1>1. ASSUME NEW w \in Workers, Ack(w) \/ Nack(w)
      PROVE  DroppedByAFault(m)'
  BY <1>1 DEF Ack, Nack
<1>2. ASSUME NEW w \in Workers, NEW n \in Messages, NEW entry \in Labels, Deliver(w, n, entry)
      PROVE  DroppedByAFault(m)'
  BY <1>2 DEF Deliver
<1>3. ASSUME NEW w \in Workers, NEW awaits \in SUBSET Labels, DatabaseFails(w, awaits)
      PROVE  DroppedByAFault(m)'
  BY <1>3 DEF DatabaseFails
<1>4. ASSUME NEW w \in Workers, NEW l \in Labels \cup {"ack"}, Goto(w, l)
      PROVE  DroppedByAFault(m)'
  BY <1>4 DEF Goto
<1>5. ASSUME NEW p \in Processes, Crash(p) \/ CloseConnection(p)
      PROVE  DroppedByAFault(m)'
  BY <1>5 DEF Crash, CloseConnection
<1>6. ASSUME NEW n \in Messages, Send(n)
      PROVE  DroppedByAFault(m)'
  BY <1>6 DEF Send
<1>7. QED
  BY <1>1, <1>2, <1>3, <1>4, <1>5, <1>6
=============================================================================

------------------------------- MODULE Webhooks -----------------------------
(***************************************************************************)
(* api-gateway: the WebhookRegistry and the WebhookDispatcher of           *)
(* lib/webhooks, driven by the handlers of lib/webhooks-handler.           *)
(*                                                                         *)
(* The registry is two maps in the memory of one process; a handler        *)
(* changes both in one step.  dispatchEvent reads the registry once and    *)
(* then sends to each hook on its own: a POST, a wait, a POST again, up to *)
(* MaxRetries attempts, with the hook object it read at the start.  The    *)
(* module loads axios if it finds it; without it every send is skipped.    *)
(***************************************************************************)
EXTENDS Naturals

CONSTANTS
  Hooks,        \* the ids registerWebhook may draw; each is drawn once
  Events,       \* WebhookEvent
  TestEvent,    \* ORDER_CREATED, what testWebhook sends
  Dispatches,   \* calls of dispatchEvent
  MaxRetries,   \* attempts per hook and call (3 in the code)
  MaxCrashes    \* bound: how often the gateway dies

ASSUME WebhookAssumption ==
  /\ TestEvent \in Events
  /\ MaxRetries \in Nat \ {0}
  /\ MaxCrashes \in Nat

VARIABLES
  webhooks,      \* each id: "new", then "active" or "inactive" in the map, then "removed"
  events,        \* the events each registered hook asked for
  subscribers,   \* eventSubscribers: the ids to notify of each event
  called,        \* the dispatches made so far
  send,          \* each call's send to each hook: "none", "posting", "waiting",
                 \* "delivered", "failed", "skipped" or "lost" with its process
  attempt,       \* the attempt it is at
  received,      \* history: the attempts whose payload the endpoint got
  axiosLoaded,   \* whether the gateway's image has axios for require to find
  crashes

registryVars == <<webhooks, events, subscribers>>
sendVars == <<send, attempt, received>>
webhookVars ==
  <<webhooks, events, subscribers, called, send, attempt, received, axiosLoaded, crashes>>

Registered(h) == webhooks[h] \in {"active", "inactive"}

WebhookTypeOK ==
  /\ webhooks \in [Hooks -> {"new", "active", "inactive", "removed"}]
  /\ events \in [Hooks -> SUBSET Events]
  /\ subscribers \in [Events -> SUBSET Hooks]
  /\ called \in SUBSET Dispatches
  /\ send \in [Dispatches \X Hooks ->
                 {"none", "posting", "waiting", "delivered", "failed", "skipped", "lost"}]
  /\ attempt \in [Dispatches \X Hooks -> 0 .. MaxRetries]
  /\ received \in [Dispatches \X Hooks -> SUBSET (1 .. MaxRetries)]
  /\ axiosLoaded \in BOOLEAN
  /\ crashes \in 0 .. MaxCrashes

WebhookInit ==
  /\ webhooks = [h \in Hooks |-> "new"]
  /\ events = [h \in Hooks |-> {}]
  /\ subscribers = [e \in Events |-> {}]
  /\ called = {}
  /\ send = [s \in Dispatches \X Hooks |-> "none"]
  /\ attempt = [s \in Dispatches \X Hooks |-> 0]
  /\ received = [s \in Dispatches \X Hooks |-> {}]
  /\ axiosLoaded \in BOOLEAN
  /\ crashes = 0

\* ------------------------------------------------------------ the registry

RegisterWebhook(h, asked) ==
  /\ webhooks[h] = "new"
  /\ webhooks' = [webhooks EXCEPT ![h] = "active"]
  /\ events' = [events EXCEPT ![h] = asked]
  /\ subscribers' = [e \in Events |->
       IF e \in asked THEN subscribers[e] \cup {h} ELSE subscribers[e]]
  /\ UNCHANGED <<called, sendVars, axiosLoaded, crashes>>

\* A removal that leaves the ids of the other map behind.
UnregisterFirstMapOnly(h) ==
  /\ Registered(h)
  /\ webhooks' = [webhooks EXCEPT ![h] = "removed"]
  /\ events' = [events EXCEPT ![h] = {}]
  /\ UNCHANGED <<subscribers, called, sendVars, axiosLoaded, crashes>>

UnregisterWebhook(h) ==
  /\ Registered(h)
  /\ webhooks' = [webhooks EXCEPT ![h] = "removed"]
  /\ events' = [events EXCEPT ![h] = {}]
  /\ subscribers' = [e \in Events |->
       IF e \in events[h] THEN subscribers[e] \ {h} ELSE subscribers[e]]
  /\ UNCHANGED <<called, sendVars, axiosLoaded, crashes>>

SetWebhookActive(h, active) ==
  /\ Registered(h)
  /\ webhooks' = [webhooks EXCEPT ![h] = IF active THEN "active" ELSE "inactive"]
  /\ UNCHANGED <<events, subscribers, called, sendVars, axiosLoaded, crashes>>

WebhooksForEvent(e) == {h \in subscribers[e] : webhooks[h] = "active"}

\* ---------------------------------------------------------- the dispatcher

\* dispatchEvent: the hooks are read here and never again.
DispatchEvent(d, e) ==
  /\ d \notin called
  /\ called' = called \cup {d}
  /\ send' = [s \in Dispatches \X Hooks |->
       IF s[1] = d /\ s[2] \in WebhooksForEvent(e) THEN "posting" ELSE send[s]]
  /\ attempt' = [s \in Dispatches \X Hooks |->
       IF s[1] = d /\ s[2] \in WebhooksForEvent(e) THEN 1 ELSE attempt[s]]
  /\ UNCHANGED <<registryVars, received, axiosLoaded, crashes>>

\* testWebhook looks its hook up, and then notifies every hook of ORDER_CREATED.
TestWebhook(d, h) ==
  /\ Registered(h)
  /\ DispatchEvent(d, TestEvent)

\* Without a client the send is logged and over: no POST, no failure, no retry.
SkipPost(s) ==
  /\ send[s] = "posting"
  /\ ~axiosLoaded
  /\ send' = [send EXCEPT ![s] = "skipped"]
  /\ UNCHANGED <<registryVars, called, attempt, received, axiosLoaded, crashes>>

PostAnswered(s) ==
  /\ send[s] = "posting"
  /\ axiosLoaded
  /\ send' = [send EXCEPT ![s] = "delivered"]
  /\ received' = [received EXCEPT ![s] = @ \cup {attempt[s]}]
  /\ UNCHANGED <<registryVars, called, attempt, axiosLoaded, crashes>>

\* A last attempt that is never made.
PostFailsEarly(s) ==
  /\ send[s] = "posting"
  /\ axiosLoaded
  /\ send' = [send EXCEPT ![s] = IF attempt[s] + 1 < MaxRetries THEN "waiting" ELSE "failed"]
  /\ \/ received' = [received EXCEPT ![s] = @ \cup {attempt[s]}]
     \/ UNCHANGED received
  /\ UNCHANGED <<registryVars, called, attempt, axiosLoaded, crashes>>

\* The POST rejects (no connection, 5 s without an answer, an error status): the
\* endpoint has the payload or has not.
PostFails(s) ==
  /\ send[s] = "posting"
  /\ axiosLoaded
  /\ send' = [send EXCEPT ![s] = IF attempt[s] < MaxRetries THEN "waiting" ELSE "failed"]
  /\ \/ received' = [received EXCEPT ![s] = @ \cup {attempt[s]}]
     \/ UNCHANGED received
  /\ UNCHANGED <<registryVars, called, attempt, axiosLoaded, crashes>>

\* A retry that starts the count over.
RetryAfresh(s) ==
  /\ send[s] = "waiting"
  /\ send' = [send EXCEPT ![s] = "posting"]
  /\ attempt' = [attempt EXCEPT ![s] = 1]
  /\ UNCHANGED <<registryVars, called, received, axiosLoaded, crashes>>

\* The back-off is over: another attempt, whatever has become of the hook.
Retry(s) ==
  /\ send[s] = "waiting"
  /\ send' = [send EXCEPT ![s] = "posting"]
  /\ attempt' = [attempt EXCEPT ![s] = @ + 1]
  /\ UNCHANGED <<registryVars, called, received, axiosLoaded, crashes>>

\* The gateway dies and is started again: nothing of this is stored anywhere.
GatewayCrash ==
  /\ crashes < MaxCrashes
  /\ crashes' = crashes + 1
  /\ webhooks' = [h \in Hooks |-> IF webhooks[h] = "new" THEN "new" ELSE "removed"]
  /\ events' = [h \in Hooks |-> {}]
  /\ subscribers' = [e \in Events |-> {}]
  /\ send' = [s \in Dispatches \X Hooks |->
       IF send[s] \in {"posting", "waiting"} THEN "lost" ELSE send[s]]
  /\ UNCHANGED <<called, attempt, received, axiosLoaded>>

Post(s) == SkipPost(s) \/ PostAnswered(s) \/ PostFails(s)

WebhookNext ==
  \/ \E h \in Hooks : UnregisterWebhook(h)
  \/ \E h \in Hooks, asked \in SUBSET Events \ {{}} : RegisterWebhook(h, asked)
  \/ \E h \in Hooks, active \in BOOLEAN : SetWebhookActive(h, active)
  \/ \E d \in Dispatches, e \in Events : DispatchEvent(d, e)
  \/ \E d \in Dispatches, h \in Hooks : TestWebhook(d, h)
  \/ \E s \in Dispatches \X Hooks : Post(s) \/ Retry(s)
  \/ GatewayCrash

WebhookSpec == WebhookInit /\ [][WebhookNext]_webhookVars

\* A send without a client returns, axios settles every POST (it has a timeout of 5 s),
\* and every timer fires.
WebhookFairness == \A s \in Dispatches \X Hooks : WF_webhookVars(Post(s)) /\ WF_webhookVars(Retry(s))

FairWebhookSpec == WebhookSpec /\ WebhookFairness
-----------------------------------------------------------------------------
Busy(s) == send[s] \in {"posting", "waiting"}

\* The two maps agree after any sequence of handlers: an id is subscribed to an event
\* exactly when its hook is registered and asked for it.
MapsAgree ==
  \A h \in Hooks, e \in Events : h \in subscribers[e] <=> Registered(h) /\ e \in events[h]

\* Duplicates come from retries alone, what counts as delivered was received, and a
\* process without axios sends nothing and retries nothing.
ReceiptsAreAttempts ==
  \A s \in Dispatches \X Hooks :
    /\ \A k \in received[s] : k < attempt[s] \/ (k = attempt[s] /\ send[s] # "posting")
    /\ send[s] = "posting" => attempt[s] > 0
    /\ send[s] = "waiting" => attempt[s] < MaxRetries
    /\ send[s] = "delivered" => attempt[s] \in received[s]
    /\ send[s] = "none" => attempt[s] = 0
    /\ s[1] \notin called => send[s] = "none"
    /\ send[s] = "skipped" \/ (send[s] = "posting" /\ ~axiosLoaded) =>
         attempt[s] = 1 /\ received[s] = {}
    /\ send[s] = "waiting" => axiosLoaded

WebhookIInv == WebhookTypeOK /\ MapsAgree /\ ReceiptsAreAttempts

\* A hook that was removed is still sent what was retrying when it went, and then
\* nothing any more.
RemovedHooksFallSilent ==
  \A h \in Hooks : webhooks[h] = "removed" ~> [](\A d \in Dispatches : ~Busy(<<d, h>>))

\* A hook that was read for an event receives it, or failed MaxRetries times, unless the
\* gateway dies meanwhile: whatever is done to the hook in between.  Only without axios is
\* the send over with nothing sent, and then at its first attempt.
EveryReadHookIsNotified ==
  \A s \in Dispatches \X Hooks :
    Busy(s) ~> \/ received[s] # {}
               \/ send[s] = "failed" /\ attempt[s] = MaxRetries
               \/ send[s] = "skipped" /\ attempt[s] = 1 /\ received[s] = {} /\ ~axiosLoaded
               \/ send[s] = "lost"
=============================================================================

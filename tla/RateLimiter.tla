----------------------------- MODULE RateLimiter ----------------------------
(***************************************************************************)
(* api-gateway: PlanBasedRateLimiter of lib/planBasedRateLimit and the two *)
(* middlewares in front of it.  A request first passes the gate of its     *)
(* plan and may then pass the weighted gate of an expensive endpoint; each *)
(* gate that admits it adds 1 to its user's concurrentCount and hangs a    *)
(* decrement on both 'finish' and 'close' of the response.                 *)
(*                                                                         *)
(* The limiter runs in one Node process: isRequestAllowed and the          *)
(* increment that follows are one step.  Time is a bounded clock of ticks; *)
(* the three windows are 1 (minute), 2 (hour) and 3 (day).                 *)
(***************************************************************************)
EXTENDS Naturals, FiniteSets

CONSTANTS
  UserIds,
  RequestSlots,   \* a slot that is idle again may serve another request
  UserOf,         \* whose requests a slot carries
  NoBucket,       \* "the limiter holds no bucket for this user"
  Limit,          \* [user -> [window -> requests]] of the user's plan
  MaxConcurrent,  \* concurrentRequests of the user's plan
  FreeTokens,     \* requestsPerMinute of the FREE plan
  Refill,         \* tokens a plan gains in a tick
  Length,         \* [window -> ticks] of a minute, an hour and a day
  Weights,        \* weights the endpoints declare
  MaxClock        \* bound: the last tick

Windows == 1 .. 3
Gates == {"plan", "endpoint"}

ASSUME LimiterAssumption ==
  /\ IsFiniteSet(RequestSlots)
  /\ UserOf \in [RequestSlots -> UserIds]
  /\ Limit \in [UserIds -> [Windows -> Nat]]
  /\ MaxConcurrent \in [UserIds -> Nat]
  /\ FreeTokens \in Nat
  /\ Refill \in [UserIds -> Nat]
  /\ Length \in [Windows -> Nat \ {0}]
  /\ \A i \in Windows : Length[i] <= Length[3]   \* no window is longer than a day
  /\ Weights \subseteq Nat
  /\ MaxClock \in Nat

Bucket ==
  [tokens : Nat, lastRefillTime : Nat, concurrentCount : Nat,
   key : [Windows -> Nat], count : [Windows -> Nat]]

ASSUME BucketAssumption == NoBucket \notin Bucket

VARIABLES
  clock,
  buckets,    \* each user's bucket, or NoBucket
  status,     \* "idle"; "open": being served; "refused": a 429 is on its way out;
              \* "finished": answered, its 'close' still to come
  held,       \* the gates that have admitted the request
  admitted,   \* history: weight let in during each current window since the last reset
  leaked      \* history: a late 'close' or a reset has made the counter forget a request

limiterVars == <<clock, buckets, status, held, admitted, leaked>>

LimiterTypeOK ==
  /\ clock \in 0 .. MaxClock
  /\ buckets \in [UserIds -> Bucket \cup {NoBucket}]
  /\ status \in [RequestSlots -> {"idle", "open", "refused", "finished"}]
  /\ held \in [RequestSlots -> SUBSET Gates]
  /\ admitted \in [UserIds -> [Windows -> Nat]]
  /\ leaked \in [UserIds -> BOOLEAN]

LimiterInit ==
  /\ clock = 0
  /\ buckets = [u \in UserIds |-> NoBucket]
  /\ status = [r \in RequestSlots |-> "idle"]
  /\ held = [r \in RequestSlots |-> {}]
  /\ admitted = [u \in UserIds |-> [i \in Windows |-> 0]]
  /\ leaked = [u \in UserIds |-> FALSE]

Lesser(a, b) == IF a < b THEN a ELSE b
Minus(a, b) == IF a < b THEN 0 ELSE a - b

\* The admissions of u whose responses are not over yet, one for each gate passed.
Running(u) ==
  {x \in RequestSlots \X Gates : /\ UserOf[x[1]] = u
                             /\ status[x[1]] \in {"open", "refused"}
                             /\ x[2] \in held[x[1]]}

\* ------------------------------------------------------- isRequestAllowed

Key(i) == clock \div Length[i]

NewBucket ==
  [tokens |-> FreeTokens, lastRefillTime |-> clock, concurrentCount |-> 0,
   key |-> [i \in Windows |-> Key(i)], count |-> [i \in Windows |-> 0]]

Existing(u) == IF buckets[u] = NoBucket THEN NewBucket ELSE buckets[u]

\* A check that lets one request too many in.
CrowdedLate(u) == Existing(u).concurrentCount > MaxConcurrent[u]

Crowded(u) == Existing(u).concurrentCount >= MaxConcurrent[u]

Refilled(u) ==
  Lesser(Limit[u][1],
         Existing(u).tokens + Refill[u] * Minus(clock, Existing(u).lastRefillTime))

\* Counts saturate one above the limit (bound): past it only "too many" matters.
Counted(u, i, weight) ==
  LET b == Existing(u)
  IN  Lesser(Limit[u][i] + 1, (IF b.key[i] = Key(i) THEN b.count[i] ELSE 0) + weight)

Over(u, i, weight) == Counted(u, i, weight) > Limit[u][i]

\* The windows a call counts in: a refusal by one leaves the longer ones alone.
Reached(u, i, weight) == \A j \in Windows : j < i => ~Over(u, j, weight)

Allowed(u, weight) ==
  /\ \A i \in Windows : ~Over(u, i, weight)
  /\ Refilled(u) >= weight

\* The bucket after a call; a refused call has been counted all the same.
Charged(u, weight) ==
  [tokens |-> IF Allowed(u, weight) THEN Refilled(u) - weight ELSE Refilled(u),
   lastRefillTime |-> clock,
   concurrentCount |-> IF Allowed(u, weight) THEN Existing(u).concurrentCount + 1
                       ELSE Existing(u).concurrentCount,
   key |-> [i \in Windows |->
              IF Reached(u, i, weight) THEN Key(i) ELSE Existing(u).key[i]],
   count |-> [i \in Windows |->
                IF Reached(u, i, weight) THEN Counted(u, i, weight)
                ELSE Existing(u).count[i]]]

\* ---------------------------------------------------------- the middlewares

Admit(r, gate, weight) ==
  LET u == UserOf[r]
  IN  /\ ~Crowded(u)
      /\ Allowed(u, weight)
      /\ buckets' = [buckets EXCEPT ![u] = Charged(u, weight)]
      /\ status' = [status EXCEPT ![r] = "open"]
      /\ held' = [held EXCEPT ![r] = @ \cup {gate}]
      /\ admitted' = [admitted EXCEPT ![u] = [i \in Windows |-> @[i] + weight]]
      /\ UNCHANGED <<clock, leaked>>

\* A 429: the concurrency check comes before any counting.
Refuse(r, weight, next) ==
  LET u == UserOf[r]
  IN  /\ \/ Crowded(u) /\ buckets' = [buckets EXCEPT ![u] = Existing(u)]
         \/ /\ ~Crowded(u)
            /\ ~Allowed(u, weight)
            /\ buckets' = [buckets EXCEPT ![u] = Charged(u, weight)]
      /\ status' = [status EXCEPT ![r] = next]
      /\ UNCHANGED <<clock, held, admitted, leaked>>

\* planBasedRateLimitMiddleware: a request refused here never reached a counter.
PassPlan(r) ==
  /\ status[r] = "idle"
  /\ Admit(r, "plan", 1) \/ Refuse(r, 1, "idle")

\* endpointRateLimitMiddleware, behind the gate of the plan: the request it refuses
\* still holds the other gate's listeners.
PassEndpoint(r, weight) ==
  /\ status[r] = "open"
  /\ held[r] = {"plan"}
  /\ Admit(r, "endpoint", weight) \/ Refuse(r, weight, "refused")

\* decrementConcurrent, once for each gate the request passed: not below zero, and
\* nothing where there is no bucket.
Decremented(r) ==
  LET u == UserOf[r]
  IN  IF buckets[u] = NoBucket THEN buckets
      ELSE [buckets EXCEPT ![u].concurrentCount = Minus(@, Cardinality(held[r]))]

\* 'finish': the response has been handed to the socket.
Finish(r) ==
  /\ status[r] \in {"open", "refused"}
  /\ buckets' = Decremented(r)
  /\ status' = [status EXCEPT ![r] = "finished"]
  /\ UNCHANGED <<clock, held, admitted, leaked>>

\* 'close' on the same listener list, with a floor that wraps to the limit.
CloseWithoutFloor(r) ==
  /\ status[r] # "idle"
  /\ buckets' = [buckets EXCEPT ![UserOf[r]] =
                   IF @ = NoBucket THEN @
                   ELSE [@ EXCEPT !.concurrentCount =
                           IF @ = 0 THEN MaxConcurrent[UserOf[r]] ELSE @ - 1]]
  /\ status' = [status EXCEPT ![r] = "idle"]
  /\ held' = [held EXCEPT ![r] = {}]
  /\ UNCHANGED <<clock, admitted, leaked>>

\* 'close': after 'finish', or alone when the client hangs up.  Coming second, it takes
\* the counts of the user's other requests.
Close(r) ==
  LET u == UserOf[r]
  IN  /\ status[r] # "idle"
      /\ buckets' = Decremented(r)
      /\ status' = [status EXCEPT ![r] = "idle"]
      /\ held' = [held EXCEPT ![r] = {}]
      /\ leaked' = [leaked EXCEPT ![u] = @ \/ (status[r] = "finished" /\ Running(u) # {})]
      /\ UNCHANGED <<clock, admitted>>

\* -------------------------------------------------- administration, time

\* resetUserRateLimit: the bucket goes, with the count of what is running.
ResetLimits(u) ==
  /\ buckets[u] # NoBucket
  /\ buckets' = [buckets EXCEPT ![u] = NoBucket]
  /\ admitted' = [admitted EXCEPT ![u] = [i \in Windows |-> 0]]
  /\ leaked' = [leaked EXCEPT ![u] = @ \/ Running(u) # {}]
  /\ UNCHANGED <<clock, status, held>>

\* A cleanup after an hour without a call.
CleanupHourly ==
  /\ buckets' = [u \in UserIds |->
       IF /\ buckets[u] # NoBucket
          /\ clock > buckets[u].lastRefillTime + Length[2]
          /\ buckets[u].concurrentCount = 0
       THEN NoBucket ELSE buckets[u]]
  /\ buckets' # buckets
  /\ UNCHANGED <<clock, status, held, admitted, leaked>>

\* The sweep drops the buckets nobody has used for a day.
Cleanup ==
  /\ buckets' = [u \in UserIds |->
       IF /\ buckets[u] # NoBucket
          /\ clock > buckets[u].lastRefillTime + Length[3]
          /\ buckets[u].concurrentCount = 0
       THEN NoBucket ELSE buckets[u]]
  /\ buckets' # buckets
  /\ UNCHANGED <<clock, status, held, admitted, leaked>>

TimePasses ==
  /\ clock < MaxClock
  /\ clock' = clock + 1
  /\ admitted' = [u \in UserIds |-> [i \in Windows |->
                    IF Key(i)' = Key(i) THEN admitted[u][i] ELSE 0]]
  /\ UNCHANGED <<buckets, status, held, leaked>>

LimiterNext ==
  \/ \E r \in RequestSlots : PassPlan(r) \/ Finish(r) \/ Close(r)
  \/ \E r \in RequestSlots, weight \in Weights : PassEndpoint(r, weight)
  \/ \E u \in UserIds : ResetLimits(u)
  \/ Cleanup
  \/ TimePasses

LimiterSpec == LimiterInit /\ [][LimiterNext]_limiterVars
-----------------------------------------------------------------------------
\* The counter never exceeds what is running: however 'finish', 'close', refusals at the
\* second gate, resets and sweeps interleave, a user is not locked out by a count that
\* no response will take back.
CountIsOwed ==
  \A u \in UserIds : buckets[u] # NoBucket =>
    buckets[u].concurrentCount <= Cardinality(Running(u))

LimiterIInv == LimiterTypeOK /\ CountIsOwed

\* What a window lets in stays within the plan's limit, across sweeps that drop the
\* bucket: only an administrator's reset opens it again.
WindowsHold == \A u \in UserIds, i \in Windows : admitted[u][i] <= Limit[u][i]

\* The plan's concurrency is respected until the 'close' of an answered request comes
\* while the user has others running (or an administrator resets the user).
ConcurrencyHoldsAtFirst ==
  \A u \in UserIds : ~leaked[u] => Cardinality(Running(u)) <= MaxConcurrent[u]
=============================================================================

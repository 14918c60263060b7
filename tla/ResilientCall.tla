---------------------------- MODULE ResilientCall ---------------------------
(***************************************************************************)
(* packages/resilience: the three helpers around one operation,            *)
(*   retryWithBackoff(() => breaker.execute(() => withTimeout(fn(), ms)))  *)
(* by several callers that share the breaker.                              *)
(*                                                                         *)
(* withTimeout only races: an attempt it gives up goes on, and may take    *)
(* effect while the next attempt runs or after the caller was told that it *)
(* failed.                                                                 *)
(***************************************************************************)
EXTENDS CircuitBreaker

CONSTANT MaxRetries   \* retries after the first attempt (3 in the code)

ASSUME RetryAssumption == MaxRetries \in Nat

Attempts == 0 .. MaxRetries

VARIABLES
  caller,     \* "idle", "try", "await", "backoff", and "returned" or "threw"
  attempt,    \* the loop variable of each retryWithBackoff
  running,    \* the attempts whose operation is under way
  took,       \* history: the attempts whose operation took effect
  timedOut    \* history: the attempts withTimeout gave up

retryVars == <<caller, attempt, running, took, timedOut>>
allVars == <<state, failureCount, successCount, sinceFailure, call, outage,
             caller, attempt, running, took, timedOut>>

RetryTypeOK ==
  /\ caller \in [Calls -> {"idle", "try", "await", "backoff", "returned", "threw"}]
  /\ attempt \in [Calls -> Attempts]
  /\ running \in [Calls -> SUBSET Attempts]
  /\ took \in [Calls -> SUBSET Attempts]
  /\ timedOut \in [Calls -> SUBSET Attempts]

RetryInit ==
  /\ Init
  /\ caller = [c \in Calls |-> "idle"]
  /\ attempt = [c \in Calls |-> 0]
  /\ running = [c \in Calls |-> {}]
  /\ took = [c \in Calls |-> {}]
  /\ timedOut = [c \in Calls |-> {}]

Settled(c) == caller[c] \in {"idle", "returned", "threw"}

\* A new call in the slot; late operations of the one before are no longer followed.
Request(c) ==
  /\ Settled(c)
  /\ caller' = [caller EXCEPT ![c] = "try"]
  /\ attempt' = [attempt EXCEPT ![c] = 0]
  /\ running' = [running EXCEPT ![c] = {}]
  /\ took' = [took EXCEPT ![c] = {}]
  /\ timedOut' = [timedOut EXCEPT ![c] = {}]
  /\ UNCHANGED vars

\* A loop that waits for one more attempt than it makes.
GiveUpNever(c) == caller' = [caller EXCEPT ![c] = "backoff"]

\* The catch of the loop: the last attempt's error is thrown, any other waited out.
CatchError(c) ==
  caller' = [caller EXCEPT ![c] = IF attempt[c] = MaxRetries THEN "threw" ELSE "backoff"]

\* The delay is bounded (maxDelayMs); how long it is plays no part.
Backoff(c) ==
  /\ caller[c] = "backoff"
  /\ caller' = [caller EXCEPT ![c] = "try"]
  /\ attempt' = [attempt EXCEPT ![c] = IF @ < MaxRetries THEN @ + 1 ELSE @]
  /\ UNCHANGED <<vars, running, took, timedOut>>

\* execute lets the attempt through and fn is called...
Start(c) ==
  /\ caller[c] = "try"
  /\ Admit(c)
  /\ caller' = [caller EXCEPT ![c] = "await"]
  /\ running' = [running EXCEPT ![c] = @ \cup {attempt[c]}]
  /\ UNCHANGED <<attempt, took, timedOut>>

\* ...or throws at once: an open breaker's rejection is retried like any other error.
Reject(c) ==
  /\ caller[c] = "try"
  /\ CurrentState = "OPEN"
  /\ CatchError(c)
  /\ UNCHANGED <<vars, attempt, running, took, timedOut>>

\* The awaited operation succeeds.
Return(c) ==
  /\ caller[c] = "await"
  /\ SucceedHalfOpen(c) \/ SucceedClosed(c)
  /\ caller' = [caller EXCEPT ![c] = "returned"]
  /\ running' = [running EXCEPT ![c] = @ \ {attempt[c]}]
  /\ took' = [took EXCEPT ![c] = @ \cup {attempt[c]}]
  /\ UNCHANGED <<attempt, timedOut>>

\* The awaited operation fails, without effect.
Throw(c) ==
  /\ caller[c] = "await"
  /\ Fail(c)
  /\ CatchError(c)
  /\ running' = [running EXCEPT ![c] = @ \ {attempt[c]}]
  /\ UNCHANGED <<attempt, took, timedOut>>

\* The timer wins the race; the breaker counts a failure and the operation goes on.
TimeOut(c) ==
  /\ caller[c] = "await"
  /\ Fail(c)
  /\ CatchError(c)
  /\ timedOut' = [timedOut EXCEPT ![c] = @ \cup {attempt[c]}]
  /\ UNCHANGED <<attempt, running, took>>

\* The answer of an operation given up is taken for the one that is awaited.
FinishLateForTheCaller(c, k) ==
  /\ k \in running[c] \cap timedOut[c]
  /\ running' = [running EXCEPT ![c] = @ \ {k}]
  /\ took' = [took EXCEPT ![c] = @ \cup {k}]
  /\ caller' = [caller EXCEPT ![c] = IF @ = "await" THEN "returned" ELSE @]
  /\ UNCHANGED <<vars, attempt, timedOut>>

\* An operation that was given up ends, with its effect or without; its result is
\* dropped by the race.
FinishLate(c, k) ==
  /\ k \in running[c] \cap timedOut[c]
  /\ running' = [running EXCEPT ![c] = @ \ {k}]
  /\ \/ took' = [took EXCEPT ![c] = @ \cup {k}]
     \/ UNCHANGED took
  /\ UNCHANGED <<vars, caller, attempt, timedOut>>

Elapse == Tick /\ UNCHANGED retryVars
EndOutage == Recover /\ UNCHANGED retryVars
ReadState == Read /\ UNCHANGED retryVars

RetryNext ==
  \/ \E c \in Calls : Request(c) \/ Backoff(c) \/ Start(c) \/ Reject(c)
                      \/ Return(c) \/ Throw(c) \/ TimeOut(c)
  \/ \E c \in Calls, k \in Attempts : FinishLate(c, k)
  \/ Elapse
  \/ EndOutage
  \/ ReadState

RetrySpec == RetryInit /\ [][RetryNext]_allVars

\* Time passes, callers keep calling, timers fire, and an attempt ends in one of the
\* three ways.  Nothing is assumed of an operation that was given up.
RetryFairness ==
  /\ WF_allVars(Elapse)
  /\ \A c \in Calls : /\ WF_allVars(Request(c))
                      /\ WF_allVars(Start(c) \/ Reject(c))
                      /\ WF_allVars(Backoff(c))
                      /\ WF_allVars(Return(c) \/ Throw(c) \/ TimeOut(c))

FairRetrySpec == RetrySpec /\ RetryFairness
-----------------------------------------------------------------------------
\* What a caller is told against what happened.  A call that returned took effect with its
\* last attempt; a call that threw may have taken effect all the same, and one call may
\* take effect several times, but only through attempts withTimeout had given up.
EffectsAreAccountedFor ==
  \A c \in Calls :
    /\ caller[c] = "returned" => attempt[c] \in took[c]
    /\ caller[c] = "threw" => attempt[c] = MaxRetries /\ took[c] \subseteq timedOut[c]
    /\ \A i, j \in took[c] : i < j => i \in timedOut[c]
    /\ \A i \in took[c] \cup running[c] : i <= attempt[c]
    /\ caller[c] = "await" <=> call[c] # "idle"

\* Whatever the breaker's state and however the operation hangs, a call is answered: the
\* retries are bounded and an open breaker uses them up.
EveryCallIsAnswered == \A c \in Calls : caller[c] = "try" ~> caller[c] \in {"returned", "threw"}
=============================================================================

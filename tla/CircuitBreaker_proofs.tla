----------------------- MODULE CircuitBreaker_proofs ------------------------
(***************************************************************************)
(* Theorems about the circuit breaker, for any thresholds and timeout: its *)
(* promises for any number of overlapping calls, those it keeps only for a *)
(* caller that makes one call at a time, and what becomes of them and of   *)
(* the callers when retries and timeouts are put around it.                *)
(***************************************************************************)
EXTENDS ResilientCall, TLAPS

\* A new breaker is closed with no failure on count.
LEMMA InitIInv == Init => IInv
BY BreakerAssumption
   DEF Init, IInv, TypeOK, States, ClosedBelowThreshold, OpenKnowsItsFailure

\* No call, reading of the state or passing of time breaks the invariant.
LEMMA NextIInv == IInv /\ [Next]_vars => IInv'
<1> SUFFICES ASSUME IInv, [Next]_vars PROVE IInv'
  OBVIOUS
<1> USE BreakerAssumption
        DEF IInv, TypeOK, States, ClosedBelowThreshold, OpenKnowsItsFailure
<1>1. ASSUME NEW c \in Calls, Admit(c) PROVE IInv'
  <2>1. call' \in [Calls -> {"idle", "CLOSED", "HALF_OPEN"}]
    BY <1>1 DEF Admit, CurrentState
  <2>2. QED
    BY <1>1, <2>1 DEF Admit, getState, CurrentState, TimeoutPassed
<1>2. ASSUME NEW c \in Calls, SucceedHalfOpen(c) PROVE IInv'
  BY <1>2 DEF SucceedHalfOpen, reset
<1>3. ASSUME NEW c \in Calls, SucceedClosed(c) PROVE IInv'
  BY <1>3 DEF SucceedClosed
<1>4. ASSUME NEW c \in Calls, Fail(c) PROVE IInv'
  BY <1>4 DEF Fail, CountedFailures
<1>5. CASE Read
  BY <1>5 DEF Read, getState, CurrentState, TimeoutPassed
<1>6. CASE Tick
  BY <1>6 DEF Tick
<1>7. CASE Recover
  BY <1>7 DEF Recover
<1>8. CASE UNCHANGED vars
  BY <1>8 DEF vars
<1>9. QED
  BY <1>1, <1>2, <1>3, <1>4, <1>5, <1>6, <1>7, <1>8 DEF Next, Settle

\* However calls overlap: never CLOSED at the threshold, never OPEN without the
\* time of the failure that lets it try again.
THEOREM BreakerInvariant == Spec => []IInv
BY InitIInv, NextIInv, PTL DEF Spec

\* However calls overlap: only the timeout or a late trial ends OPEN.
THEOREM BreakerStaysOpen == Spec => OnlyLateTrialsCutTheTimeout
<1>1. IInv /\ [Next]_vars
        => [state = "OPEN" /\ state' # "OPEN" =>
              TimeoutPassed \/ \E c \in Calls : call[c] = "HALF_OPEN" /\ call'[c] = "idle"]_vars
  <2> SUFFICES ASSUME IInv, Next, state = "OPEN", state' # "OPEN"
               PROVE  TimeoutPassed \/ \E c \in Calls : call[c] = "HALF_OPEN" /\ call'[c] = "idle"
    BY DEF vars
  <2>1. ASSUME NEW c \in Calls, SucceedHalfOpen(c)
        PROVE  call[c] = "HALF_OPEN" /\ call'[c] = "idle"
    BY <2>1 DEF SucceedHalfOpen, IInv, TypeOK
  <2>2. ASSUME NEW c \in Calls, SucceedClosed(c) \/ Fail(c)
        PROVE  FALSE
    BY <2>2 DEF SucceedClosed, Fail
  <2>3. CASE Read \/ \E c \in Calls : Admit(c)
    BY <2>3 DEF Read, Admit, getState, CurrentState
  <2>4. ~Tick /\ ~Recover
    BY DEF Tick, Recover
  <2>5. QED
    BY <2>1, <2>2, <2>3, <2>4 DEF Next, Settle
<1>2. QED
  BY <1>1, BreakerInvariant, PTL DEF Spec, OnlyLateTrialsCutTheTimeout
-----------------------------------------------------------------------------
\* One caller, one call at a time: the call settles in the state it was admitted in,
\* and a breaker that is not CLOSED still has its failures counted.
Serial ==
  /\ \A c \in Calls : call[c] # "idle" => call[c] = state
  /\ state # "CLOSED" => failureCount = FailureThreshold

\* An open breaker stays open until the timeout has passed since the last failure.
OpenForTheTimeout == [][state = "OPEN" /\ state' # "OPEN" => TimeoutPassed]_vars

\* A trial that fails opens the breaker again.
FailedTrialReopens == [][\A c \in Calls : call[c] = "HALF_OPEN" /\ Fail(c) => state' = "OPEN"]_vars

\* With a single caller, the call under way always read the state the breaker is in.
LEMMA NextSerial ==
  ASSUME NEW b, Calls = {b}, IInv, Serial, [Next]_vars
  PROVE  Serial'
<1> USE BreakerAssumption DEF Serial, IInv, TypeOK, States
<1>1. ASSUME NEW c \in Calls, Admit(c) PROVE Serial'
  <2>1. call' = [call EXCEPT ![c] = state']
    BY <1>1 DEF Admit, getState
  <2>2. state # "CLOSED" <=> state' # "CLOSED"
    BY <1>1 DEF Admit, getState, CurrentState
  <2>3. QED
    BY <1>1, <2>1, <2>2 DEF Admit
<1>2. ASSUME NEW c \in Calls, SucceedHalfOpen(c) PROVE Serial'
  BY <1>2 DEF SucceedHalfOpen, reset
<1>3. ASSUME NEW c \in Calls, SucceedClosed(c) PROVE Serial'
  BY <1>3 DEF SucceedClosed
<1>4. ASSUME NEW c \in Calls, Fail(c) PROVE Serial'
  BY <1>4 DEF Fail, CountedFailures
<1>5. CASE Read
  <2>1. state' = state \/ (state = "OPEN" /\ state' = "HALF_OPEN")
    BY <1>5 DEF Read, getState, CurrentState
  <2>2. QED
    BY <1>5, <2>1 DEF Read
<1>6. CASE Tick \/ Recover
  BY <1>6 DEF Tick, Recover
<1>7. CASE UNCHANGED vars
  BY <1>7 DEF vars
<1>8. QED
  BY <1>1, <1>2, <1>3, <1>4, <1>5, <1>6, <1>7 DEF Next, Settle

\* With a single caller, Serial holds in every reachable state.
LEMMA SerialInvariant ==
  ASSUME NEW b, Calls = {b}
  PROVE  Spec => []Serial
<1>1. Init => Serial
  BY DEF Init, Serial
<1>2. IInv /\ Serial /\ [Next]_vars => Serial'
  BY NextSerial
<1>3. QED
  BY <1>1, <1>2, BreakerInvariant, PTL DEF Spec

\* One call at a time: the breaker stays open for its whole timeout.
THEOREM SerialStaysOpen ==
  ASSUME NEW b, Calls = {b}
  PROVE  Spec => OpenForTheTimeout
<1>1. IInv /\ Serial /\ [Next]_vars => [state = "OPEN" /\ state' # "OPEN" => TimeoutPassed]_vars
  <2> SUFFICES ASSUME IInv, Serial, Next, state = "OPEN", state' # "OPEN"
               PROVE  TimeoutPassed
    BY DEF vars
  <2>1. \A c \in Calls : ~Settle(c)
    BY DEF Settle, SucceedHalfOpen, SucceedClosed, Fail, Serial, IInv, TypeOK
  <2>2. Read \/ \E c \in Calls : Admit(c)
    BY <2>1 DEF Next, Tick, Recover
  <2>3. QED
    BY <2>2 DEF Read, Admit, getState, CurrentState
<1>2. QED
  BY <1>1, BreakerInvariant, SerialInvariant, PTL DEF Spec, OpenForTheTimeout

\* One call at a time: a trial that fails opens the breaker again.
THEOREM SerialReopens ==
  ASSUME NEW b, Calls = {b}
  PROVE  Spec => FailedTrialReopens
<1>1. IInv /\ Serial /\ [Next]_vars
        => [\A c \in Calls : call[c] = "HALF_OPEN" /\ Fail(c) => state' = "OPEN"]_vars
  BY BreakerAssumption DEF IInv, TypeOK, Serial, Fail, CountedFailures
<1>2. QED
  BY <1>1, BreakerInvariant, SerialInvariant, PTL DEF Spec, FailedTrialReopens
-----------------------------------------------------------------------------
(***************************************************************************)
(* Retries and timeouts around the breaker.  To the breaker a caller that  *)
(* retries is a caller like any other: ResilientCall implements            *)
(* CircuitBreaker, and what holds of the breaker holds among its callers.  *)
(***************************************************************************)

\* Each step of a caller is a step of the breaker, or leaves it alone.
LEMMA RetryStepsAreBreakerSteps == [RetryNext]_allVars => [Next]_vars
<1> SUFFICES ASSUME [RetryNext]_allVars PROVE [Next]_vars
  OBVIOUS
<1>1. ASSUME NEW c \in Calls, Start(c) PROVE Next
  BY <1>1 DEF Start, Next
<1>2. ASSUME NEW c \in Calls, Return(c) \/ Throw(c) \/ TimeOut(c) PROVE Next
  BY <1>2 DEF Return, Throw, TimeOut, Next, Settle
<1>3. ASSUME NEW c \in Calls, Request(c) \/ Backoff(c) \/ Reject(c) PROVE UNCHANGED vars
  BY <1>3 DEF Request, Backoff, Reject
<1>4. ASSUME NEW c \in Calls, NEW k \in Attempts, FinishLate(c, k) PROVE UNCHANGED vars
  BY <1>4 DEF FinishLate
<1>5. CASE Elapse \/ EndOutage \/ ReadState
  BY <1>5 DEF Elapse, EndOutage, ReadState, Next
<1>6. CASE UNCHANGED allVars
  BY <1>6 DEF allVars, vars
<1>7. QED
  BY <1>1, <1>2, <1>3, <1>4, <1>5, <1>6 DEF RetryNext

\* Retries and timeouts do to the breaker only what calls do.
THEOREM RetryImplementsBreaker == RetrySpec => Spec
<1>1. RetryInit => Init
  BY DEF RetryInit
<1>2. QED
  BY <1>1, RetryStepsAreBreakerSteps, PTL DEF RetrySpec, Spec

\* The breaker's promises, among callers that retry and give up.
THEOREM RetryKeepsBreaker == RetrySpec => []IInv /\ OnlyLateTrialsCutTheTimeout
BY RetryImplementsBreaker, BreakerInvariant, BreakerStaysOpen, PTL

\* An operation that was not given up takes effect only by returning.
OthersWereGivenUp ==
  \A c \in Calls :
    took[c] \subseteq timedOut[c] \cup (IF caller[c] = "returned" THEN {attempt[c]} ELSE {})

CallersIInv == RetryTypeOK /\ EffectsAreAccountedFor /\ OthersWereGivenUp

\* Starting a call, waiting, and being let in or turned away: nothing takes effect.
LEMMA WaitingSteps ==
  ASSUME IInv, CallersIInv, NEW c \in Calls,
         Request(c) \/ Backoff(c) \/ Start(c) \/ Reject(c)
  PROVE  CallersIInv'
<1> USE RetryAssumption
        DEF CallersIInv, RetryTypeOK, EffectsAreAccountedFor, OthersWereGivenUp, Attempts
<1>1. CASE Request(c)
  BY <1>1 DEF Request, Settled, vars
<1>2. CASE Backoff(c)
  BY <1>2 DEF Backoff, vars
<1>3. CASE Start(c)
  <2>1. call[c] = "idle" /\ call' = [call EXCEPT ![c] = CurrentState] /\ CurrentState # "OPEN"
    BY <1>3 DEF Start, Admit
  <2>2. CurrentState # "idle" /\ call \in [Calls -> {"idle", "CLOSED", "HALF_OPEN"}]
    BY DEF CurrentState, IInv, TypeOK, States
  <2>3. QED
    BY <1>3, <2>1, <2>2 DEF Start
<1>4. CASE Reject(c)
  BY <1>4 DEF Reject, CatchError, vars
<1>5. QED
  BY <1>1, <1>2, <1>3, <1>4

\* The end of an attempt, awaited or given up.
LEMMA EndingAttempts ==
  ASSUME IInv, CallersIInv, NEW c \in Calls,
         \/ Return(c) \/ Throw(c) \/ TimeOut(c)
         \/ \E k \in Attempts : FinishLate(c, k)
  PROVE  CallersIInv'
<1> USE RetryAssumption
        DEF CallersIInv, RetryTypeOK, EffectsAreAccountedFor, OthersWereGivenUp, Attempts
<1>1. ASSUME SucceedHalfOpen(c) \/ SucceedClosed(c) \/ Fail(c)
      PROVE  call' = [call EXCEPT ![c] = "idle"] /\ call \in [Calls -> {"idle", "CLOSED", "HALF_OPEN"}]
  BY <1>1 DEF SucceedHalfOpen, SucceedClosed, Fail, IInv, TypeOK
<1>2. CASE Return(c)
  BY <1>1, <1>2 DEF Return
<1>3. CASE Throw(c)
  BY <1>1, <1>3 DEF Throw, CatchError
<1>4. CASE TimeOut(c)
  BY <1>1, <1>4 DEF TimeOut, CatchError
<1>5. ASSUME NEW k \in Attempts, FinishLate(c, k) PROVE CallersIInv'
  BY <1>5 DEF FinishLate, vars
<1>6. QED
  BY <1>2, <1>3, <1>4, <1>5

\* Whatever is retried and given up: a call that returned took effect with its last
\* attempt, and all other effects are those of attempts withTimeout gave up.
THEOREM CallersAreToldTheTruth == RetrySpec => []EffectsAreAccountedFor
<1>1. RetryInit => CallersIInv
  BY RetryAssumption DEF RetryInit, Init, CallersIInv, RetryTypeOK, EffectsAreAccountedFor,
                         OthersWereGivenUp, Attempts
<1>2. IInv /\ CallersIInv /\ [RetryNext]_allVars => CallersIInv'
  <2> SUFFICES ASSUME IInv, CallersIInv, [RetryNext]_allVars PROVE CallersIInv'
    OBVIOUS
  <2>1. CASE Elapse \/ EndOutage \/ ReadState
    BY <2>1 DEF Elapse, EndOutage, ReadState, Tick, Recover, Read, retryVars,
                CallersIInv, RetryTypeOK, EffectsAreAccountedFor, OthersWereGivenUp
  <2>2. CASE UNCHANGED allVars
    BY <2>2 DEF allVars, CallersIInv, RetryTypeOK, EffectsAreAccountedFor, OthersWereGivenUp
  <2>3. QED
    BY <2>1, <2>2, WaitingSteps, EndingAttempts DEF RetryNext
<1>3. CallersIInv => EffectsAreAccountedFor
  BY DEF CallersIInv
<1>4. QED
  BY <1>1, <1>2, <1>3, RetryKeepsBreaker, PTL DEF RetrySpec
=============================================================================

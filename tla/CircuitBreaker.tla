--------------------------- MODULE CircuitBreaker ---------------------------
(***************************************************************************)
(* packages/resilience CircuitBreaker: one breaker, shared by all calls of *)
(* a process.  execute reads the state before its await and settles by     *)
(* that reading, whatever the state has become in between.                 *)
(*                                                                         *)
(* Time is the age of the last failure, counted up to one tick past the    *)
(* timeout; failureCount is counted up to the threshold.  The code compares *)
(* neither with anything larger.                                           *)
(***************************************************************************)
EXTENDS Naturals

CONSTANTS
  Calls,              \* the executions that can be in flight together
  FailureThreshold, SuccessThreshold, Timeout,
  Never               \* lastFailureTime = null

ASSUME BreakerAssumption ==
  /\ FailureThreshold \in Nat \ {0}
  /\ SuccessThreshold \in Nat \ {0}
  /\ Timeout \in Nat
  /\ Never \notin Nat

States == {"CLOSED", "OPEN", "HALF_OPEN"}

VARIABLES
  state, failureCount, successCount,
  sinceFailure,   \* ticks since lastFailureTime, or Never
  call,           \* the state each execution was admitted in, or "idle"
  outage          \* whether the protected service may fail

vars == <<state, failureCount, successCount, sinceFailure, call, outage>>

TypeOK ==
  /\ state \in States
  /\ failureCount \in 0 .. FailureThreshold
  /\ successCount \in 0 .. SuccessThreshold - 1
  /\ sinceFailure \in (0 .. Timeout + 1) \cup {Never}
  /\ call \in [Calls -> {"idle", "CLOSED", "HALF_OPEN"}]
  /\ outage \in BOOLEAN

Init ==
  /\ state = "CLOSED"
  /\ failureCount = 0
  /\ successCount = 0
  /\ sinceFailure = Never
  /\ call = [c \in Calls |-> "idle"]
  /\ outage = TRUE

TimeoutPassed == sinceFailure # Never /\ sinceFailure > Timeout

\* The timeout forgotten.
CurrentStateImpatient == IF state = "OPEN" THEN "HALF_OPEN" ELSE state

CurrentState == IF state = "OPEN" /\ TimeoutPassed THEN "HALF_OPEN" ELSE state

\* The transition reading the state makes when the timeout has passed.
getState ==
  /\ state' = CurrentState
  /\ successCount' = IF state' # state THEN 0 ELSE successCount

\* execute up to its await; a call that reads OPEN is rejected and changes nothing.
Admit(c) ==
  /\ call[c] = "idle"
  /\ CurrentState # "OPEN"
  /\ getState
  /\ call' = [call EXCEPT ![c] = CurrentState]
  /\ UNCHANGED <<failureCount, sinceFailure, outage>>

\* Someone reads the state without calling.
Read == getState /\ UNCHANGED <<failureCount, sinceFailure, call, outage>>

\* A reset that forgets to close.
CountersOnly ==
  /\ UNCHANGED state
  /\ failureCount' = 0
  /\ successCount' = 0
  /\ sinceFailure' = Never

reset ==
  /\ state' = "CLOSED"
  /\ failureCount' = 0
  /\ successCount' = 0
  /\ sinceFailure' = Never

SucceedHalfOpen(c) ==
  /\ call[c] = "HALF_OPEN"
  /\ \/ successCount + 1 >= SuccessThreshold /\ reset
     \/ /\ successCount + 1 < SuccessThreshold
        /\ successCount' = successCount + 1
        /\ UNCHANGED <<state, failureCount, sinceFailure>>
  /\ call' = [call EXCEPT ![c] = "idle"]
  /\ UNCHANGED outage

SucceedClosed(c) ==
  /\ call[c] = "CLOSED"
  /\ failureCount' = 0
  /\ call' = [call EXCEPT ![c] = "idle"]
  /\ UNCHANGED <<state, successCount, sinceFailure, outage>>

CountedFailures == IF failureCount < FailureThreshold THEN failureCount + 1 ELSE failureCount

\* The failure that opens one too late.
FailLate(c) ==
  /\ call[c] # "idle"
  /\ outage
  /\ failureCount' = CountedFailures
  /\ sinceFailure' = 0
  /\ state' = IF failureCount >= FailureThreshold THEN "OPEN" ELSE state
  /\ call' = [call EXCEPT ![c] = "idle"]
  /\ UNCHANGED <<successCount, outage>>

Fail(c) ==
  /\ call[c] # "idle"
  /\ outage
  /\ failureCount' = CountedFailures
  /\ sinceFailure' = 0
  /\ state' = IF failureCount' >= FailureThreshold THEN "OPEN" ELSE state
  /\ call' = [call EXCEPT ![c] = "idle"]
  /\ UNCHANGED <<successCount, outage>>

Settle(c) == SucceedHalfOpen(c) \/ SucceedClosed(c) \/ Fail(c)

Tick ==
  /\ sinceFailure # Never
  /\ sinceFailure <= Timeout
  /\ sinceFailure' = sinceFailure + 1
  /\ UNCHANGED <<state, failureCount, successCount, call, outage>>

\* The protected service stops failing.
Recover ==
  /\ outage
  /\ outage' = FALSE
  /\ UNCHANGED <<state, failureCount, successCount, sinceFailure, call>>

Next ==
  \/ \E c \in Calls : Admit(c) \/ Settle(c)
  \/ Read
  \/ Tick
  \/ Recover

Spec == Init /\ [][Next]_vars

\* Time passes, the process keeps calling, every call is settled in the end.
Fairness ==
  /\ WF_vars(Tick)
  /\ WF_vars(\E c \in Calls : Admit(c))
  /\ \A c \in Calls : WF_vars(Settle(c))

FairSpec == Spec /\ Fairness
-----------------------------------------------------------------------------
\* However calls overlap, a breaker that has counted as many failures as its
\* threshold is not CLOSED, and one that is OPEN knows when it failed last: without
\* that it would reject every call for ever.
ClosedBelowThreshold == state = "CLOSED" => failureCount < FailureThreshold
OpenKnowsItsFailure == state # "CLOSED" => sinceFailure # Never

IInv == TypeOK /\ ClosedBelowThreshold /\ OpenKnowsItsFailure

\* Once the service works again, the breaker closes, whatever was in flight when it
\* recovered.
RecoversAfterOutage == ~outage ~> (state = "CLOSED")

\* However calls overlap, an open breaker stays open until the timeout has passed
\* since the last failure, but for a trial that succeeds late: admitted before the
\* breaker opened again, it still counts towards closing it.
OnlyLateTrialsCutTheTimeout ==
  [][state = "OPEN" /\ state' # "OPEN" =>
       TimeoutPassed \/ \E c \in Calls : call[c] = "HALF_OPEN" /\ call'[c] = "idle"]_vars
=============================================================================

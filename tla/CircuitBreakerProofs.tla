------------------------ MODULE CircuitBreakerProofs ------------------------
(* The breaker's state and its count agree, for any number of goroutines,   *)
(* threshold and timeout.                                                   *)
EXTENDS CircuitBreaker, TLAPS

LEMMA InitTyped == Init => TypeOK
<1>1. 0 \in 0..MaxRetries - 1 /\ 0 \in 0..FailureThreshold
  BY BreakerAssumption
<1>2. ResetTimeout + 1 \in 0..ResetTimeout + 1
  BY BreakerAssumption
<1>3. [pc |-> "idle", tries |-> 0] \in CallerState
  BY <1>1 DEF CallerState
<1> QED
  BY <1>1, <1>2, <1>3 DEF Init, TypeOK, CircuitState

LEMMA CallersTyped ==
  ASSUME TypeOK, [Next]_vars
  PROVE  callers' \in [Caller -> CallerState]
<1> USE BreakerAssumption DEF TypeOK
<1>0. 0 \in 0..MaxRetries - 1
  OBVIOUS
<1>1. ASSUME NEW c \in Caller, NEW pc \in InFlight, Move(c, pc)
      PROVE  callers' \in [Caller -> CallerState]
  BY <1>1 DEF Move, CallerState
<1>2. ASSUME NEW c \in Caller, NEW outcome \in Outcome, Finish(c, outcome)
      PROVE  callers' \in [Caller -> CallerState]
  <2>1. [pc |-> outcome, tries |-> 0] \in CallerState
    BY <1>0 DEF CallerState
  <2> QED
    BY <1>2, <2>1 DEF Finish
<1>3. ASSUME NEW c \in Caller, Call(c)
      PROVE  callers' \in [Caller -> CallerState]
  <2>1. [pc |-> "attempt", tries |-> 0] \in CallerState
    BY <1>0 DEF CallerState, InFlight
  <2> QED
    BY <1>3, <2>1 DEF Call
<1>4. ASSUME NEW c \in Caller, BackOff(c)
      PROVE  callers' \in [Caller -> CallerState]
  <2>1. CASE callers[c].tries + 1 < MaxRetries
    <3> DEFINE next == [callers[c] EXCEPT !.pc = "backoff", !.tries = callers[c].tries + 1]
    <3>1. callers[c] \in CallerState /\ callers[c].tries \in 0..MaxRetries - 1
      BY DEF CallerState
    <3>2. callers[c].tries + 1 \in 0..MaxRetries - 1
      BY <2>1, <3>1
    <3>3. next \in CallerState
      BY <3>1, <3>2 DEF CallerState, InFlight
    <3>4. callers' = [callers EXCEPT ![c] = next]
      BY <1>4, <2>1 DEF BackOff, CallerState
    <3> QED
      BY <3>3, <3>4
  <2> QED
    BY <1>2, <1>4, <2>1 DEF BackOff, Outcome
<1>5. ASSUME NEW c \in Caller, Step(c)
      PROVE  callers' \in [Caller -> CallerState]
  <2>1. CASE Pass(c) \/ Probe(c) \/ Resume(c)
    BY <1>1, <2>1 DEF Pass, Probe, Resume, InFlight
  <2>2. CASE Reject(c) \/ Succeed(c) \/ FailOtherwise(c) \/ Cancel(c)
    BY <1>2, <2>2 DEF Reject, Succeed, FailOtherwise, Cancel, Outcome
  <2>3. CASE FailUnavailable(c)
    BY <1>4, <2>3 DEF FailUnavailable
  <2> QED
    BY <1>5, <2>1, <2>2, <2>3 DEF Step, Answer
<1> QED
  BY <1>3, <1>5 DEF Next, Tick, Outage, vars

LEMMA StepTyped == TypeOK /\ [Next]_vars => TypeOK'
<1> SUFFICES ASSUME TypeOK, [Next]_vars PROVE TypeOK'
  OBVIOUS
<1> USE BreakerAssumption
<1>1. ASSUME NEW c \in Caller, FailUnavailable(c)
      PROVE  TypeOK'
  <2>1. failureCount' \in 0..FailureThreshold /\ age' \in 0..ResetTimeout + 1
    BY <1>1 DEF FailUnavailable, Earlier, TypeOK
  <2>2. state' \in CircuitState /\ healthy' \in BOOLEAN
    BY <1>1 DEF FailUnavailable, TypeOK, CircuitState
  <2> QED
    BY <2>1, <2>2, CallersTyped DEF TypeOK
<1>2. ASSUME NEW c \in Caller, Succeed(c) \/ Probe(c)
      PROVE  TypeOK'
  BY <1>2, CallersTyped DEF Succeed, Probe, TypeOK, CircuitState
<1>3. CASE Tick
  BY <1>3, CallersTyped DEF Tick, TypeOK
<1>4. CASE Outage
  BY <1>4, CallersTyped DEF Outage, TypeOK
<1>5. CASE UNCHANGED <<state, failureCount, age, healthy>>
  BY <1>5, CallersTyped DEF TypeOK
<1> QED
  BY <1>1, <1>2, <1>3, <1>4, <1>5 DEF Next, Call, Step, Answer, Pass, Reject, FailOtherwise,
     Resume, Cancel, vars

\* No count, age or attempt leaves its range: in particular one request makes
\* no more than MaxRetries attempts.
THEOREM TypeCorrect == Spec => []TypeOK
BY InitTyped, StepTyped, PTL DEF Spec

\* A breaker is closed exactly below its threshold, however the answers of
\* concurrent calls are ordered.
THEOREM CountDecides == Spec => []BreakerMatchesCount
<1>1. Init => BreakerMatchesCount
  BY BreakerAssumption DEF Init, BreakerMatchesCount
<1>2. TypeOK /\ BreakerMatchesCount /\ [Next]_vars => BreakerMatchesCount'
  <2> SUFFICES ASSUME TypeOK, BreakerMatchesCount, [Next]_vars
               PROVE  BreakerMatchesCount'
    OBVIOUS
  <2> USE BreakerAssumption DEF BreakerMatchesCount
  <2>1. ASSUME NEW c \in Caller, FailUnavailable(c)
        PROVE  BreakerMatchesCount'
    BY <2>1 DEF FailUnavailable, Earlier, TypeOK
  <2>2. ASSUME NEW c \in Caller, Probe(c)
        PROVE  BreakerMatchesCount'
    BY <2>2 DEF Probe
  <2>3. ASSUME NEW c \in Caller, Succeed(c)
        PROVE  BreakerMatchesCount'
    BY <2>3 DEF Succeed
  <2>4. CASE UNCHANGED <<state, failureCount>>
    BY <2>4
  <2> QED
    BY <2>1, <2>2, <2>3, <2>4 DEF Next, Step, Answer, Call, Pass, Reject, FailOtherwise,
       Resume, Cancel, Tick, Outage, vars
<1> QED
  BY <1>1, <1>2, TypeCorrect, PTL DEF Spec
=============================================================================

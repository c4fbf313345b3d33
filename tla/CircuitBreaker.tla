--------------------------- MODULE CircuitBreaker ---------------------------
(***************************************************************************)
(* RetryWithCircuitBreaker of the common library: goroutines share one     *)
(* breaker around calls to one remote service.  The breaker's mutex is     *)
(* held before and after the call and not during it, so answers arrive in  *)
(* any order and after the state in which their call began is gone.        *)
(*                                                                         *)
(* time.Since(lastFailureTime) is the variable age, and failureCount stops *)
(* at the threshold: the code only asks whether each has reached its       *)
(* bound, so nothing is lost.                                              *)
(***************************************************************************)
EXTENDS Integers

CONSTANTS
  Caller,            \* goroutines sharing the breaker
  FailureThreshold,
  ResetTimeout,
  MaxRetries

VARIABLES
  state,             \* cb.state
  failureCount,      \* cb.failureCount, up to FailureThreshold
  age,               \* time since cb.lastFailureTime, up to ResetTimeout + 1
  callers,           \* where each goroutine is, and its failed attempts
  healthy            \* FALSE while the remote service may be Unavailable

vars == <<state, failureCount, age, callers, healthy>>

CircuitState == {"closed", "open", "half_open"}

\* What RetryWithCircuitBreaker returns: the result, ErrCircuitOpen, the last
\* error, or the context's error.
Outcome == {"ok", "rejected", "failed", "cancelled"}

InFlight == {"attempt", "calling", "backoff"}

CallerState == [pc : {"idle"} \cup InFlight \cup Outcome, tries : 0..MaxRetries - 1]

ASSUME BreakerAssumption ==
  /\ FailureThreshold \in Nat \ {0}
  /\ ResetTimeout \in Nat
  /\ MaxRetries \in Nat \ {0}

TypeOK ==
  /\ state \in CircuitState
  /\ failureCount \in 0..FailureThreshold
  /\ age \in 0..ResetTimeout + 1
  /\ callers \in [Caller -> CallerState]
  /\ healthy \in BOOLEAN

-----------------------------------------------------------------------------
(* Helpers *)

At(c, pc) == callers[c].pc = pc

Move(c, pc) == callers' = [callers EXCEPT ![c].pc = pc]

Finish(c, outcome) ==
  callers' = [callers EXCEPT ![c] = [pc |-> outcome, tries |-> 0]]

Earlier(n, cap) == IF n < cap THEN n + 1 ELSE cap

BackOffUncounted(c) == Move(c, "backoff")

\* RetryWithBackoff after Unavailable: wait and try again, unless this was
\* the last attempt.
BackOff(c) ==
  IF callers[c].tries + 1 < MaxRetries
    THEN callers' = [callers EXCEPT ![c].pc = "backoff", ![c].tries = @ + 1]
    ELSE Finish(c, "failed")

-----------------------------------------------------------------------------
(* RetryWithCircuitBreaker *)

Call(c) ==
  /\ callers[c].pc \notin InFlight
  /\ callers' = [callers EXCEPT ![c] = [pc |-> "attempt", tries |-> 0]]
  /\ UNCHANGED <<state, failureCount, age, healthy>>

\* Execute up to fn(), under the mutex: pass while the breaker is not open.
Pass(c) ==
  /\ At(c, "attempt")
  /\ state # "open"
  /\ Move(c, "calling")
  /\ UNCHANGED <<state, failureCount, age, healthy>>

ProbeAfresh(c) ==
  /\ At(c, "attempt")
  /\ state = "open"
  /\ age > ResetTimeout
  /\ state' = "half_open"
  /\ failureCount' = 0
  /\ Move(c, "calling")
  /\ UNCHANGED <<age, healthy>>

\* The first caller after the reset timeout half-opens the breaker; those
\* after it find it half-open and pass as well.
Probe(c) ==
  /\ At(c, "attempt")
  /\ state = "open"
  /\ age > ResetTimeout
  /\ state' = "half_open"
  /\ Move(c, "calling")
  /\ UNCHANGED <<failureCount, age, healthy>>

RejectAndRestart(c) ==
  /\ At(c, "attempt")
  /\ state = "open"
  /\ age <= ResetTimeout
  /\ age' = 0
  /\ Finish(c, "rejected")
  /\ UNCHANGED <<state, failureCount, healthy>>

\* ErrCircuitOpen is no gRPC status: RetryWithBackoff gives up at once.
Reject(c) ==
  /\ At(c, "attempt")
  /\ state = "open"
  /\ age <= ResetTimeout
  /\ Finish(c, "rejected")
  /\ UNCHANGED <<state, failureCount, age, healthy>>

SucceedWithoutReset(c) ==
  /\ At(c, "calling")
  /\ state' = "closed"
  /\ Finish(c, "ok")
  /\ UNCHANGED <<failureCount, age, healthy>>

\* fn() succeeded: whatever happened meanwhile, the breaker closes.
Succeed(c) ==
  /\ At(c, "calling")
  /\ state' = "closed"
  /\ failureCount' = 0
  /\ Finish(c, "ok")
  /\ UNCHANGED <<age, healthy>>

\* fn() was answered Unavailable: counted, and the reset timeout starts over,
\* in every state.
FailUnavailable(c) ==
  /\ At(c, "calling")
  /\ ~healthy
  /\ failureCount' = Earlier(failureCount, FailureThreshold)
  /\ state' = IF failureCount' >= FailureThreshold THEN "open" ELSE state
  /\ age' = 0
  /\ BackOff(c)
  /\ UNCHANGED healthy

\* fn() failed otherwise: the breaker is left as it is, half-open included.
FailOtherwise(c) ==
  /\ At(c, "calling")
  /\ Finish(c, "failed")
  /\ UNCHANGED <<state, failureCount, age, healthy>>

\* time.After(delay) fires.
Resume(c) ==
  /\ At(c, "backoff")
  /\ Move(c, "attempt")
  /\ UNCHANGED <<state, failureCount, age, healthy>>

\* ctx.Done(), looked at before an attempt and while waiting for the next.
Cancel(c) ==
  /\ callers[c].pc \in {"attempt", "backoff"}
  /\ Finish(c, "cancelled")
  /\ UNCHANGED <<state, failureCount, age, healthy>>

-----------------------------------------------------------------------------
Tick ==
  /\ age <= ResetTimeout
  /\ age' = age + 1
  /\ UNCHANGED <<state, failureCount, callers, healthy>>

\* The remote service goes down, or comes back.
Outage ==
  /\ healthy' = ~healthy
  /\ UNCHANGED <<state, failureCount, age, callers>>

\* lastFailureTime is the zero time: long ago.
Init ==
  /\ state = "closed"
  /\ failureCount = 0
  /\ age = ResetTimeout + 1
  /\ callers = [c \in Caller |-> [pc |-> "idle", tries |-> 0]]
  /\ healthy = TRUE

Answer(c) == Succeed(c) \/ FailUnavailable(c) \/ FailOtherwise(c)

Step(c) == Pass(c) \/ Probe(c) \/ Reject(c) \/ Answer(c) \/ Resume(c) \/ Cancel(c)

Next == \/ \E c \in Caller : Call(c) \/ Step(c)
        \/ Tick
        \/ Outage

Spec == Init /\ [][Next]_vars

\* Goroutines keep running, fn() returns, and time passes.  A context is not
\* cancelled every time its caller is about to probe an open breaker.
FairSpec == /\ Spec
            /\ WF_vars(Tick)
            /\ \A c \in Caller : WF_vars(Step(c)) /\ SF_vars(Probe(c))

-----------------------------------------------------------------------------
(* Properties *)

\* The breaker is closed exactly while fewer failures are counted than the
\* threshold, in every order of late answers: it never half-opens with its
\* count reset, so the first Unavailable after the reset timeout opens it
\* again, and it never stays closed at the threshold.
BreakerMatchesCount == state = "closed" <=> failureCount < FailureThreshold

\* Every call returns: attempts are counted across rejections, waiting and
\* the breaker's changes of state.
CallEnds == \A c \in Caller : callers[c].pc \in InFlight ~> callers[c].pc \notin InFlight

\* After the remote service has recovered for good, the breaker does not
\* stay open, nor opens again, as long as somebody goes on calling.
Recovers ==
  <>[]healthy => \/ <>[](state # "open")
                 \/ \A c \in Caller : <>[](~At(c, "attempt"))
=============================================================================

--------------------------- MODULE RetryExecution ---------------------------
(***************************************************************************)
(* execute_with_retry: a call is made, repeated after a growing delay when *)
(* it raises what the policy retries or returns after the timeout, and the *)
(* history of the attempts is returned or raised at the end.  The timeout  *)
(* does not end a call: what returns late has done its work.               *)
(***************************************************************************)
EXTENDS Naturals, Sequences, FiniteSets

CONSTANTS
    Policies,   \* retry policies before __post_init__
    Additions   \* sets of exceptions a policy is extended with

VARIABLES input, state

vars == <<input, state>>

\* The exceptions, each with the classes isinstance finds it in.
Classes ==
    [ConnectionError   |-> {"ConnectionError", "OSError", "Exception", "BaseException"},
     TimeoutError      |-> {"TimeoutError", "OSError", "Exception", "BaseException"},
     ValueError        |-> {"ValueError", "Exception", "BaseException"},
     KeyboardInterrupt |-> {"KeyboardInterrupt", "BaseException"}]

ExceptionClasses == UNION {Classes[error] : error \in DOMAIN Classes}

IsInstance(error, classes) == Classes[error] \cap classes # {}

Valid(policy) ==
    /\ policy.retry_delay > 0 /\ policy.timeout > 0
    /\ policy.backoff_multiplier > 0 /\ policy.maximum_retry_delay > 0
    /\ policy.retryable \cap policy.non_retryable = {}

MaximumAttempts(policy) == policy.maximum_retries + 1

\* x to the n-th power, as a recursive function: the provers know nothing of ^.
Power(x, n) == LET power[k \in Nat] == IF k = 0 THEN 1 ELSE x * power[k - 1] IN power[n]

\* The multiplier counts halves: what is below 2 shortens the delays.
\* Mutant: the maximum is applied before the back-off.
DelayCappedFirst(policy, retry) ==
    LET delay == IF policy.retry_delay < policy.maximum_retry_delay THEN policy.retry_delay
                 ELSE policy.maximum_retry_delay IN
    (delay * Power(policy.backoff_multiplier, retry - 1)) \div Power(2, retry - 1)

DelayForRetry(policy, retry) ==
    LET delay == (policy.retry_delay * Power(policy.backoff_multiplier, retry - 1))
                     \div Power(2, retry - 1) IN
    IF delay < policy.maximum_retry_delay THEN delay ELSE policy.maximum_retry_delay

\* Mutant: what is listed as retryable is retried.
RetryableFirst(policy, error) == IsInstance(error, policy.retryable)

IsRetryable(policy, error) ==
    ~IsInstance(error, policy.non_retryable) /\ IsInstance(error, policy.retryable)

ShouldRetry(policy, error, number) ==
    number < MaximumAttempts(policy) /\ IsRetryable(policy, error)

Extend(policy, exceptions) == [policy EXCEPT !.retryable = @ \cup exceptions]

RetryAttempt(number, elapsed, decision, error, delay) ==
    [attempt_number |-> number, duration |-> elapsed, decision |-> decision,
     error |-> error, delay_before_next_attempt |-> delay]

-----------------------------------------------------------------------------
Init ==
    /\ \E policy \in Policies, added \in Additions :
           /\ Valid(policy) /\ Valid(Extend(policy, added))
           /\ input = Extend(policy, added)
    /\ state = [phase |-> "ready", attempts |-> <<>>, done |-> 0, error |-> "none"]

Number == Len(state.attempts) + 1

Call ==
    /\ state.phase = "ready"
    /\ state' = [state EXCEPT !.phase = "calling"]
    /\ UNCHANGED input

Ends(phase, attempt, done, error) ==
    state' = [phase |-> phase, attempts |-> Append(state.attempts, attempt),
              done |-> done, error |-> error]

\* RetryExecutionResult
Succeeded(elapsed) ==
    Ends("returned", RetryAttempt(Number, elapsed, "success", "none", 0), state.done + 1, "none")

\* RetryExhaustedError
Exhausted(error, elapsed, done) ==
    Ends("exhausted", RetryAttempt(Number, elapsed, "fail", error, 0), done, error)

\* Mutant: a retry forgets the attempts before it.
FailedForgets(error, elapsed, done) ==
    IF ShouldRetry(input, error, Number)
    THEN state' = [state EXCEPT
             !.phase = "sleeping", !.done = 0,
             !.attempts = <<RetryAttempt(1, elapsed, "retry", error, DelayForRetry(input, 1))>>]
    ELSE Exhausted(error, elapsed, done)

\* The handling of an error, raised by the call or made for a late return.
Failed(error, elapsed, done) ==
    IF ShouldRetry(input, error, Number)
    THEN Ends("sleeping",
              RetryAttempt(Number, elapsed, "retry", error, DelayForRetry(input, Number)),
              done, state.error)
    ELSE Exhausted(error, elapsed, done)

Raise(error, elapsed) ==
    /\ state.phase = "calling"
    /\ Failed(error, elapsed, state.done)
    /\ UNCHANGED input

Return(elapsed) ==
    /\ state.phase = "calling"
    /\ IF elapsed > input.timeout
       THEN Failed("TimeoutError", elapsed, state.done + 1)
       ELSE Succeeded(elapsed)
    /\ UNCHANGED input

Wake ==
    /\ state.phase = "sleeping"
    /\ state' = [state EXCEPT !.phase = "ready"]
    /\ UNCHANGED input

\* An interrupt during the sleep is in no try block and loses the attempts.
Interrupt ==
    /\ state.phase = "sleeping"
    /\ state' = [state EXCEPT !.phase = "interrupted"]
    /\ UNCHANGED input

Finish ==
    \E elapsed \in {input.timeout, input.timeout + 1} :
        \/ Return(elapsed)
        \/ \E error \in DOMAIN Classes : Raise(error, elapsed)

Next == Call \/ Finish \/ Wake \/ Interrupt

\* A call ends, and so does a sleep.
Progress == Call \/ Finish \/ Wake

Spec == Init /\ [][Next]_vars /\ WF_vars(Progress)

-----------------------------------------------------------------------------
TypeOK ==
    /\ Valid(input)
    /\ state.phase \in {"ready", "calling", "sleeping", "returned", "exhausted", "interrupted"}
    /\ state.done \in 0..Number

Attempts == DOMAIN state.attempts

\* What the history says is what happened: the attempts are numbered and no
\* more than the policy allows; all but the last are retries of errors the
\* policy retries; a value comes from a last call in time, and an error from
\* a call that was the last one allowed or must not be repeated.
\* An interrupt is never retried, whatever the policy was extended with,
\* as long as it is listed as not retryable.
AttemptsTellWhatHappened ==
    /\ Len(state.attempts) <= MaximumAttempts(input)
    /\ \A k \in Attempts :
           LET attempt == state.attempts[k] IN
           /\ attempt.attempt_number = k
           /\ attempt.decision = "retry" =>
                  /\ IsInstance(attempt.error, input.retryable)
                  /\ ~IsInstance(attempt.error, input.non_retryable)
           /\ attempt.decision # "retry" => k = Len(state.attempts)
    /\ state.phase = "returned" =>
           state.attempts[Len(state.attempts)].duration <= input.timeout
    /\ state.phase = "exhausted" =>
           \/ Len(state.attempts) = MaximumAttempts(input)
           \/ ~IsRetryable(input, state.error)

Late == {k \in Attempts : /\ state.attempts[k].error = "TimeoutError"
                          /\ state.attempts[k].duration > input.timeout}

\* Work is done twice only because it was done too slowly: of the calls that
\* came to their end, all but the one whose value is returned took longer
\* than the timeout, and the history says so.
RepeatedWorkWasLate ==
    state.done <= Cardinality(Late) + (IF state.phase = "returned" THEN 1 ELSE 0)

\* A retry waits no longer than the policy allows, and no shorter than the one
\* before unless the multiplier says so.
RetriesBackOff ==
    \A k \in Attempts : state.attempts[k].decision = "retry" =>
        /\ state.attempts[k].delay_before_next_attempt <= input.maximum_retry_delay
        /\ k > 1 /\ input.backoff_multiplier >= 2 =>
               state.attempts[k - 1].delay_before_next_attempt
                   <= state.attempts[k].delay_before_next_attempt

\* A caller gets a value or an error, if every call ends.
Answered == state.phase \in {"returned", "exhausted", "interrupted"}
RetriesEnd == <>Answered
-----------------------------------------------------------------------------
(* The inductive invariant.                                                *)

Policy ==
    [maximum_retries : Nat, retry_delay : Nat, timeout : Nat, backoff_multiplier : Nat,
     maximum_retry_delay : Nat, retryable : SUBSET ExceptionClasses,
     non_retryable : SUBSET ExceptionClasses]

PoliciesFit == Policies \subseteq Policy /\ Additions \subseteq SUBSET ExceptionClasses

Attempt ==
    [attempt_number : Nat, duration : Nat, decision : {"success", "retry", "fail"},
     error : DOMAIN Classes \cup {"none"},
     delay_before_next_attempt :
         {0} \cup {DelayForRetry(input, k) : k \in 1..input.maximum_retries}]

Execution ==
    [phase : {"ready", "calling", "sleeping", "returned", "exhausted", "interrupted"},
     attempts : Seq(Attempt), done : Nat, error : DOMAIN Classes \cup {"none"}]

\* What is not over has been retried so far and may be tried once more.
GoesOn ==
    ~ (state.phase \in {"returned", "exhausted"}) =>
        /\ Len(state.attempts) < MaximumAttempts(input)
        /\ \A k \in Attempts : state.attempts[k].decision = "retry"

\* The delay after an attempt is the one the policy has for its number.
DelaysFollowPolicy ==
    \A k \in Attempts : state.attempts[k].decision = "retry" =>
        state.attempts[k].delay_before_next_attempt = DelayForRetry(input, k)

RetryInv ==
    /\ input \in Policy /\ Valid(input) /\ state \in Execution
    /\ AttemptsTellWhatHappened /\ RepeatedWorkWasLate /\ GoesOn /\ DelaysFollowPolicy
=============================================================================

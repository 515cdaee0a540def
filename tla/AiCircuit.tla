----------------------------- MODULE AiCircuit -----------------------------
(***************************************************************************)
(* AIResilienceService: calls of the language model, with retries and a    *)
(* timeout, behind a circuit breaker that all of them share.  What happens *)
(* between two awaits is one step.                                         *)
(***************************************************************************)
EXTENDS Naturals, FiniteSets

CONSTANTS
  Callers,           \* calls in flight; each slot is reused
  FailureThreshold,
  MaxRetries

ASSUME CircuitAssumption == FailureThreshold \in Nat \ {0} /\ MaxRetries \in Nat

VARIABLES
  breaker,   \* state, failures, probing, and whether the cooldown is over
  call,      \* per caller: next step, attempts made, fault of its own or not
  upstream   \* whether the provider answers

circuitVars == <<breaker, call, upstream>>

NoCall == [at |-> "idle", attempt |-> 0, malformed |-> FALSE]

(* Beyond the threshold the number of failures makes no difference.        *)
Closed == [state |-> "CLOSED", failures |-> 0, probing |-> FALSE, cooled |-> TRUE]

(* Failures in a row, the probe's among them.                              *)
OneMore(n) == IF n < FailureThreshold THEN n + 1 ELSE n

Trips(b) == b.state = "HALF_OPEN" \/ OneMore(b.failures) >= FailureThreshold

AfterFailure(b) ==
  [b EXCEPT !.failures = OneMore(@), !.cooled = FALSE,
            !.state = IF Trips(b) THEN "OPEN" ELSE @]

---------------------------------------------------------------------------
(* execute begins with the quotas of the school, which may refuse.         *)
Call(c, malformed) ==
  /\ call[c].at = "idle"
  /\ call' = [call EXCEPT ![c] = [at |-> "quota", attempt |-> 0, malformed |-> malformed]]
  /\ UNCHANGED <<breaker, upstream>>

Return(c) == call' = [call EXCEPT ![c] = NoCall]

OverQuota(c) ==
  /\ call[c].at = "quota"
  /\ Return(c)
  /\ UNCHANGED <<breaker, upstream>>

(* Mutant: who probes now is taken to be whoever probed before.            *)
HalfOpenStillProbing(b) ==
  IF b.state = "OPEN" /\ b.cooled THEN [b EXCEPT !.state = "HALF_OPEN"] ELSE b

(* After the cooldown, one call may probe.                                 *)
HalfOpen(b) ==
  IF b.state = "OPEN" /\ b.cooled
  THEN [b EXCEPT !.state = "HALF_OPEN", !.probing = FALSE] ELSE b

Refused(b) == b.state = "OPEN" \/ (b.state = "HALF_OPEN" /\ b.probing)

(* checkCircuitBreaker, and the first attempt.                             *)
Enter(c) ==
  LET b == HalfOpen(breaker) IN
  /\ call[c].at = "quota"
  /\ \/ /\ Refused(b)
        /\ breaker' = b
        /\ Return(c)
     \/ /\ ~Refused(b)
        /\ breaker' = [b EXCEPT !.probing = @ \/ b.state = "HALF_OPEN"]
        /\ call' = [call EXCEPT ![c].at = "attempt", ![c].attempt = 1]
  /\ UNCHANGED upstream

---------------------------------------------------------------------------
Succeed(c) ==
  /\ call[c].at = "attempt" /\ upstream /\ ~call[c].malformed
  /\ breaker' = [breaker EXCEPT !.state = "CLOSED", !.failures = 0, !.probing = FALSE]
  /\ Return(c)
  /\ UNCHANGED upstream

(* A timeout, or an error of the provider that is worth another attempt.   *)
FailTransiently(c) ==
  /\ call[c].at = "attempt" /\ ~upstream
  /\ \/ /\ call[c].attempt > MaxRetries
        /\ breaker' = AfterFailure(breaker)
        /\ Return(c)
     \/ /\ call[c].attempt <= MaxRetries
        /\ call' = [call EXCEPT ![c].attempt = @ + 1]
        /\ UNCHANGED breaker
  /\ UNCHANGED upstream

(* Any other error, those included that are the caller's own.              *)
FailForGood(c) ==
  /\ call[c].at = "attempt" /\ (call[c].malformed \/ ~upstream)
  /\ breaker' = AfterFailure(breaker)
  /\ Return(c)
  /\ UNCHANGED upstream

(* The cooldown has passed since the last failure.                         *)
Cool ==
  /\ ~breaker.cooled
  /\ breaker' = [breaker EXCEPT !.cooled = TRUE]
  /\ UNCHANGED <<call, upstream>>

SwitchUpstream == upstream' = ~upstream /\ UNCHANGED <<breaker, call>>

---------------------------------------------------------------------------
CircuitInit ==
  /\ breaker = Closed
  /\ call = [c \in Callers |-> NoCall]
  /\ upstream = TRUE

CallStep(c) == Enter(c) \/ Succeed(c) \/ FailTransiently(c) \/ FailForGood(c)

CircuitNext ==
  \/ \E c \in Callers : \/ \E malformed \in BOOLEAN : Call(c, malformed)
                        \/ OverQuota(c) \/ CallStep(c)
  \/ Cool
  \/ SwitchUpstream

---------------------------------------------------------------------------
Healthy == upstream /\ \A c \in Callers : ~call[c].malformed

Entered == \E c \in Callers : Enter(c)

(* When the provider answers for good, no call is malformed, and calls     *)
(* keep coming, the breaker closes and stays closed: no order of late      *)
(* failures, refusals and probes leaves it refusing for ever.              *)
BreakerRecovers ==
  <>[]Healthy /\ []<><<Entered>>_circuitVars => <>[](breaker.state = "CLOSED")
=============================================================================

----------------------------- MODULE RetryEngine -----------------------------
(***************************************************************************)
(* The retry decision and its backoff, packages/queue/src/retry.ts.        *)
(* Delays are whole milliseconds; `jitter` is a percentage, and the random *)
(* factor is a choice among the delays it can produce.                     *)
(***************************************************************************)
EXTENDS Integers

CONSTANTS
  BackoffPolicy,   \* [strategy, delay, multiplier, maxDelay, jitter]
  MaxBackoff       \* bound on the delays enumerated

ASSUME BackoffAssumption ==
  /\ BackoffPolicy \in [strategy: {"exponential", "fixed"}, delay: Nat,
                        multiplier: Nat, maxDelay: Nat, jitter: 0..100]
  /\ MaxBackoff \in Nat

LOCAL Min2(a, b) == IF a <= b THEN a ELSE b

(* The delay of the n-th failed attempt before jitter; n is 1-based.       *)
cappedDelay(n) ==
  LET raw == IF BackoffPolicy.strategy = "exponential"
             THEN BackoffPolicy.delay * BackoffPolicy.multiplier ^ (n - 1)
             ELSE BackoffPolicy.delay
  IN  Min2(raw, BackoffPolicy.maxDelay)

applyJitter(capped) ==
  {d \in 0..MaxBackoff :
     /\ 100 * d >= capped * (100 - BackoffPolicy.jitter)
     /\ 100 * d <= capped * (100 + BackoffPolicy.jitter)}

(* The delays computeBackoffDelay may return for the n-th failed attempt.  *)
computeBackoffDelay(n) == applyJitter(cappedDelay(n))

(* Mutant: one attempt too many.                                           *)
ExhaustedLate(consumed, maxAttempts) == consumed > maxAttempts

(* The decision of onFailure: dead-letter once the ceiling is reached.     *)
Exhausted(consumed, maxAttempts) == consumed >= maxAttempts
=============================================================================
